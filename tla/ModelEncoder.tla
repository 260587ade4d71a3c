---------------------------- MODULE ModelEncoder ---------------------------
(***************************************************************************)
(* How a model becomes the text of a model part (writeModel and            *)
(* writeChildModel in encoder.go), and what decodeModelFile makes of it.   *)
(*                                                                         *)
(* The encoder makes a sequence of calls: EncodeToken with a start, an end *)
(* or a text, and SetAutoClose and SetSkipAttrEscape, which change what    *)
(* later calls of EncodeToken print.  The part that is printed is the file *)
(* of ModelFile, which is read when all is written.  Files of any other    *)
(* origin are read too.                                                    *)
(*                                                                         *)
(* Of an object and of an asset only its shape and its counts are kept, of *)
(* a metadata whether its value is empty, of an unknown element its tokens.*)
(***************************************************************************)
EXTENDS ModelFile

CONSTANTS
  Models,  \* the models to encode
  NoModel  \* nothing is encoded

(* What Marshal3MF of an element of an unknown namespace writes: tokens    *)
(* that were read.                                                         *)
ReadTokens == Seq(Tokens \ {Malformed})

GroupItem ==
  [colorgroup |-> "color", texture2dgroup |-> "tex2coord",
   compositematerials |-> "composite", multiproperties |-> "multi"]

AnyType   == [kind : {"any", "beamlattice"}, tokens : ReadTokens, beams : Nat, sets : Seq(Nat)]
SliceType == [vertices : Nat, polygons : Seq(Nat)]
AssetType == [kind : {"basematerials", "texture2d", "slicestack", "asset"} \cup DOMAIN GroupItem,
              count : Nat, slices : Seq(SliceType), tokens : ReadTokens]
ObjectType == [metadata : Seq(BOOLEAN), shape : {"mesh", "components", "none"}, vertices : Nat,
               triangles : Nat, any : Seq(AnyType), components : Nat]
ModelType == [metadata : Seq(BOOLEAN), assets : Seq(AssetType), objects : Seq(ObjectType),
              items : Seq(Seq(BOOLEAN)), any : Seq(AnyType)]

ASSUME EncoderAssumption == Models \subseteq ModelType

VARIABLES
  model,  \* what is encoded, or NoModel
  calls,  \* the calls of the encoder
  ci,     \* the next one
  auto,   \* Printer.AutoClose
  skip    \* Printer.SkipAttrEscape

encVars == <<model, calls, ci, auto, skip>>

-----------------------------------------------------------------------------
AutoClose(on)      == [op |-> "auto", on |-> on]
SkipAttrEscape(on) == [op |-> "skip", on |-> on]

Open(local)  == Start(<<"core", local>>, FALSE)
Close(local) == End(<<"core", local>>)
Within(name, body)   == <<Start(name, FALSE)>> \o body \o <<End(name)>>
Element(local, body) == Within(<<"core", local>>, body)
Times(n, call)       == [k \in 1..n |-> call]
ForEach(s, op(_))    == FlattenSeq([k \in DOMAIN s |-> op(s[k])])

AutoClosed(body) == <<AutoClose(TRUE)>> \o body \o <<AutoClose(FALSE)>>
Numbers(body)    == AutoClosed(<<SkipAttrEscape(TRUE)>> \o body \o <<SkipAttrEscape(FALSE)>>)

(* The value of a metadata is a token, unless it is empty.                 *)
writeMetadata(md) ==
  ForEach(md, LAMBDA hasValue :
    Element("metadata", IF hasValue THEN <<Text>> ELSE <<>>))

writeMetadataGroup(md) == Element("metadatagroup", writeMetadata(md))

(* An item with metadata interrupts the auto closing.                      *)
writeItem(md) ==
  IF md = <<>> THEN <<Open("item")>>
  ELSE <<AutoClose(FALSE)>> \o Element("item", writeMetadataGroup(md)) \o <<AutoClose(TRUE)>>

writeBuild(items) == Element("build", AutoClosed(ForEach(items, writeItem)))

(* The property groups, each a list of numbers.                            *)
marshalGroup(asset) ==
  Within(<<"materials", asset.kind>>,
         Numbers(Times(asset.count, Start(<<"materials", GroupItem[asset.kind]>>, FALSE))))

(* Marshal3MF of a slice stack, with its slices and its references.        *)
marshalVertices(n) ==
  Within(<<"slices", "vertices">>, Numbers(Times(n, Start(<<"slices", "vertex">>, FALSE))))

(* Mutant: the polygons close their segments only after the last one. *)
marshalPolygons_LateReset(polygons) ==
  <<SkipAttrEscape(TRUE)>>
  \o ForEach(polygons, LAMBDA n :
       <<Start(<<"slices", "polygon">>, FALSE), AutoClose(TRUE)>>
       \o Times(n, Start(<<"slices", "segment">>, FALSE)) \o <<End(<<"slices", "polygon">>)>>)
  \o <<AutoClose(FALSE), SkipAttrEscape(FALSE)>>

marshalPolygons(polygons) ==
  <<SkipAttrEscape(TRUE)>>
  \o ForEach(polygons, LAMBDA n :
       Within(<<"slices", "polygon">>, AutoClosed(Times(n, Start(<<"slices", "segment">>, FALSE)))))
  \o <<SkipAttrEscape(FALSE)>>

marshalSlice(s) ==
  Within(<<"slices", "slice">>, marshalVertices(s.vertices) \o marshalPolygons(s.polygons))

marshalStack(asset) ==
  Within(<<"slices", "slicestack">>,
         ForEach(asset.slices, marshalSlice)
         \o AutoClosed(Times(asset.count, Start(<<"slices", "sliceref">>, FALSE))))

(* Marshal3MF of the assets.                                               *)
Marshal3MF(asset) ==
  CASE asset.kind = "basematerials" ->
         Element("basematerials", AutoClosed(Times(asset.count, Open("base"))))
    [] asset.kind \in DOMAIN GroupItem -> marshalGroup(asset)
    [] asset.kind = "texture2d" ->
         AutoClosed(<<Start(<<"materials", "texture2d">>, FALSE)>>)
    [] asset.kind = "slicestack" -> marshalStack(asset)
    [] asset.kind = "asset" -> asset.tokens

(* Marshal3MF of a beam lattice.                                           *)
marshalBeams(n) ==
  Within(<<"beamlattice", "beams">>, Numbers(Times(n, Start(<<"beamlattice", "beam">>, FALSE))))

marshalBeamsets(sets) ==
  Within(<<"beamlattice", "beamsets">>,
    ForEach(sets, LAMBDA n :
      Within(<<"beamlattice", "beamset">>, AutoClosed(Times(n, Start(<<"beamlattice", "ref">>, FALSE))))))

marshalAny(e) ==
  IF e.kind = "any" THEN e.tokens
  ELSE Within(<<"beamlattice", "beamlattice">>, marshalBeams(e.beams) \o marshalBeamsets(e.sets))

(* Any.encode returns when a first element is written.                     *)
anyEncode(any) == IF any = <<>> THEN <<>> ELSE marshalAny(Head(any))

(* Mutant: the flag is not reset. *)
writeVertices_KeepsSkip(n) ==
  Element("vertices", AutoClosed(<<SkipAttrEscape(TRUE)>> \o Times(n, Open("vertex"))))

writeVertices(n)  == Element("vertices", Numbers(Times(n, Open("vertex"))))
writeTriangles(n) == Element("triangles", Numbers(Times(n, Open("triangle"))))

writeMesh(o) ==
  Element("mesh", writeVertices(o.vertices) \o writeTriangles(o.triangles) \o anyEncode(o.any))

writeComponents(n) == Element("components", AutoClosed(Times(n, Open("component"))))

writeObject(o) ==
  Element("object",
    (IF o.metadata = <<>> THEN <<>> ELSE writeMetadataGroup(o.metadata))
    \o CASE o.shape = "mesh"       -> writeMesh(o)
         [] o.shape = "components" -> writeComponents(o.components)
         [] o.shape = "none"       -> <<>>)

writeResources(m) ==
  Element("resources", ForEach(m.assets, Marshal3MF) \o ForEach(m.objects, writeObject))

writeModel(m) ==
  Element("model", writeMetadata(m.metadata) \o writeResources(m)
                   \o writeBuild(m.items) \o anyEncode(m.any))

writeChildModel(m) ==
  Element("model", writeResources(m) \o Element("build", <<>>) \o anyEncode(m.any))

-----------------------------------------------------------------------------
(* A file that comes from elsewhere, or a model and the calls that write   *)
(* it.                                                                     *)
FileToRead ==
  /\ file \in Files
  /\ model = NoModel
  /\ calls = <<>>

ModelToWrite ==
  /\ file = <<>>
  /\ model \in Models
  /\ calls = IF isRoot THEN writeModel(model) ELSE writeChildModel(model)

EncoderInit ==
  /\ Begin
  /\ FileToRead \/ ModelToWrite
  /\ ci = 1
  /\ auto = FALSE /\ skip = FALSE

Call == calls[ci]

(* EncodeToken: a start element is closed at once when auto closing.       *)
EncodeToken ==
  /\ ci \in DOMAIN calls
  /\ Call.op \in {"start", "end", "text"}
  /\ file' = IF Call.op = "start" /\ auto THEN file \o <<Call, End(Call.name)>>
             ELSE Append(file, Call)
  /\ ci' = ci + 1
  /\ UNCHANGED <<isRoot, strict, i, open, stack, slots, captured, text, buffer, errs, result,
                 model, calls, auto, skip>>

SetFlag ==
  /\ ci \in DOMAIN calls
  /\ Call.op \in {"auto", "skip"}
  /\ auto' = IF Call.op = "auto" THEN Call.on ELSE auto
  /\ skip' = IF Call.op = "skip" THEN Call.on ELSE skip
  /\ ci' = ci + 1
  /\ UNCHANGED <<vars, model, calls>>

ReadBack ==
  /\ ci \notin DOMAIN calls
  /\ Next
  /\ UNCHANGED encVars

EncoderNext == EncodeToken \/ SetFlag \/ ReadBack

EncoderSpec == EncoderInit /\ [][EncoderNext]_<<vars, encVars>>

-----------------------------------------------------------------------------
(***************************************************************************)
(* Escaping is skipped only "when there is no need to escape" (spec.go,    *)
(* SetSkipAttrEscape): for elements whose attributes are all numbers.      *)
(***************************************************************************)
AllNumbers ==
  {<<"core", "vertex">>, <<"core", "triangle">>, <<"beamlattice", "beam">>}
  \cup ({"materials"} \X Range(GroupItem))
  \cup ({"slices"} \X {"vertex", "polygon", "segment"})

TextIsEscaped ==
  skip /\ ci \in DOMAIN calls => /\ Call.op = "start" => Call.name \in AllNumbers
                                 /\ Call.op # "text"

-----------------------------------------------------------------------------
(* The model that was decoded, in the form of the one that was encoded.    *)
Count(p, f) == Len(Slot(p, f))
MetadataOf(p) == [k \in 1..Count(p, "Metadata") |-> Slot(p, "Metadata")[k] \in DOMAIN text]
TokensOf(n) == [k \in DOMAIN captured[n] |-> file[captured[n][k]]]
AnyOf(p) ==
  LET decodedAny(n) ==
        IF n \in DOMAIN captured
        THEN [kind |-> "any", tokens |-> TokensOf(n), beams |-> 0, sets |-> <<>>]
        ELSE [kind |-> "beamlattice", tokens |-> <<>>, beams |-> Count(n, "Beams"),
              sets |-> [k \in 1..Count(n, "BeamSets") |-> Count(Slot(n, "BeamSets")[k], "Refs")]]
  IN  [k \in 1..Count(p, "Any") |-> decodedAny(Slot(p, "Any")[k])]

SliceOf(n) ==
  [vertices |-> Count(n, "Vertices"),
   polygons |-> [k \in 1..Count(n, "Polygons") |-> Count(Slot(n, "Polygons")[k], "Segments")]]

AssetOf(n) ==
  IF n \in DOMAIN captured
  THEN [kind |-> "asset", count |-> 0, slices |-> <<>>, tokens |-> TokensOf(n)]
  ELSE [kind   |-> file[n].name[2],
        count  |-> Count(n, "Materials") + Count(n, "Colors") + Count(n, "Coords")
                   + Count(n, "Composites") + Count(n, "Multis") + Count(n, "Refs"),
        slices |-> [k \in 1..Count(n, "Slices") |-> SliceOf(Slot(n, "Slices")[k])],
        tokens |-> <<>>]

ObjectOf(n) ==
  LET mesh == IF Slot(n, "Mesh") = <<>> THEN Nowhere ELSE Slot(n, "Mesh")[1]
      comp == IF Slot(n, "Components") = <<>> THEN Nowhere ELSE Slot(n, "Components")[1]
  IN  [metadata   |-> MetadataOf(n),
       shape      |-> IF mesh # Nowhere THEN "mesh" ELSE IF comp # Nowhere THEN "components" ELSE "none",
       vertices   |-> Count(mesh, "Vertices"),
       triangles  |-> Count(mesh, "Triangles"),
       any        |-> AnyOf(mesh),
       components |-> Count(comp, "Component")]

Decoded ==
  [metadata |-> MetadataOf(Shared.model),
   assets   |-> [k \in 1..Count(Shared.resources, "Assets") |-> AssetOf(Slot(Shared.resources, "Assets")[k])],
   objects  |-> [k \in 1..Count(Shared.resources, "Objects") |-> ObjectOf(Slot(Shared.resources, "Objects")[k])],
   items    |-> [k \in 1..Count(Shared.build, "Items") |-> MetadataOf(Slot(Shared.build, "Items")[k])],
   any      |-> AnyOf(Shared.model)]

(***************************************************************************)
(* A part that was written is read without an error, and gives the model   *)
(* that was encoded: every element is opened and closed where its decoder  *)
(* expects it, whatever is empty, and no flag leaks from one list into the *)
(* next.  A child part has no metadata and no items.                       *)
(***************************************************************************)
RoundTrip ==
  result # "none" /\ calls # <<>> =>
    /\ result = "nil"
    /\ Decoded = IF isRoot THEN model ELSE [model EXCEPT !.metadata = <<>>, !.items = <<>>]
=============================================================================
