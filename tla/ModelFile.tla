----------------------------- MODULE ModelFile -----------------------------
(***************************************************************************)
(* decodeModelFile (read.go) and the element decoders (decoder.go): how    *)
(* the tokens of one model file become the content of the model.  A stack  *)
(* of decoders follows the elements; each start element is offered to the  *)
(* decoder on top, which makes a decoder for it or ignores it.             *)
(*                                                                         *)
(* An element is named by the position of its start token.  What is        *)
(* decoded is a forest of such elements: slots[<<p, f>>] holds the         *)
(* elements that the field f of the struct made for p refers to.  Of the   *)
(* attributes only this is kept: whether there are any, and whether one of *)
(* them does not parse.                                                    *)
(***************************************************************************)
EXTENDS ExtensionDecoders, SequencesExt

CONSTANTS
  Files,       \* the model files: sequences of tokens
  RootModes,   \* the values of isRoot to consider
  StrictModes  \* the values of Decoder.Strict to consider

(***************************************************************************)
(* An element name is <<namespace, local name>>.  The namespaces are the   *)
(* core one, those of the registered extensions that decode elements, and  *)
(* unknown ones.                                                           *)
(***************************************************************************)
ExtNames == In("materials", DOMAIN MaterialsDecoders) \cup In("slices", DOMAIN SlicesDecoders)
            \cup In("beamlattice", DOMAIN LatticeDecoders)
Names == ({"core", "unknown"} \X (DOMAIN CoreDecoders \cup {"other"})) \cup ExtNames

Start(name, bad) == [op |-> "start", name |-> name, bad |-> bad, bare |-> FALSE]
Bare(name)       == [op |-> "start", name |-> name, bad |-> FALSE, bare |-> TRUE]
End(name)        == [op |-> "end", name |-> name]
Text             == [op |-> "text"]
Malformed        == [op |-> "malformed"]  \* RawToken returns a syntax error

Tokens == {Start(n, b) : n \in Names, b \in BOOLEAN} \cup {Bare(n) : n \in Names}
          \cup {End(n) : n \in Names} \cup {Text, Malformed}

ASSUME FileAssumption ==
  /\ Files \subseteq Seq(Tokens)
  /\ RootModes \subseteq BOOLEAN
  /\ StrictModes \subseteq BOOLEAN

VARIABLES
  file,      \* the tokens of the file
  isRoot,    \* it is the root model
  strict,
  i,         \* the next token
  open,      \* the elements that are open, outermost first (of x, the parser)
  stack,     \* state and names, and on top currentDecoder and currentName
  slots,     \* what the decoded structs refer to
  captured,  \* [element of an unknown namespace -> the tokens kept for it]
  text,      \* [metadata element -> the token its Value comes from]
  buffer,    \* the token whose characters are in the buffer of x
  errs,      \* errors of the handlers, each a path to an element
  result     \* "none", the error returned, "nil", "syntax" or "attr", or "panic"

vars == <<file, isRoot, strict, i, open, stack, slots, captured, text, buffer,
          errs, result>>

-----------------------------------------------------------------------------
(* The decoders are known by the name of their element.  Those of unknown  *)
(* elements, and that of the file, are given a name of the core namespace. *)
Unknown == [Model |-> <<"core", "any">>, Mesh |-> <<"core", "any">>,
            Resources |-> <<"core", "asset">>]
TopKind == <<"core", "top">>

DecoderOf(kind) ==
  CASE kind[1] = "core"        -> CoreDecoders[kind[2]]
    [] kind[1] = "materials"   -> MaterialsDecoders[kind[2]]
    [] kind[1] = "slices"      -> SlicesDecoders[kind[2]]
    [] kind[1] = "beamlattice" -> LatticeDecoders[kind[2]]

(* The struct that CreateElementDecoder expects an element to be in.       *)
Asserted(name) ==
  CASE name \in MaterialsCreates \cup SlicesCreates -> "Resources"
    [] name \in LatticeCreates                      -> "Mesh"
    [] OTHER                                        -> "none"

(* Child of the decoder of that kind makes a decoder for that element.     *)
(* Only the root model has a build and metadata.                           *)
Handles(kind, name) ==
  LET d == DecoderOf(kind)
  IN  \/ /\ name \in d.children
         /\ d.creates = "Model" /\ ~isRoot => name[2] = "resources"
      \/ d.creates # "none" /\ (name[1] = "unknown" \/ Asserted(name) = d.creates)

ChildKind(kind, name) ==
  IF name[1] = "unknown" THEN Unknown[DecoderOf(kind).creates] ELSE name

(* A type assertion fails.                                                 *)
Panics(kind, name) ==
  Asserted(name) # "none" /\ DecoderOf(kind).creates \notin {"none", Asserted(name)}

(* The structs: one for each element, and those that no element makes, the *)
(* model, its Build and the Resources of the file.                         *)
Shared == [model |-> 0, build |-> -1, resources |-> -2]
Node == Nat \ {0}
Structs == Node \cup {0, -1, -2}

(* The struct that the children of element n fill, when its decoder has    *)
(* that kind and the decoder below fills p.                                *)
Filled(kind, n, p) ==
  LET fills == DecoderOf(kind).fills
  IN  CASE fills \in DOMAIN Shared -> Shared[fills]
        [] fills = "parent"        -> p
        [] OTHER                   -> n

Slot(p, f) == IF <<p, f>> \in DOMAIN slots THEN slots[<<p, f>>] ELSE <<>>
SetSlot(p, f, s) ==
  [k \in DOMAIN slots \cup {<<p, f>>} |-> IF k = <<p, f>> THEN s ELSE slots[k]]
Keep(p, f, n) == SetSlot(p, f, Append(Slot(p, f), n))

(* GetBeamLattice: the first one of the mesh, also while another is read.  *)
Nowhere == -3
GetBeamLattice(mesh) ==
  LET any      == Slot(mesh, "Any")
      lattices == {k \in DOMAIN any : file[any[k]].name \in LatticeCreates}
  IN  IF lattices = {} THEN Nowhere ELSE any[Min(lattices)]

Fills(kind, n, p) ==
  IF DecoderOf(kind).fills = "lattice" /\ GetBeamLattice(p) # Nowhere THEN GetBeamLattice(p)
  ELSE Filled(kind, n, p)

-----------------------------------------------------------------------------
(* Start and End: what the decoder of element n, of that kind, does to the *)
(* struct p that the decoder below fills.                                  *)
StartEffect(kind, n, p) ==
  LET d == DecoderOf(kind)
  IN  CASE d.keeps = "only" -> SetSlot(p, d.field, <<n>>)    \* object.Mesh = new(Mesh)
        [] d.keeps = "start" \/ (d.keeps = "attr" /\ ~file[n].bare) -> Keep(p, d.field, n)
        [] OTHER -> slots

EndEffect(kind, n, p) ==
  LET d == DecoderOf(kind) IN IF d.keeps = "end" THEN Keep(p, d.field, n) ELSE slots

(***************************************************************************)
(* The decoders that implement ErrorWrapper add their struct to the path   *)
(* of an error, with its index in the field that will keep it.             *)
(***************************************************************************)
Level(kind, p) ==
  LET d == DecoderOf(kind)
  IN  <<d.field, CASE d.wraps = "plain" -> 0
                   [] d.wraps = "last"  -> Len(Slot(p, d.field))
                   [] OTHER             -> Len(Slot(p, d.field)) + 1>>

(* The loop of OnStart over state, from the top down.                      *)
WrapPath(st) ==
  LET path[k \in 0..Len(st)] ==
        IF k = 0 THEN <<>>
        ELSE IF DecoderOf(st[k].kind).wraps = "no" THEN path[k - 1]
        ELSE Append(path[k - 1], Level(st[k].kind, st[k].parent))
  IN  path[Len(st)]

(* Start of <model> looks at the attributes of the root model only.        *)
Reports(kind) ==
  DecoderOf(kind).reports /\ (DecoderOf(kind).creates = "Model" => isRoot)

(* The level that Start itself adds, before it keeps anything.             *)
OwnLevel(kind, p) ==
  LET d == DecoderOf(kind)
      next == Len(Slot(p, d.field)) + 1
  IN  CASE d.level = "none"  -> <<>>
        [] d.level = "asset" -> << <<"Assets", next>> >>
        [] OTHER             -> << <<d.field, IF d.wraps = "plain" THEN 0 ELSE next>> >>

ErrorPath(kind, p) == WrapPath(stack) \o OwnLevel(kind, p)

-----------------------------------------------------------------------------
(* The decoder of the file, which no element makes.                        *)
TopLevel == [kind |-> TopKind, name |-> <<"", "">>, node |-> 0,
             parent |-> Shared.model, fills |-> Shared.model]

(* The parser and the decoders before the first token.                     *)
Begin ==
  /\ isRoot \in RootModes
  /\ strict \in StrictModes
  /\ i = 1
  /\ open = <<>>
  /\ stack = <<TopLevel>>
  /\ slots = <<>> /\ captured = <<>> /\ text = <<>>
  /\ buffer = 0
  /\ errs = <<>>
  /\ result = "none"

Init == file \in Files /\ Begin

Top == Last(stack)
Token == file[i]

(* In strict mode the first error of a handler ends the loop.              *)
StopsAtError == strict /\ errs # <<>>

(* handleEndElement: an end element must have the name of the open one.    *)
Mismatched == Token.op = "end" /\ IF open = <<>> THEN TRUE
                                  ELSE file[Last(open)].name # Token.name

(* RawToken returns a syntax error, also for a file that ends too early.   *)
SyntaxError == IF i \notin DOMAIN file THEN open # <<>>
               ELSE Token.op = "malformed" \/ Mismatched

(* A self-closing element is read at once, and gives its end element in a  *)
(* call of RawToken of its own.                                            *)
EndOfEmpty == Token.op = "end" /\ file[i - 1].op = "start"

(* The loop goes on: RawToken reads a token, through its buffer.           *)
CanRead(op) ==
  /\ result = "none"
  /\ ~StopsAtError
  /\ i \in DOMAIN file
  /\ ~SyntaxError
  /\ Token.op = op

Reads(op) ==
  /\ CanRead(op)
  /\ i' = i + 1
  /\ buffer' \in {i} \cup (IF EndOfEmpty THEN {buffer} ELSE {})
  /\ UNCHANGED <<file, isRoot, strict, result>>

Capture(n, k) ==
  [m \in DOMAIN captured \cup {n} |->
     IF m # n THEN captured[m]
     ELSE IF n \in DOMAIN captured THEN Append(captured[n], k) ELSE <<k>>]

(* OnStart, for an element that the decoder on top makes a decoder for.    *)
StartHandled ==
  /\ Reads("start")
  /\ Handles(Top.kind, Token.name)
  /\ LET kind == ChildKind(Top.kind, Token.name)
         p    == Top.fills
     IN  /\ stack' = Append(stack, [kind |-> kind, name |-> Token.name, node |-> i,
                                    parent |-> p, fills |-> Fills(kind, i, p)])
         /\ slots' = StartEffect(kind, i, p)
         /\ captured' = IF DecoderOf(kind).captures THEN Capture(i, i) ELSE captured
         /\ errs' = IF Token.bad /\ Reports(kind)
                    THEN Append(errs, [of |-> IF DecoderOf(kind).fills \in DOMAIN Shared
                                              THEN Shared[DecoderOf(kind).fills] ELSE i,
                                       kind |-> kind, path |-> ErrorPath(kind, p)])
                    ELSE errs
  /\ open' = Append(open, i)
  /\ UNCHANGED text

(* Mutant: elements inside an unknown element are not kept. *)
Captures_NoStart == FALSE

(* The decoder on top keeps the tokens it cannot handle.                   *)
Captures == DecoderOf(Top.kind).captures

(* OnStart, for any other element: kept as a token, or ignored.            *)
StartUnhandled ==
  /\ Reads("start")
  /\ ~Handles(Top.kind, Token.name)
  /\ ~Panics(Top.kind, Token.name)
  /\ captured' = IF Captures THEN Capture(Top.node, i) ELSE captured
  /\ open' = Append(open, i)
  /\ UNCHANGED <<stack, slots, text, errs>>

(* OnStart, for an element of an extension that its parent cannot have.    *)
StartPanics ==
  /\ CanRead("start")
  /\ Panics(Top.kind, Token.name)
  /\ result' = "panic"
  /\ UNCHANGED <<file, isRoot, strict, i, open, stack, slots, captured, text, buffer, errs>>

(* Mutant: only the local name is compared. *)
Closes_LocalOnly == Top.name[2] = Token.name[2]

(* Mutant: a decoder that keeps tokens keeps its own end element too. *)
Closes_NotCapturing == Top.name = Token.name /\ ~Captures

(* currentName == tp.Name: no other test that it is the same element.      *)
Closes == Top.name = Token.name

(* OnEnd: the decoder on top ends, or keeps the token, or neither.         *)
EndHandled ==
  /\ Reads("end")
  /\ Closes
  /\ slots' = EndEffect(Top.kind, Top.node, Top.parent)
  /\ captured' = IF DecoderOf(Top.kind).captures THEN Capture(Top.node, i) ELSE captured
  /\ stack' = Front(stack)
  /\ open' = Front(open)
  /\ UNCHANGED <<text, errs>>

EndUnhandled ==
  /\ Reads("end")
  /\ ~Closes
  /\ captured' = IF Captures THEN Capture(Top.node, i) ELSE captured
  /\ open' = Front(open)
  /\ UNCHANGED <<stack, slots, text, errs>>

(* OnChar: the last text of a metadata element is its value.               *)
ReadText ==
  /\ Reads("text")
  /\ text' = IF Top.kind = <<"core", "metadata">>
             THEN [m \in DOMAIN text \cup {Top.node} |->
                     IF m = Top.node THEN i ELSE text[m]]
             ELSE text
  /\ captured' = IF Captures THEN Capture(Top.node, i) ELSE captured
  /\ UNCHANGED <<open, stack, slots, errs>>

(* The loop ends: with the error of RawToken, unless it is io.EOF, or with *)
(* those of the handlers.                                                  *)
Return ==
  /\ result = "none"
  /\ StopsAtError \/ SyntaxError \/ i \notin DOMAIN file
  /\ result' = IF ~StopsAtError /\ SyntaxError THEN "syntax"
               ELSE IF errs # <<>> THEN "attr" ELSE "nil"
  /\ UNCHANGED <<file, isRoot, strict, i, open, stack, slots, captured, text, buffer, errs>>

Next == StartHandled \/ StartUnhandled \/ StartPanics \/ EndHandled \/ EndUnhandled
        \/ ReadText \/ Return

Spec == Init /\ [][Next]_vars

-----------------------------------------------------------------------------
(***************************************************************************)
(* OnEnd pops state without looking at its length, on no more than the     *)
(* equality of two names.  Still the decoders on the stack are always      *)
(* those of elements that are open, in their order: the decoder of the     *)
(* file is never popped, and none is left when all elements are closed.    *)
(***************************************************************************)
Increasing(s) == \A j, k \in DOMAIN s : j < k => s[j] < s[k]
Nodes(st) == [k \in 1..(Len(st) - 1) |-> st[k + 1].node]

DecodersAreOpen ==
  /\ stack # <<>> /\ stack[1].kind = TopKind
  /\ Increasing(open) /\ Increasing(Nodes(stack))
  /\ Range(Nodes(stack)) \subseteq Range(open)

-----------------------------------------------------------------------------
(***************************************************************************)
(* The same content read off the tree of the document: an element that no  *)
(* decoder handles is transparent, one of an unknown namespace is opaque.  *)
(***************************************************************************)
IsStart(k) == file[k].op = "start"

(* The number of elements open before token k, and the innermost of them.  *)
Depth(k) == Cardinality({j \in 1..(k - 1) : IsStart(j)})
            - Cardinality({j \in 1..(k - 1) : file[j].op = "end"})
Parent(k) == Max({0} \cup {j \in 1..(k - 1) : IsStart(j) /\ Depth(j) = Depth(k) - 1})
EndOf(n)  == Min({k \in n..Len(file) : file[k].op = "end" /\ Depth(k) = Depth(n) + 1})

(***************************************************************************)
(* The innermost decoder at each element of the tree, and the element it   *)
(* is made for: the element itself when handled.                           *)
(***************************************************************************)
InTree ==
  LET t[k \in 0..Len(file)] ==
        IF k = 0 THEN [of |-> 0, kind |-> TopKind, parent |-> Shared.model,
                       fills |-> Shared.model]
        ELSE LET up   == t[Parent(k)]
                 kind == ChildKind(up.kind, file[k].name)
             IN  IF ~IsStart(k) \/ ~Handles(up.kind, file[k].name) THEN up
                 ELSE [of |-> k, kind |-> kind, parent |-> up.fills,
                       fills |-> Filled(kind, k, up.fills)]
  IN  {t[k] : k \in {k \in DOMAIN file : IsStart(k)}}

(* The decoders of a field that their struct is kept in.                   *)
Keeps(d, f) ==
  LET decoder == DecoderOf(d.kind)
  IN  /\ decoder.field = f /\ decoder.keeps # "no"
      /\ decoder.keeps = "attr" => ~file[d.of].bare

KeptIn(tree, p, f) == {d.of : d \in {d \in tree : d.parent = p /\ Keeps(d, f)}}

(* The field has these elements in document order, or the last of them.    *)
Holds(p, f, elements) ==
  IF f \in {"Mesh", "Components"} /\ elements # {} THEN Slot(p, f) = <<Max(elements)>>
  ELSE Increasing(Slot(p, f)) /\ Range(Slot(p, f)) = elements

(* No element is inside another one of its own name, as in any valid file. *)
NamesDoNotNest ==
  \A k \in DOMAIN file : IsStart(k) =>
    \A j \in (k + 1)..EndOf(k) : IsStart(j) => file[j].name # file[k].name

ReadToTheEnd == result # "none" /\ i \notin DOMAIN file /\ open = <<>>

(* No mesh has two beam lattices: the beams of both would go to the first. *)
OneLattice(tree) ==
  \A c, d \in tree :
    c.kind \in LatticeCreates /\ d.kind = c.kind /\ c.parent = d.parent => c = d

TextsIn(n) == {k \in n..EndOf(n) : file[k].op = "text"}

(***************************************************************************)
(* When the file was read to its end, with errors of handlers or without,  *)
(* the model holds exactly the content of the tree: nothing is lost, moved *)
(* to another parent, or reordered.  The value of a metadata is its text,  *)
(* unless comments or elements cut that text in pieces: CharData replaces  *)
(* what it was called with before.                                         *)
(***************************************************************************)
ContentIsTheTree ==
  ReadToTheEnd /\ NamesDoNotNest =>
    LET tree == InTree
    IN  OneLattice(tree) =>
          /\ \A f \in {DecoderOf(d.kind).field : d \in tree} : \A p \in {d.fills : d \in tree} :
               Holds(p, f, KeptIn(tree, p, f))
          /\ \A d \in tree :
               d.kind = <<"core", "metadata">> /\ Cardinality(TextsIn(d.of)) <= 1 =>
                 TextsIn(d.of) = {text[m] : m \in DOMAIN text \cap {d.of}}

(* No handler's error is lost: nil is returned only for a file whose       *)
(* handled elements have attributes that all parse.                        *)
NilMeansParsed ==
  result = "nil" /\ NamesDoNotNest =>
    \A d \in InTree : d.of # 0 /\ file[d.of].bad =>
      \/ d.kind[2] \in {"metadata", "metadatagroup", "vertices", "triangles", "any",
                       "beams", "beamsets", "beamset"}
      \/ (d.kind = <<"core", "model">> /\ ~isRoot)

(***************************************************************************)
(* "UnknownTokens represents a section of an xml that cannot be decoded by *)
(* any loaded Spec" (spec/spec.go): the tokens kept for an element of an   *)
(* unknown namespace are those of the whole element.                       *)
(***************************************************************************)
Whole(n) == [k \in 1..(EndOf(n) - n + 1) |-> n + k - 1]

UnknownElementsWhole ==
  ReadToTheEnd => \A n \in DOMAIN captured : captured[n] = Whole(n)

(* The code keeps the promise when no element nests in one of its name.    *)
CapturedWhole == ReadToTheEnd /\ NamesDoNotNest => UnknownElementsWhole

(***************************************************************************)
(* "Support lossless decoding and encoding of unknown extensions"          *)
(* (README.md): the text inside an unknown element is kept as it was read. *)
(* OnChar keeps the slice of the parser's buffer that it is called with,   *)
(* so every text that is kept starts with what the buffer holds now.       *)
(***************************************************************************)
UnknownTextKept ==
  ReadToTheEnd =>
    \A n \in DOMAIN captured : \A k \in Range(captured[n]) :
      file[k].op = "text" => buffer = k

(***************************************************************************)
(* The indices in an error are taken before the elements they count are    *)
(* kept.  Still, in the model of a file read to its end, the path of every *)
(* error leads to the element it is about.  (An object with two meshes     *)
(* keeps the last one, and errors about the first have nowhere to lead.    *)
(* The end of a mesh inside the decoder of a mesh leaves the element open  *)
(* and its decoder not, so that another mesh can follow in its place.      *)
(* Errors about a color group lead to the resources, and those about a     *)
(* multi have a level of another type.)                                    *)
(***************************************************************************)
At(p, f, j) == IF j \in DOMAIN Slot(p, f) THEN Slot(p, f)[j] ELSE Nowhere

Follow(path) ==
  LET at[k \in 0..Len(path)] ==
        IF k = 0 THEN Shared.model
        ELSE LET level == path[k]
             IN  CASE level[1] = "Build"                -> Shared.build
                   [] level[1] = "Resources"            -> Shared.resources
                   [] level[1] = "Any"                  -> GetBeamLattice(at[k - 1])
                   [] level[1] \in {"Mesh", "Components"} -> At(at[k - 1], level[1], 1)
                   [] OTHER                             -> At(at[k - 1], level[1], level[2])
  IN  at[Len(path)]

(* No object has two meshes or two lists of components, no mesh two beam   *)
(* lattices.                                                               *)
OneOfEach ==
  \A c, d \in InTree :
    DecoderOf(d.kind).wraps = "plain" /\ c.kind = d.kind /\ c.parent = d.parent => c = d

ErrorsLocate ==
  ReadToTheEnd /\ errs # <<>> /\ NamesDoNotNest /\ OneOfEach =>
    \A k \in DOMAIN errs :
      errs[k].kind[2] \notin {"colorgroup", "multi"} => Follow(errs[k].path) = errs[k].of
=============================================================================
