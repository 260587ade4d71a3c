----------------------------- MODULE XMLPrinter ----------------------------
(***************************************************************************)
(* The namespaces of a model part that is read and written again.  The     *)
(* parser (XMLScopes) gives every name its namespace; the Printer of       *)
(* internal/xml/printer.go must find a prefix for it again.  It has one    *)
(* map, attrPrefix, to which declarations are added as they are printed,   *)
(* and from which nothing is ever removed.                                 *)
(*                                                                         *)
(* A document is only read, or printed element by element as it is read;   *)
(* those that are printed use no prefix that they do not declare.  The     *)
(* root is printed by modelToken (encoder.go); the elements in it stand    *)
(* for the tokens that are kept for unknown elements and replayed by       *)
(* UnknownTokens (spec/spec.go).                                           *)
(***************************************************************************)
EXTENDS XMLScopes

CONSTANTS
  CoreNamespace,
  Extensions,   \* the sequences of declarations of a root, after the default one
  Attributes    \* the sequences of attributes of the elements below it

(* An attribute: a declaration of a prefix or of the default namespace, or *)
(* any other, with the prefix that it is written with.                     *)
PrefixAttr(p, u)  == [space |-> xmlnsPrefix, local |-> p, uri |-> u]
DefaultAttr(u)    == [space |-> "", local |-> xmlnsPrefix, uri |-> u]
OtherAttr(p, l)   == [space |-> p, local |-> l, uri |-> ""]
InSpace(a, s)     == [space |-> s, local |-> a.local, uri |-> a.uri]

IsDefault(a) == a.space = "" /\ a.local = xmlnsPrefix

DeclarationOf(a) ==
  IF IsDefault(a) THEN <<Declares("", a.uri)>>
  ELSE IF a.space = xmlnsPrefix THEN <<Declares(a.local, a.uri)>>
  ELSE <<>>

DeclarationsIn(attrs) == FlattenSeq([k \in DOMAIN attrs |-> DeclarationOf(attrs[k])])

(* translate, of the name of an attribute.                                 *)
TranslateAttr(env, a) ==
  IF a.space \in {"", xmlnsPrefix} THEN a
  ELSE IF a.space = xmlPrefix THEN InSpace(a, xmlURL)
  ELSE IF a.space \in DOMAIN env THEN InSpace(a, env[a.space])
  ELSE a

(* A prefix that is not declared stays as it is, which XML does not allow. *)
PrefixesBound(env, raw, attrs) ==
  /\ raw.space \in {""} \cup DOMAIN env
  /\ \A k \in DOMAIN attrs : attrs[k].space \in {"", xmlPrefix, xmlnsPrefix} \cup DOMAIN env

TranslateAttrs(env, attrs) == [k \in DOMAIN attrs |-> TranslateAttr(env, attrs[k])]

ModelName == [space |-> "", local |-> "model"]

AttrType == {a \in [space : NsPrefixes \cup {xmlnsPrefix}, local : STRING, uri : STRING] :
               DeclarationOf(a) \in Seq(Declared)}

ASSUME PrinterAssumption ==
  /\ CoreNamespace \in URIs /\ ModelName \in RawNames
  /\ Extensions \subseteq Seq({PrefixAttr(p, u) : p \in NsPrefixes, u \in URIs})
  /\ Attributes \subseteq Seq(AttrType)

VARIABLES
  copies,      \* the document is printed as it is read
  attrPrefix,  \* the map of the printer: [namespace -> prefix]
  written,     \* the elements open in the text that is printed, as they are spelled
  tag          \* the tag printed last, and what it was printed for

printVars == <<copies, attrPrefix, written, tag>>

-----------------------------------------------------------------------------
Put(map, u, p) == [v \in DOMAIN map \cup {u} |-> IF v = u THEN p ELSE map[v]]

(* createAttrPrefix: the map after an attribute.                           *)
Define(map, a) ==
  IF a.space = "" \/ a.space \in DOMAIN map \/ a.space = xmlURL THEN map
  ELSE Put(map, IF a.space = xmlnsPrefix THEN a.uri ELSE a.space, a.local)

(* The maps before each attribute, and the one after them all.             *)
DefineEach(map, attrs) ==
  LET before[k \in 0..Len(attrs)] == IF k = 0 THEN map ELSE Define(before[k - 1], attrs[k])
  IN  before

DefineAll(map, attrs) == DefineEach(map, attrs)[Len(attrs)]

(* createAttrPrefix: what is printed before the colon.                     *)
AttrSpelled(map, a) ==
  IF a.space = "" THEN a
  ELSE IF a.space \in DOMAIN map THEN InSpace(a, map[a.space])
  ELSE IF a.space = xmlURL THEN InSpace(a, xmlPrefix)
  ELSE a

AttrsSpelled(map, attrs) ==
  [k \in DOMAIN attrs |-> AttrSpelled(DefineEach(map, attrs)[k - 1], attrs[k])]

(* Mutant: the prefix is the namespace where it has none. *)
Spelled_Namespace(map, name) ==
  [name EXCEPT !.space = IF name.space \in DOMAIN map THEN map[name.space] ELSE name.space]

Spelled(map, name) ==
  [name EXCEPT !.space = IF name.space \in DOMAIN map \ {""} THEN map[name.space] ELSE ""]

(* WriteStart looks the name up before it defines the prefixes of the      *)
(* attributes.                                                             *)
WriteStart(name, attrs) ==
  LET spelled == AttrsSpelled(attrPrefix, attrs)
  IN  /\ written' = Append(written, [raw   |-> Spelled(attrPrefix, name),
                                     attrs |-> spelled,
                                     decls |-> DeclarationsIn(spelled)])
      /\ attrPrefix' = DefineAll(attrPrefix, attrs)

WriteEnd(name) ==
  /\ written' = Front(written)
  /\ tag' = [op |-> "end", name |-> name, attrs |-> <<>>,
             start |-> Last(written).raw, end |-> Spelled(attrPrefix, name)]
  /\ UNCHANGED attrPrefix

Printed(name, attrs) ==
  tag' = [op |-> "start", name |-> name, attrs |-> attrs, start |-> NoName, end |-> NoName]

-----------------------------------------------------------------------------
PrinterInit ==
  /\ Init
  /\ copies \in BOOLEAN
  /\ attrPrefix = <<>>
  /\ written = <<>>
  /\ tag = [op |-> "none", name |-> NoName, attrs |-> <<>>, start |-> NoName, end |-> NoName]

(* The root is read; modelToken writes its default namespace first, then   *)
(* the prefixes that were declared (Model.Extensions).                     *)
Model(exts) ==
  LET attrs == <<DefaultAttr(CoreNamespace)>> \o exts
  IN  /\ open = <<>> /\ tag.op = "none"
      /\ StartElement(ModelName, DeclarationsIn(attrs), FALSE)
      /\ WriteStart(ModelName, attrs)
      /\ Printed(event'.name, attrs)

Element(raw, attrs, empty) ==
  LET read == TranslateAttrs(Bind(ns, DeclarationsIn(attrs)), attrs)
  IN  /\ open # <<>>
      /\ StartElement(raw, DeclarationsIn(attrs), empty)
      /\ WriteStart(event'.name, read)
      /\ Printed(event'.name, read)

(* The end of an element below the root, or of the root.                   *)
EndTag ==
  /\ open # <<>>
  /\ IF needClose THEN CloseEmpty ELSE EndElement(Last(open).raw)
  /\ WriteEnd(IF Len(open) = 1 THEN ModelName ELSE event'.name)

Copy ==
  \/ \E exts \in Extensions : Model(exts)
  \/ \E raw \in RawNames, attrs \in Attributes, empty \in BOOLEAN :
       /\ PrefixesBound(Bind(ns, DeclarationsIn(attrs)), raw, attrs)
       /\ Element(raw, attrs, empty)
  \/ EndTag

PrinterNext ==
  \/ ~copies /\ Next /\ UNCHANGED printVars
  \/ copies /\ Copy /\ UNCHANGED copies

PrinterSpec == PrinterInit /\ [][PrinterNext]_<<vars, printVars>>

-----------------------------------------------------------------------------
(***************************************************************************)
(* What is asked of the documents that are printed.  A root declares each  *)
(* prefix once, none that is reserved, for a namespace that is not empty   *)
(* and not the word xmlns; and nothing below it declares a prefix:         *)
(* attrPrefix would keep that one for what comes after its element.        *)
(***************************************************************************)
PrefixesOnlyAtRoot ==
  /\ \A exts \in Extensions : \A k \in DOMAIN exts :
       /\ exts[k].local \notin {"", xmlPrefix, xmlnsPrefix}
       /\ exts[k].uri \notin {"", xmlnsPrefix}
       /\ \A j \in DOMAIN exts : exts[j].local = exts[k].local => j = k
  /\ \A attrs \in Attributes : \A k \in DOMAIN attrs : attrs[k].space # xmlnsPrefix

(***************************************************************************)
(* "Support lossless decoding and encoding of unknown extensions"          *)
(* (README.md): the names of an element and of its attributes, read off    *)
(* the printed text by the rules of XML, are those that were read, and an  *)
(* end tag is spelled like its start.                                      *)
(***************************************************************************)
NamesSurvive ==
  /\ tag.op = "start" =>
       LET env == Lexical(written)
       IN  /\ PrefixesBound(env, Last(written).raw, Last(written).attrs)
           /\ Translate(env, Last(written).raw) = tag.name
           /\ TranslateAttrs(env, Last(written).attrs) = tag.attrs
  /\ tag.op = "end" => tag.end = tag.start
=============================================================================
