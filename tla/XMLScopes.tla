----------------------------- MODULE XMLScopes -----------------------------
(***************************************************************************)
(* The parser of internal/xml/xml.go, above the level of characters: the   *)
(* elements that are open, the namespaces that are in scope, and the       *)
(* events OnStart and OnEnd.  A single map, ns, holds the bindings in      *)
(* scope; what an element rebinds is recorded below it on a stack, to be   *)
(* undone when the element ends.                                           *)
(*                                                                         *)
(* The stack is a sequence here; XMLCells models its linked list.          *)
(***************************************************************************)
EXTENDS Integers, Sequences, SequencesExt, FiniteSets

CONSTANTS
  NsPrefixes,    \* the prefixes a document may use; "" is the default one
  URIs,          \* the namespaces it binds them to
  Locals,        \* local names
  Declarations,  \* the sequences of xmlns attributes of an element
  MaxDepth       \* bound on the elements that are open

xmlnsPrefix == "xmlns"
xmlPrefix   == "xml"
xmlURL      == "http://www.w3.org/XML/1998/namespace"

(* An xmlns attribute.                                                     *)
Declares(p, uri) == [prefix |-> p, uri |-> uri]
Declared == {Declares(p, u) : p \in NsPrefixes, u \in URIs}

(* A name as it is written, and as it is after translation.                *)
RawNames == [space : NsPrefixes, local : Locals]
FullNames == [space : NsPrefixes \cup URIs \cup {xmlURL}, local : Locals]

ASSUME ScopesAssumption ==
  /\ NsPrefixes \subseteq STRING /\ URIs \subseteq STRING /\ Locals \subseteq STRING
  /\ Declarations \subseteq Seq(Declared)
  /\ MaxDepth \in Nat

VARIABLES
  ns,         \* the bindings in scope: [prefix -> namespace]
  stk,        \* open elements and what they rebound, the top last
  needClose,  \* the element just read was self-closing
  toClose,    \* and this is its name as it is written
  err,        \* "none", "syntax" or "EOF"; the parser stops at the first one
  event,      \* the last call of OnStart or OnEnd
  open        \* history: the open elements as they are written, innermost last

vars == <<ns, stk, needClose, toClose, err, event, open>>

NoName == [space |-> "", local |-> ""]

Init ==
  /\ ns = <<>>
  /\ stk = <<>>
  /\ needClose = FALSE /\ toClose = NoName
  /\ err = "none"
  /\ event = [op |-> "none", name |-> NoName]
  /\ open = <<>>

(* translate, of the name of an element.                                   *)
Translate(env, name) ==
  IF \/ name.space = xmlnsPrefix
     \/ name.space = "" /\ name.local = xmlnsPrefix
  THEN name
  ELSE IF name.space = xmlPrefix THEN [name EXCEPT !.space = xmlURL]
  ELSE IF name.space \in DOMAIN env THEN [name EXCEPT !.space = env[name.space]]
  ELSE name

-----------------------------------------------------------------------------
(* The bindings after the xmlns attributes of an element: of two for the   *)
(* same prefix the last one counts.                                        *)
LastFor(decls, p) == Max({k \in DOMAIN decls : decls[k].prefix = p})
PrefixesOf(decls) == {decls[k].prefix : k \in DOMAIN decls}

Bind(env, decls) ==
  [p \in DOMAIN env \cup PrefixesOf(decls) |->
     IF p \in PrefixesOf(decls) THEN decls[LastFor(decls, p)].uri ELSE env[p]]

(* pushNs: the binding that an xmlns attribute replaces, or that there was *)
(* none (ok is FALSE).                                                     *)
UndoOf(p, bound, env) ==
  [kind |-> "ns", prefix |-> p, ok |-> bound, name |-> NoName,
   uri |-> IF bound THEN env[p] ELSE ""]

(* The record for the k-th xmlns attribute, which replaces what those      *)
(* before it have bound.                                                   *)
Undo(env, decls, k) ==
  LET before == Bind(env, SubSeq(decls, 1, k - 1))
  IN  UndoOf(decls[k].prefix, decls[k].prefix \in DOMAIN before, before)

StartOf(name) ==
  [kind |-> "start", prefix |-> "", ok |-> FALSE, name |-> name, uri |-> ""]

(* Mutant: the record of the element goes below those of its bindings. *)
Pushed_StartBelow(env, decls, name) ==
  <<StartOf(name)>> \o [k \in DOMAIN decls |-> Undo(env, decls, k)]

Pushed(env, decls, name) ==
  [k \in DOMAIN decls |-> Undo(env, decls, k)] \o <<StartOf(name)>>

(* Mutant: the name to close is translated once more when it is closed. *)
StartElement_Translated(raw, decls, empty) ==
  /\ err = "none" /\ ~needClose
  /\ Len(open) < MaxDepth
  /\ LET env  == Bind(ns, decls)
         name == Translate(env, raw)
     IN  /\ ns' = env
         /\ stk' = stk \o Pushed(ns, decls, name)
         /\ event' = [op |-> "start", name |-> name]
         /\ toClose' = IF empty THEN name ELSE toClose
  /\ open' = Append(open, [raw |-> raw, decls |-> decls])
  /\ needClose' = empty
  /\ UNCHANGED err

(***************************************************************************)
(* RawToken at a start element, and handleStartElement: bind, translate,   *)
(* and push.  A self-closing element is given its end by the next call.    *)
(***************************************************************************)
StartElement(raw, decls, empty) ==
  /\ err = "none" /\ ~needClose
  /\ Len(open) < MaxDepth
  /\ LET env  == Bind(ns, decls)
         name == Translate(env, raw)
     IN  /\ ns' = env
         /\ stk' = stk \o Pushed(ns, decls, name)
         /\ event' = [op |-> "start", name |-> name]
  /\ open' = Append(open, [raw |-> raw, decls |-> decls])
  /\ needClose' = empty
  /\ toClose' = IF empty THEN raw ELSE toClose
  /\ UNCHANGED err

(* The stack after popElement has undone what is above it.                 *)
Kept == Max({0} \cup {k \in 1..(Len(stk) - 1) : stk[k].kind = "start"})
Undone == SubSeq(stk, Kept + 1, Len(stk) - 1)

(* Mutant: the record on top is undone last. *)
UndoneFor_Newest(p) == Max({k \in DOMAIN Undone : Undone[k].prefix = p})

(* The records are undone from the top down, so the oldest for a prefix    *)
(* has the last word.                                                      *)
UndoneFor(p) == Min({k \in DOMAIN Undone : Undone[k].prefix = p})

Restored ==
  [p \in {p \in DOMAIN ns : p \in PrefixesOf(Undone) => Undone[UndoneFor(p)].ok} |->
     IF p \in PrefixesOf(Undone) THEN Undone[UndoneFor(p)].uri ELSE ns[p]]

Top == Last(stk)

(* Mutant: only the local names are compared. *)
Closes_LocalOnly(name) == stk # <<>> /\ Top.kind = "start" /\ Top.name.local = name.local

(* What popElement asks of the name of an end element.                     *)
Closes(name) == IF stk = <<>> THEN FALSE ELSE Top.kind = "start" /\ Top.name = name

(* handleEndElement with the name as it is written.                        *)
HandleEnd(raw) ==
  LET name == Translate(ns, raw)
  IN  IF Closes(name)
      THEN /\ ns' = Restored
           /\ stk' = SubSeq(stk, 1, Kept)
           /\ event' = [op |-> "end", name |-> name]
           /\ open' = Front(open)
           /\ UNCHANGED err
      ELSE /\ err' = "syntax"
           /\ stk' = IF stk = <<>> THEN stk ELSE Front(stk)
           /\ UNCHANGED <<ns, event, open>>

EndElement(raw) ==
  /\ err = "none" /\ ~needClose
  /\ HandleEnd(raw)
  /\ UNCHANGED <<needClose, toClose>>

(* RawToken after a self-closing element.                                  *)
CloseEmpty ==
  /\ err = "none" /\ needClose
  /\ needClose' = FALSE
  /\ HandleEnd(toClose)
  /\ UNCHANGED toClose

(* RawToken where the markup is malformed, or the reader fails.            *)
Malformed ==
  /\ err = "none" /\ ~needClose
  /\ err' = "syntax"
  /\ UNCHANGED <<ns, stk, needClose, toClose, event, open>>

(* RawToken at the end of the input.                                       *)
EndOfInput ==
  /\ err = "none" /\ ~needClose
  /\ err' = IF stk = <<>> THEN "EOF" ELSE "syntax"
  /\ UNCHANGED <<ns, stk, needClose, toClose, event, open>>

Next ==
  \/ \E raw \in RawNames, decls \in Declarations, empty \in BOOLEAN :
       StartElement(raw, decls, empty)
  \/ \E raw \in RawNames : EndElement(raw)
  \/ CloseEmpty
  \/ Malformed
  \/ EndOfInput

Spec == Init /\ [][Next]_vars

-----------------------------------------------------------------------------
(***************************************************************************)
(* The meaning of a prefix in a document: the innermost open element that  *)
(* declares it binds it.                                                   *)
(***************************************************************************)
Declaring(elems, p) == {k \in DOMAIN elems : p \in PrefixesOf(elems[k].decls)}

Lexical(elems) ==
  [p \in UNION {PrefixesOf(elems[k].decls) : k \in DOMAIN elems} |->
     LET decls == elems[Max(Declaring(elems, p))].decls
     IN  decls[LastFor(decls, p)].uri]

(* One map with a stack of what to undo gives, at every point of the       *)
(* document, the scopes that the elements nest.                            *)
ScopesAreLexical == err = "none" => ns = Lexical(open)

(* The names of the elements that have a record, the oldest first.         *)
StartNames(records) ==
  LET upTo[k \in 0..Len(records)] ==
        IF k = 0 THEN <<>>
        ELSE IF records[k].kind = "start" THEN Append(upTo[k - 1], records[k].name)
        ELSE upTo[k - 1]
  IN  upTo[Len(records)]

(* An end element spelled like the start of the innermost open element is  *)
(* never an error, whatever prefixes were rebound inside.                  *)
SameSpellingCloses ==
  [][\A raw \in RawNames :
       EndElement(raw) /\ open # <<>> /\ Last(open).raw = raw => err' = "none"]_vars

(* A self-closing element never fails, and closes before anything else is  *)
(* read.                                                                   *)
EmptyElementsClose ==
  [][needClose => err' = "none" /\ open' = Front(open) /\ ~needClose']_vars

-----------------------------------------------------------------------------
(* What decodeModelFile relies on: a properly nested stream of elements.   *)
Elements == INSTANCE ElementStream
              WITH Names <- FullNames,
                   nesting <- StartNames(stk), status <- err, last <- event

RefinesElementStream == Elements!Spec
=============================================================================
