------------------------------ MODULE Decoder ------------------------------
(***************************************************************************)
(* Decoder.DecodeContext (read.go): processOPC lists the model parts       *)
(* (PackageDiscovery), processNonRootModels decodes the child models, one  *)
(* goroutine each, and processRootModel decodes the root when they are all *)
(* done.  A goroutine that fails stores its error in the shared variable   *)
(* errs and cancels the context of its siblings; the caller may cancel its *)
(* own context at any time.                                                *)
(*                                                                         *)
(* Worker 0 decodes the root model, worker i the part nonRootModels[i].    *)
(* One step of a worker is one iteration of the token loop of              *)
(* decodeModelFile, with the poll of the context at its end; it is split   *)
(* in two where the token handler appends to a slice that other goroutines *)
(* can reach.  errs is an interface value, two words that are not written  *)
(* together, and nothing synchronises the goroutines that write it.        *)
(***************************************************************************)
EXTENDS PackageDiscovery

CONSTANTS
  CheckEvery,  \* checkEveryTokens: tokens between two polls of the context
  StrictModes  \* the values of Decoder.Strict to consider

(***************************************************************************)
(* What a token of a model file does: nothing the decoder shares ("plain"),*)
(* end an object ("object") or an element of an unknown namespace under    *)
(* <model> ("any"), hold an attribute that does not parse ("badattr"), or  *)
(* not be XML, or not be readable ("syntax").                              *)
(***************************************************************************)
TokenKinds == {"plain", "object", "any", "badattr", "syntax"}

Nil == "nil"
Errors == {"open", "syntax", "badattr", "canceled", "package"}

ASSUME DecoderAssumption ==
  /\ CheckEvery \in Nat \ {0}
  /\ StrictModes \subseteq BOOLEAN
  /\ \A p \in Packages : p.tokens \in [Names -> Seq(TokenKinds)]

VARIABLES
  strict,     \* Decoder.Strict
  main,       \* where DecodeContext is
  ctx,        \* the caller's context is cancelled
  childCtx,   \* the context of the child goroutines is cancelled
  wpc,        \* where each worker is
  pos,        \* the next token of its file
  errsSeen,   \* its handlers reported an error (errs of decodeModelFile)
  snap,       \* the slice it read to append to
  ret,        \* the error it returned
  late,       \* history: tokens it consumed since its context was cancelled
  errsType,   \* the type word of errs (processNonRootModels)
  errsData,   \* the data word of errs
  result,     \* the error returned by DecodeContext, as its two words
  objects,    \* Resources.Objects of the root (at model.Path) and each child
  anyElems    \* model.Any

workerVars == <<wpc, pos, errsSeen, snap, ret, late>>
sharedVars == <<errsType, errsData, objects, anyElems>>
runVars    == <<main, ctx, childCtx, workerVars, sharedVars, result>>
vars       == <<discVars, strict, runVars>>

Children == DOMAIN nonRootModels
Workers  == {0} \cup Children

(* Mutant: the goroutines share the loop variable. *)
FileOf_LastChild(w) == IF w = 0 THEN rootFile ELSE nonRootModels[Len(nonRootModels)]

FileOf(w) == IF w = 0 THEN rootFile ELSE nonRootModels[w]
Tokens(w) == pkg.tokens[FileOf(w)]
Token(w)  == IF pos[w] \in DOMAIN Tokens(w) THEN Tokens(w)[pos[w]] ELSE "eof"

Canceled(w) == IF w = 0 THEN ctx ELSE childCtx

NoResult == <<Nil, Nil>>

-----------------------------------------------------------------------------
Init ==
  /\ DiscoveryInit
  /\ strict \in StrictModes
  /\ main = "opc"
  /\ ctx = FALSE /\ childCtx = FALSE
  /\ wpc = [w \in {} |-> ""] /\ pos = [w \in {} |-> 1]
  /\ errsSeen = [w \in {} |-> FALSE]
  /\ snap = [w \in {} |-> <<>>]
  /\ ret = [w \in {} |-> Nil] /\ late = [w \in {} |-> 0]
  /\ errsType = Nil /\ errsData = Nil
  /\ result = NoResult
  /\ objects = [n \in Names |-> <<>>] /\ anyElems = <<>>

Discover ==
  /\ main = "opc"
  /\ ProcessOPC
  /\ UNCHANGED <<strict, runVars>>

DiscoveryFailed ==
  /\ main = "opc"
  /\ phase = "failed"
  /\ main' = "done"
  /\ result' = <<"package", "package">>
  /\ UNCHANGED <<discVars, strict, ctx, childCtx, workerVars, sharedVars>>

(* Mutant: cancel() is not deferred. *)
DerivedContext_CancelNow == TRUE

(* context.WithCancel(ctx): cancelled from the start if ctx is.            *)
DerivedContext == ctx

(* The derived context is made and all the goroutines are started.         *)
StartChildren ==
  /\ main = "opc"
  /\ phase = "found"
  /\ main' = "children"
  /\ childCtx' = DerivedContext
  /\ wpc' = [w \in Workers |-> IF w = 0 THEN "idle" ELSE "start"]
  /\ pos' = [w \in Workers |-> 1]
  /\ errsSeen' = [w \in Workers |-> FALSE]
  /\ snap' = [w \in Workers |-> <<>>]
  /\ ret' = [w \in Workers |-> Nil]
  /\ late' = [w \in Workers |-> 0]
  /\ errsType' = Nil /\ errsData' = Nil
  /\ UNCHANGED <<discVars, strict, ctx, objects, anyElems, result>>

(* cancel() of the caller's context cancels the derived one too.           *)
CallerCancels ==
  /\ main # "done"
  /\ ~ctx
  /\ ctx' = TRUE
  /\ childCtx' = (childCtx \/ main = "children")
  /\ UNCHANGED <<discVars, strict, main, workerVars, sharedVars, result>>

-----------------------------------------------------------------------------
(* Mutant: errs is assigned whatever the child returned. *)
Return_StoreNil(w, err) ==
  /\ ret' = [ret EXCEPT ![w] = err]
  /\ wpc' = [wpc EXCEPT ![w] = IF w = 0 THEN "done" ELSE "store"]

(***************************************************************************)
(* Worker w returns err.  A child whose context is cancelled by then       *)
(* returns the context's error instead (readChildModel), unless its part   *)
(* could not even be opened; one that returns an error goes on to store it.*)
(***************************************************************************)
Return(w, err) ==
  /\ ret' = [ret EXCEPT ![w] = err]
  /\ wpc' = [wpc EXCEPT ![w] = IF w = 0 \/ err = Nil THEN "done" ELSE "store"]

Finish(w, err) ==
  Return(w, IF w # 0 /\ childCtx THEN "canceled" ELSE err)

(* The errors of the handlers are returned when the loop itself had none.  *)
LoopError(w, err) == IF err = Nil /\ errsSeen[w] THEN "badattr" ELSE err

(* Mutant: the counter is tested one token late. *)
Polls_OffByOne(w) == (pos[w] - 1) % (CheckEvery + 1) = 0

(* The end of an iteration of the token loop: poll the context.            *)
Polls(w) == (pos[w] - 1) % CheckEvery = 0

(* Mutant: the loop ends without the error of the context. *)
EndIteration_LostCancel(w) ==
  /\ pos' = [pos EXCEPT ![w] = @ + 1]
  /\ IF Polls(w) /\ Canceled(w)
     THEN Finish(w, Nil)
     ELSE /\ wpc' = [wpc EXCEPT ![w] = "token"]
          /\ UNCHANGED ret

EndIteration(w) ==
  /\ pos' = [pos EXCEPT ![w] = @ + 1]
  /\ IF Polls(w) /\ Canceled(w)
     THEN Finish(w, "canceled")
     ELSE /\ wpc' = [wpc EXCEPT ![w] = "token"]
          /\ UNCHANGED ret

CountLate(w) == late' = [late EXCEPT ![w] = IF Canceled(w) THEN @ + 1 ELSE 0]

Open(w) ==
  /\ wpc[w] = "start"
  /\ IF FileOf(w) \in pkg.readable
     THEN /\ wpc' = [wpc EXCEPT ![w] = "token"]
          /\ UNCHANGED ret
     ELSE Return(w, "open")
  /\ UNCHANGED <<discVars, strict, main, ctx, childCtx, pos, errsSeen, snap,
                 late, sharedVars, result>>

(* A token with no shared effect and no error.                             *)
ReadPlain(w) ==
  /\ wpc[w] = "token"
  /\ Token(w) = "plain"
  /\ EndIteration(w)
  /\ CountLate(w)
  /\ UNCHANGED <<discVars, strict, main, ctx, childCtx, errsSeen, snap,
                 sharedVars, result>>

(* An error of a handler ends the loop at once in strict mode only.        *)
ReadBadAttr(w) ==
  /\ wpc[w] = "token"
  /\ Token(w) = "badattr"
  /\ errsSeen' = [errsSeen EXCEPT ![w] = TRUE]
  /\ IF strict
     THEN /\ Finish(w, "badattr")
          /\ pos' = [pos EXCEPT ![w] = @ + 1]
     ELSE EndIteration(w)
  /\ CountLate(w)
  /\ UNCHANGED <<discVars, strict, main, ctx, childCtx, snap,
                 sharedVars, result>>

(* RawToken returns an error: io.EOF is none.                              *)
ReadEnd(w) ==
  /\ wpc[w] = "token"
  /\ Token(w) \in {"syntax", "eof"}
  /\ Finish(w, LoopError(w, IF Token(w) = "syntax" THEN "syntax" ELSE Nil))
  /\ UNCHANGED <<discVars, strict, main, ctx, childCtx, pos, errsSeen, snap,
                 late, sharedVars, result>>

(* FindResources(path): the Resources are named by the part decoded.       *)
ResourcesOf(w) == FileOf(w)

(***************************************************************************)
(* End of an object or of an unknown element: x = append(x, e).  The       *)
(* objects of a file go to the Resources found for its path, the unknown   *)
(* elements of every file to the one model.Any.  The slice is read here    *)
(* and written in EndAppend; another goroutine may append in between.      *)
(***************************************************************************)
BeginAppend(w) ==
  /\ wpc[w] = "token"
  /\ Token(w) \in {"object", "any"}
  /\ snap' = [snap EXCEPT ![w] =
                IF Token(w) = "object" THEN objects[ResourcesOf(w)] ELSE anyElems]
  /\ wpc' = [wpc EXCEPT ![w] = "append"]
  /\ CountLate(w)
  /\ UNCHANGED <<discVars, strict, main, ctx, childCtx, pos, errsSeen, ret,
                 sharedVars, result>>

Element(w) == <<FileOf(w), pos[w]>>

EndAppend(w) ==
  /\ wpc[w] = "append"
  /\ IF Token(w) = "object"
     THEN /\ objects' = [objects EXCEPT ![ResourcesOf(w)] =
                           Append(snap[w], Element(w))]
          /\ UNCHANGED anyElems
     ELSE /\ anyElems' = Append(snap[w], Element(w))
          /\ UNCHANGED objects
  /\ snap' = [snap EXCEPT ![w] = <<>>]
  /\ EndIteration(w)
  /\ UNCHANGED <<discVars, strict, main, ctx, childCtx, errsSeen, late,
                 errsType, errsData, result>>

-----------------------------------------------------------------------------
(* errs = err in the goroutine of a child, a word at a time; then cancel().*)
StoreErrType(w) ==
  /\ wpc[w] = "store"
  /\ errsType' = ret[w]
  /\ wpc' = [wpc EXCEPT ![w] = "storedata"]
  /\ UNCHANGED <<discVars, strict, main, ctx, childCtx, pos, errsSeen, snap,
                 ret, late, errsData, objects, anyElems, result>>

StoreErrData(w) ==
  /\ wpc[w] = "storedata"
  /\ errsData' = ret[w]
  /\ wpc' = [wpc EXCEPT ![w] = "cancel"]
  /\ UNCHANGED <<discVars, strict, main, ctx, childCtx, pos, errsSeen, snap,
                 ret, late, errsType, objects, anyElems, result>>

CancelSiblings(w) ==
  /\ wpc[w] = "cancel"
  /\ childCtx' = TRUE
  /\ wpc' = [wpc EXCEPT ![w] = "done"]
  /\ UNCHANGED <<discVars, strict, main, ctx, pos, errsSeen, snap, ret, late,
                 sharedVars, result>>

WorkerStep(w) ==
  \/ Open(w)
  \/ ReadPlain(w) \/ ReadBadAttr(w) \/ ReadEnd(w)
  \/ BeginAppend(w) \/ EndAppend(w)
  \/ StoreErrType(w) \/ StoreErrData(w) \/ CancelSiblings(w)

(***************************************************************************)
(* wg.Wait, and the test of errs after it: an error ends the call, before  *)
(* the root model is looked at.                                            *)
(***************************************************************************)
ChildrenDone == \A w \in Children : wpc[w] = "done"

(* Mutant: wg.Wait is missing. *)
Waited_NoWait == main = "children"

Waited == main = "children" /\ ChildrenDone

Join ==
  /\ Waited
  /\ IF errsType # Nil
     THEN /\ main' = "done"
          /\ result' = <<errsType, errsData>>
          /\ UNCHANGED wpc
     ELSE /\ main' = "root"
          /\ wpc' = [wpc EXCEPT ![0] = "start"]
          /\ UNCHANGED result
  /\ UNCHANGED <<discVars, strict, ctx, childCtx, pos, errsSeen, snap, ret,
                 late, sharedVars>>

RootDone ==
  /\ main = "root"
  /\ wpc[0] = "done"
  /\ main' = "done"
  /\ result' = <<ret[0], ret[0]>>
  /\ UNCHANGED <<discVars, strict, ctx, childCtx, workerVars, sharedVars>>

(* The next call, with a fresh model and a fresh context.                  *)
CallAgain ==
  /\ main = "done"
  /\ DecodeAgain
  /\ main' = "opc"
  /\ ctx' = FALSE /\ childCtx' = FALSE
  /\ result' = NoResult
  /\ objects' = [n \in Names |-> <<>>] /\ anyElems' = <<>>
  /\ wpc' = [w \in {} |-> ""] /\ pos' = [w \in {} |-> 1]
  /\ errsSeen' = [w \in {} |-> FALSE]
  /\ snap' = [w \in {} |-> <<>>]
  /\ ret' = [w \in {} |-> Nil] /\ late' = [w \in {} |-> 0]
  /\ UNCHANGED <<strict, errsType, errsData>>

DecodeStep ==
  \/ Discover \/ DiscoveryFailed \/ StartChildren
  \/ \E w \in DOMAIN wpc : WorkerStep(w)
  \/ Join \/ RootDone

Next == DecodeStep \/ CallerCancels \/ CallAgain

(***************************************************************************)
(* The calling goroutine and those it starts are all run by the Go         *)
(* scheduler; the caller need not cancel, nor call again.                  *)
(***************************************************************************)
Fairness ==
  /\ WF_vars(Discover \/ DiscoveryFailed \/ StartChildren \/ Join \/ RootDone)
  /\ WF_vars(\E w \in DOMAIN wpc : WorkerStep(w))

Spec == Init /\ [][Next]_vars /\ Fairness

-----------------------------------------------------------------------------
Mains == {"opc", "children", "root", "done"}
WPCs  == {"idle", "start", "token", "append", "store", "storedata", "cancel",
          "done"}

(* Every variable holds a value of the Go type it stands for.              *)
TypeOK ==
  /\ DiscoveryTypeOK
  /\ strict \in BOOLEAN
  /\ main \in Mains
  /\ ctx \in BOOLEAN /\ childCtx \in BOOLEAN
  /\ main \in {"children", "root"} => DOMAIN wpc = Workers /\ phase = "found"
  /\ wpc \in [DOMAIN wpc -> WPCs]
  /\ pos \in [DOMAIN wpc -> Nat \ {0}]
  /\ errsSeen \in [DOMAIN wpc -> BOOLEAN]
  /\ DOMAIN snap = DOMAIN wpc
  /\ ret \in [DOMAIN wpc -> Errors \cup {Nil}]
  /\ late \in [DOMAIN wpc -> Nat]
  /\ errsType \in Errors \cup {Nil} /\ errsData \in Errors \cup {Nil}
  /\ result \in (Errors \cup {Nil}) \X (Errors \cup {Nil})
  /\ DOMAIN objects = Names

(***************************************************************************)
(* However the goroutines race on errs, what processNonRootModels tests    *)
(* after wg.Wait is right: errs is nil exactly when no child failed.       *)
(***************************************************************************)
ErrsTellFailure ==
  main = "children" /\ ChildrenDone =>
    (errsType # Nil <=> \E w \in Children : ret[w] # Nil)

(***************************************************************************)
(* DecodeContext returns nil only after every model part, of the children  *)
(* and of the root, was read to its end without an error.                  *)
(***************************************************************************)
NilMeansDecoded ==
  main = "done" /\ result[1] = Nil =>
    /\ phase = "found"
    /\ DOMAIN wpc = Workers
    /\ \A w \in Workers :
         wpc[w] = "done" /\ ret[w] = Nil /\ Token(w) = "eof"

(***************************************************************************)
(* The root model, whose build items refer to the objects of the children, *)
(* is decoded only when all the children were, and without an error.       *)
(***************************************************************************)
RootAfterChildren ==
  0 \in DOMAIN wpc /\ wpc[0] # "idle" =>
    \A w \in Children : wpc[w] = "done" /\ ret[w] = Nil

(***************************************************************************)
(* "context canceled" is never returned out of nowhere.  The code lets it  *)
(* take the place of the error that caused the cancellation, but unless    *)
(* the caller cancelled there was such an error.                           *)
(***************************************************************************)
CancelHasCause ==
  "canceled" \in {result[1], result[2]} /\ ~ctx =>
    \E w \in Children : ret[w] \notin {Nil, "canceled"}

(***************************************************************************)
(* A goroutine whose context is cancelled reads at most checkEveryTokens   *)
(* more tokens, wherever it was between two polls.                         *)
(***************************************************************************)
PromptCancel == \A w \in DOMAIN late : late[w] <= CheckEvery

(***************************************************************************)
(* The elements of a kind that a file holds in its first k tokens, in      *)
(* document order, and those of the whole file.                            *)
(***************************************************************************)
ElementsUpTo(n, tokens, kind) ==
  LET held[k \in 0..Len(tokens)] ==
        IF k = 0 THEN <<>>
        ELSE IF tokens[k] = kind THEN Append(held[k - 1], <<n, k>>) ELSE held[k - 1]
  IN  held

ContentOf(p, n, kind) == ElementsUpTo(n, p.tokens[n], kind)[Len(p.tokens[n])]

(***************************************************************************)
(* No goroutine outlives the call: once DecodeContext has returned, only   *)
(* another call changes the model.                                         *)
(***************************************************************************)
ModelStableAfterReturn ==
  [][main = "done" /\ calls' = calls =>
       UNCHANGED <<modelVars, objects, anyElems>>]_vars

(***************************************************************************)
(* "Decode reads the 3mf file and unmarshall its content into the model"   *)
(* (read.go:170): after a call without an error each child holds the       *)
(* objects of its part.                                                    *)
(***************************************************************************)
ChildContentDecoded ==
  main = "done" /\ result[1] = Nil =>
    \A n \in DOMAIN childs : objects[n] = ContentOf(pkg, n, "object")

(***************************************************************************)
(* "Support lossless decoding and encoding of unknown extensions"          *)
(* (README.md): after a call without an error model.Any holds the unknown  *)
(* elements of every part.                                                 *)
(***************************************************************************)
UnknownElementsDecoded ==
  main = "done" /\ result[1] = Nil =>
    \A w \in Workers :
      Range(ContentOf(pkg, FileOf(w), "any")) \subseteq Range(anyElems)

(***************************************************************************)
(* What a package holds for its reader: the root model, the parts that its *)
(* relationships make child models, and their content.                     *)
(***************************************************************************)
RootRels(p) == {r \in Range(p.rels[PackageRoot]) : r.type = ModelType}

HasRoot(p) == /\ p.opens /\ RootRels(p) # {}
              /\ \A r \in RootRels(p) : PartOf(PackageRoot, r) \in p.parts

RootPart(p) == CHOOSE n \in p.parts : \E r \in RootRels(p) : PartOf(PackageRoot, r) = n

ChildRels(p) == {r \in Range(p.rels[RootPart(p)]) :
                   r.type = ModelType /\ PartOf(RootPart(p), r) \in p.parts}

ModelParts(p) == {RootPart(p)} \cup {PartOf(RootPart(p), r) : r \in ChildRels(p)}

SoundPackage(p) ==
  /\ HasRoot(p)
  /\ \A n \in ModelParts(p) :
       n \in p.readable /\ Range(p.tokens[n]) \cap {"syntax", "badattr"} = {}

WholeContent(p) ==
  IF ~HasRoot(p) THEN <<>>
  ELSE <<[n \in ModelParts(p) |-> ContentOf(p, n, "object")],
         UNION {Range(ContentOf(p, n, "any")) : n \in ModelParts(p)}>>

DecodedContent ==
  IF main = "done" /\ result = NoResult
  THEN <<[n \in ModelParts(pkg) |-> objects[n]], Range(anyElems)>>
  ELSE <<>>

Status == IF main # "done" THEN "pending"
          ELSE IF result = NoResult THEN "ok" ELSE "failed"

Contract == INSTANCE DecodeContract
              WITH sound <- SoundPackage(pkg), whole <- WholeContent(pkg),
                   interrupted <- ctx, status <- Status,
                   content <- DecodedContent

(***************************************************************************)
(* No two goroutines append to one slice, and no goroutine to one that     *)
(* another has filled: no two children have elements for model.Any, and a  *)
(* part with objects is decoded once by a call, as a part is that the root *)
(* links to once and that no call before has listed.                       *)
(***************************************************************************)
Holds(w, kind) == kind \in Range(Tokens(w))

SlicesApart ==
  \A v, w \in Workers : v # w =>
    /\ FileOf(v) = FileOf(w) => ~Holds(v, "object")
    /\ v # 0 /\ w # 0 => ~(Holds(v, "any") /\ Holds(w, "any"))

AppendsApart == OneRootModel /\ (phase = "found" => SlicesApart)

(***************************************************************************)
(* DecodeContext is all or nothing to its caller: it returns nil with the  *)
(* whole content of the package, or an error that the package or the       *)
(* caller's cancellation explains, and it returns.  Of packages for which  *)
(* AppendsApart holds throughout.                                          *)
(***************************************************************************)
RefinesContract == Contract!Spec
=============================================================================
