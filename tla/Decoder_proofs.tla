--------------------------- MODULE Decoder_proofs ---------------------------
(* What DecodeContext guarantees for any number of child models, of files   *)
(* of any length, and whatever order the goroutines run in: proofs of the   *)
(* invariants of Decoder, and that its steps are those of DecodeContract.   *)
EXTENDS Decoder, PackageDiscovery_proofs

Running   == {"start", "token", "append"}
Reporting == {"store", "storedata", "cancel"}

-----------------------------------------------------------------------------
(* The steps of a worker, by what they do to the variables that the         *)
(* outcome of the call depends on: the other actions of decodeModelFile     *)
(* only go on, or return.                                                   *)
GoesOn(w) ==
  /\ wpc[w] \in Running
  /\ \E pc \in {"token", "append"} : wpc' = [wpc EXCEPT ![w] = pc]
  /\ UNCHANGED <<ret, childCtx, errsType, errsData>>

Returns(w) ==
  /\ wpc[w] \in Running
  /\ \E err \in Errors \cup {Nil} :
       /\ Return(w, err)
       /\ err = "canceled" => Canceled(w)
       /\ err = Nil => Token(w) = "eof" /\ pos' = pos
  /\ UNCHANGED <<childCtx, errsType, errsData>>

LEMMA EndIterationShape ==
  ASSUME NEW w \in DOMAIN wpc, wpc[w] \in Running, EndIteration(w),
         UNCHANGED <<childCtx, errsType, errsData>>
  PROVE  GoesOn(w) \/ Returns(w)
BY DEF EndIteration, Finish, GoesOn, Returns, Return, Canceled, Errors, Nil

LEMMA FinishShape ==
  ASSUME NEW w \in DOMAIN wpc, wpc[w] \in Running, NEW err \in Errors \cup {Nil},
         Finish(w, err), err # "canceled", err = Nil => Token(w) = "eof" /\ pos' = pos,
         UNCHANGED <<childCtx, errsType, errsData>>
  PROVE  Returns(w)
BY DEF Finish, Returns, Canceled, Errors, Nil

LEMMA WorkerStepShape ==
  ASSUME NEW w \in DOMAIN wpc, WorkerStep(w)
  PROVE  \/ GoesOn(w) \/ Returns(w)
         \/ StoreErrType(w) \/ StoreErrData(w) \/ CancelSiblings(w)
<1>1. CASE Open(w)
  <2>1. CASE FileOf(w) \in pkg.readable
    BY <1>1, <2>1 DEF Open, GoesOn, Running, sharedVars
  <2>2. CASE FileOf(w) \notin pkg.readable
    BY <1>1, <2>2 DEF Open, Returns, Running, sharedVars, Errors, Nil
  <2>. QED
    BY <2>1, <2>2
<1>2. CASE ReadPlain(w)
  BY <1>2, EndIterationShape DEF ReadPlain, Running, sharedVars
<1>3. CASE ReadBadAttr(w)
  <2>1. CASE strict
    BY <1>3, <2>1, FinishShape DEF ReadBadAttr, Running, sharedVars, Errors, Nil
  <2>2. CASE ~strict
    BY <1>3, <2>2, EndIterationShape DEF ReadBadAttr, Running, sharedVars
  <2>. QED
    BY <2>1, <2>2
<1>4. CASE ReadEnd(w)
  <2> DEFINE err == LoopError(w, IF Token(w) = "syntax" THEN "syntax" ELSE Nil)
  <2>1. /\ err \in Errors \cup {Nil}
        /\ err # "canceled"
        /\ err = Nil => Token(w) = "eof"
    BY <1>4 DEF ReadEnd, LoopError, Errors, Nil
  <2>. QED
    BY <1>4, <2>1, FinishShape DEF ReadEnd, Running, sharedVars
<1>5. CASE BeginAppend(w)
  BY <1>5 DEF BeginAppend, GoesOn, Running, sharedVars
<1>6. CASE EndAppend(w)
  BY <1>6, EndIterationShape DEF EndAppend, Running
<1>. QED
  BY <1>1, <1>2, <1>3, <1>4, <1>5, <1>6 DEF WorkerStep

LEMMA WorkerStepFrame ==
  ASSUME NEW w \in DOMAIN wpc, WorkerStep(w)
  PROVE  /\ UNCHANGED <<discVars, strict, main, ctx, result>>
         /\ \A v \in DOMAIN pos : v # w => pos'[v] = pos[v]
         /\ DOMAIN pos' = DOMAIN pos
BY DEF WorkerStep, Open, ReadPlain, ReadBadAttr, ReadEnd, BeginAppend,
       EndAppend, StoreErrType, StoreErrData, CancelSiblings, EndIteration

-----------------------------------------------------------------------------
LEMMA TypeInductive ==
  ASSUME TypeOK, [Next]_vars
  PROVE  TypeOK'
<1> USE DEF Nil
<1>1. CASE Discover
  <2>1. DiscoveryTypeOK'
    BY <1>1, DiscoveryTypeInductive DEF Discover, DiscoveryNext, TypeOK
  <2>. QED
    BY <1>1, <2>1 DEF Discover, TypeOK, runVars, workerVars, sharedVars, Mains, Workers, Children
<1>2. CASE DiscoveryFailed
  BY <1>2 DEF DiscoveryFailed, TypeOK, DiscoveryTypeOK, discVars, cursors, modelVars,
              workerVars, sharedVars, Mains, Errors
<1>3. CASE StartChildren
  BY <1>3 DEF StartChildren, TypeOK, DiscoveryTypeOK, discVars, cursors, modelVars,
              Workers, Children, Mains, WPCs, DerivedContext, Errors
<1>4. ASSUME NEW w \in DOMAIN wpc, WorkerStep(w)
      PROVE  TypeOK'
  <2>1. UNCHANGED <<discVars, strict, main, ctx, result>>
    BY <1>4, WorkerStepFrame
  <2>2. /\ pos' \in [DOMAIN wpc -> Nat \ {0}]
        /\ errsSeen' \in [DOMAIN wpc -> BOOLEAN]
        /\ DOMAIN snap' = DOMAIN wpc
        /\ late' \in [DOMAIN wpc -> Nat]
        /\ DOMAIN objects' = Names
    <3>1. CASE ReadPlain(w) \/ ReadBadAttr(w)
      <4>1. /\ pos' = [pos EXCEPT ![w] = @ + 1]
            /\ errsSeen' \in {errsSeen, [errsSeen EXCEPT ![w] = TRUE]}
            /\ late' = [late EXCEPT ![w] = IF Canceled(w) THEN @ + 1 ELSE 0]
            /\ UNCHANGED <<snap, objects>>
        BY <3>1 DEF ReadPlain, ReadBadAttr, EndIteration, CountLate, sharedVars
      <4>2. pos' \in [DOMAIN wpc -> Nat \ {0}]
        BY <1>4, <4>1 DEF TypeOK
      <4>3. errsSeen' \in [DOMAIN wpc -> BOOLEAN]
        BY <1>4, <4>1, Zenon DEF TypeOK
      <4>4. late' \in [DOMAIN wpc -> Nat]
        BY <1>4, <4>1 DEF TypeOK
      <4>. QED
        BY <4>1, <4>2, <4>3, <4>4 DEF TypeOK
    <3>2. CASE EndAppend(w)
      BY <1>4, <3>2 DEF EndAppend, EndIteration, TypeOK
    <3>3. CASE BeginAppend(w)
      BY <1>4, <3>3 DEF BeginAppend, CountLate, TypeOK, sharedVars
    <3>4. CASE Open(w) \/ ReadEnd(w) \/ StoreErrType(w) \/ StoreErrData(w) \/ CancelSiblings(w)
      BY <1>4, <3>4 DEF Open, ReadEnd, StoreErrType, StoreErrData, CancelSiblings, TypeOK, sharedVars
    <3>. QED
      BY <1>4, <3>1, <3>2, <3>3, <3>4 DEF WorkerStep
  <2>3. /\ wpc' \in [DOMAIN wpc -> WPCs]
        /\ ret' \in [DOMAIN wpc -> Errors \cup {Nil}]
        /\ errsType' \in Errors \cup {Nil}
        /\ errsData' \in Errors \cup {Nil}
        /\ childCtx' \in BOOLEAN
    <3>1. CASE GoesOn(w)
      BY <3>1 DEF GoesOn, TypeOK, WPCs
    <3>2. CASE Returns(w)
      BY <3>2 DEF Returns, Return, TypeOK, WPCs
    <3>3. /\ wpc \in [DOMAIN wpc -> WPCs] /\ ret \in [DOMAIN wpc -> Errors \cup {Nil}]
          /\ errsType \in Errors \cup {Nil} /\ errsData \in Errors \cup {Nil}
          /\ childCtx \in BOOLEAN /\ ret[w] \in Errors \cup {Nil}
      BY <1>4 DEF TypeOK
    <3>4. CASE StoreErrType(w)
      BY ONLY <3>3, <3>4 DEF StoreErrType, WPCs
    <3>5. CASE StoreErrData(w)
      BY ONLY <3>3, <3>5 DEF StoreErrData, WPCs
    <3>6. CASE CancelSiblings(w)
      BY ONLY <3>3, <3>6 DEF CancelSiblings, WPCs, sharedVars
    <3>. QED
      BY <1>4, <3>1, <3>2, <3>4, <3>5, <3>6, WorkerStepShape
  <2>. QED
    BY <2>1, <2>2, <2>3 DEF TypeOK, DiscoveryTypeOK, discVars, cursors, modelVars, Workers, Children
<1>5. CASE Join
  <2>1. UNCHANGED <<discVars, strict, ctx, childCtx, pos, errsSeen, snap, ret, late, sharedVars>>
    BY <1>5 DEF Join
  <2>2. /\ main' \in Mains
        /\ wpc' \in [DOMAIN wpc -> WPCs]
        /\ result' \in (Errors \cup {Nil}) \X (Errors \cup {Nil})
    BY <1>5 DEF Join, TypeOK, Mains, WPCs
  <2>3. main' \in {"children", "root"} => DOMAIN wpc = Workers /\ phase = "found"
    BY <1>5 DEF Join, Waited, TypeOK
  <2>. QED
    BY <2>1, <2>2, <2>3 DEF TypeOK, DiscoveryTypeOK, discVars, cursors, modelVars, sharedVars,
                            Workers, Children
<1>6. CASE RootDone
  BY <1>6 DEF RootDone, TypeOK, DiscoveryTypeOK, discVars, cursors, modelVars, workerVars,
              sharedVars, Mains, Workers
<1>7. CASE CallerCancels
  BY <1>7 DEF CallerCancels, TypeOK, DiscoveryTypeOK, discVars, cursors, modelVars,
              workerVars, sharedVars, Mains, Workers, Children
<1>8. CASE CallAgain
  <2>1. DiscoveryTypeOK'
    BY <1>8, DiscoveryTypeInductive DEF CallAgain, DiscoveryNext, TypeOK
  <2>. QED
    BY <1>8, <2>1 DEF CallAgain, TypeOK, NoResult, Mains
<1>9. CASE UNCHANGED vars
  BY <1>9 DEF vars, runVars, workerVars, sharedVars, TypeOK, DiscoveryTypeOK, discVars, cursors,
              modelVars, Workers, Children
<1>. QED
  BY <1>1, <1>2, <1>3, <1>4, <1>5, <1>6, <1>7, <1>8, <1>9 DEF Next, DecodeStep

(***************************************************************************)
(* The types of the state hold for any packages and any number of          *)
(* goroutines; in particular the workers are those of nonRootModels as     *)
(* long as the call decodes (DecodeContext and all it calls).              *)
(***************************************************************************)
THEOREM DecoderTypeCorrect == Spec => []TypeOK
<1>1. Init => TypeOK
  <2> SUFFICES ASSUME Init PROVE TypeOK
    OBVIOUS
  <2>1. DiscoveryTypeOK
    BY DiscoveryAssumption DEF Init, DiscoveryInit, DiscoveryTypeOK, Phases
  <2>2. /\ strict \in BOOLEAN
        /\ main = "opc"
        /\ DOMAIN wpc = {} /\ DOMAIN pos = {} /\ DOMAIN errsSeen = {}
        /\ DOMAIN snap = {} /\ DOMAIN ret = {} /\ DOMAIN late = {}
    BY DecoderAssumption DEF Init
  <2>3. /\ wpc \in [DOMAIN wpc -> WPCs]
        /\ pos \in [DOMAIN wpc -> Nat \ {0}]
        /\ errsSeen \in [DOMAIN wpc -> BOOLEAN]
        /\ ret \in [DOMAIN wpc -> Errors \cup {Nil}]
        /\ late \in [DOMAIN wpc -> Nat]
    BY DEF Init
  <2>. QED
    BY <2>1, <2>2, <2>3 DEF Init, TypeOK, Mains, NoResult, Nil
<1>. QED
  BY <1>1, TypeInductive, PTL DEF Spec

-----------------------------------------------------------------------------
(***************************************************************************)
(* The inductive invariant.  StagesInv: workers exist from StartChildren   *)
(* on; the root waits for the children; outside "children" and "root" no   *)
(* worker runs.  ReturnsInv: where a worker is tells what it returned, and *)
(* one that returned nil read its file to the end.  ErrsInv: errs is set   *)
(* exactly by the children past the store.  CauseInv: behind every         *)
(* "canceled" there is the caller or the error of a child.                 *)
(***************************************************************************)
StagesInv ==
  /\ main = "opc" => DOMAIN wpc = {}
  /\ DOMAIN wpc # {} => DOMAIN wpc = Workers /\ phase = "found"
  /\ main = "children" => wpc[0] = "idle"
  /\ main = "root" => wpc[0] # "idle"
  /\ main = "done" => \A w \in DOMAIN wpc : wpc[w] \in {"idle", "done"}
  /\ RootAfterChildren

ReturnsInv ==
  \A w \in DOMAIN wpc :
    /\ wpc[w] \in Running \cup {"idle"} => ret[w] = Nil
    /\ wpc[w] \in Reporting => w # 0 /\ ret[w] # Nil
    /\ wpc[w] = "idle" => w = 0
    /\ wpc[w] = "done" /\ ret[w] = Nil => Token(w) = "eof"

ErrsInv ==
  main = "children" =>
    (errsType # Nil <=>
       \E w \in Children : ret[w] # Nil /\ wpc[w] \in {"storedata", "cancel", "done"})

Caused == ctx \/ \E v \in Children : v \in DOMAIN ret /\ ret[v] \notin {Nil, "canceled"}

CauseInv ==
  /\ main = "children" /\ childCtx => Caused
  /\ \A w \in DOMAIN wpc : ret[w] = "canceled" => Caused
  /\ main = "children" /\ "canceled" \in {errsType, errsData} => Caused
  /\ "canceled" \in {result[1], result[2]} => Caused

NilInv ==
  main = "done" /\ result[1] = Nil =>
    /\ DOMAIN wpc = Workers
    /\ \A w \in Workers : wpc[w] = "done" /\ ret[w] = Nil

RunInv == StagesInv /\ ReturnsInv /\ ErrsInv /\ CauseInv /\ NilInv

LEMMA RunInductive ==
  ASSUME TypeOK, TypeOK', RunInv, [Next]_vars
  PROVE  RunInv'
<1> USE DEF Nil, Running, Reporting
<1>1. CASE Discover
  BY <1>1 DEF Discover, RunInv, StagesInv, ReturnsInv, ErrsInv, CauseInv, NilInv, Caused,
              RootAfterChildren, TypeOK, runVars, workerVars, sharedVars
<1>2. CASE DiscoveryFailed
  BY <1>2 DEF DiscoveryFailed, RunInv, StagesInv, ReturnsInv, ErrsInv, CauseInv, NilInv, Caused,
              RootAfterChildren, workerVars, sharedVars
<1>3. CASE StartChildren
  <2>1. /\ Children' = Children /\ Workers' = Workers /\ 0 \notin Children /\ 0 \in Workers
        /\ main' = "children" /\ phase' = "found" /\ main = "opc"
        /\ ctx' = ctx /\ childCtx' = ctx /\ result' = result
    BY <1>3 DEF StartChildren, Workers, Children, discVars, cursors, DerivedContext, TypeOK,
                DiscoveryTypeOK
  <2>2. /\ DOMAIN wpc' = Workers /\ wpc'[0] = "idle"
        /\ \A w \in Children : wpc'[w] = "start"
    BY <1>3, <2>1 DEF StartChildren, Workers
  <2>3. /\ DOMAIN ret' = Workers /\ \A w \in Workers : ret'[w] = Nil
        /\ errsType' = Nil /\ errsData' = Nil
    BY <1>3 DEF StartChildren
  <2>4. StagesInv'
    BY <2>1, <2>2 DEF StagesInv, RootAfterChildren
  <2>5. ReturnsInv'
    BY <2>1, <2>2, <2>3 DEF ReturnsInv, Workers
  <2>6. ErrsInv'
    BY <2>1, <2>2, <2>3 DEF ErrsInv, Workers
  <2>7. CauseInv'
    <3>1. "canceled" \in {result[1], result[2]} => ctx
      BY <2>1 DEF RunInv, StagesInv, CauseInv, Caused, TypeOK
    <3>. QED
      BY <2>1, <2>2, <2>3, <3>1 DEF CauseInv, Caused
  <2>8. NilInv'
    BY <2>1 DEF NilInv
  <2>. QED
    BY <2>4, <2>5, <2>6, <2>7, <2>8 DEF RunInv
<1>4. ASSUME NEW w \in DOMAIN wpc, WorkerStep(w)
      PROVE  RunInv'
  <2>0. UNCHANGED <<discVars, strict, main, ctx, result>>
    BY <1>4, WorkerStepFrame
  <2>1. Children' = Children /\ Workers' = Workers /\ phase' = phase /\ 0 \notin Children
    BY <2>0 DEF discVars, cursors, Children, Workers, TypeOK, DiscoveryTypeOK
  <2>2. main \in {"children", "root"}
    BY <1>4 DEF RunInv, StagesInv, TypeOK, Mains, WorkerStep, Open, ReadPlain, ReadBadAttr,
                ReadEnd, BeginAppend, EndAppend, StoreErrType, StoreErrData, CancelSiblings
  <2>3. /\ DOMAIN wpc = Workers /\ DOMAIN wpc' = Workers
        /\ DOMAIN ret = Workers /\ DOMAIN ret' = Workers
        /\ 0 \in Workers /\ w \in Workers
        /\ \A v \in Children : v \in Workers /\ v # 0
    BY <2>0, <2>1, <2>2 DEF TypeOK, Workers
  <2>4. \A v \in Workers : v # w => Token(v)' = Token(v)
    BY <1>4, <2>0, <2>3, WorkerStepFrame DEF TypeOK, Token, Tokens, FileOf, discVars, cursors
  <2>5. wpc[w] \notin {"idle", "done"} => (w = 0 <=> main = "root")
    BY <2>2, <2>3, <1>4 DEF RunInv, StagesInv, RootAfterChildren, Workers
  <2>6. CASE GoesOn(w)
    <3>1. StagesInv'
      BY <2>0, <2>1, <2>2, <2>3, <2>5, <2>6 DEF GoesOn, RunInv, StagesInv, RootAfterChildren
    <3>2. ReturnsInv'
      BY <2>3, <2>4, <2>6 DEF GoesOn, RunInv, ReturnsInv
    <3>3. ErrsInv'
      BY <2>0, <2>1, <2>3, <2>6 DEF GoesOn, RunInv, ErrsInv, ReturnsInv
    <3>4. CauseInv' /\ NilInv'
      BY <2>0, <2>1, <2>2, <2>3, <2>6 DEF GoesOn, RunInv, CauseInv, Caused, NilInv
    <3>. QED
      BY <3>1, <3>2, <3>3, <3>4 DEF RunInv
  <2>7. CASE Returns(w)
    <3>1. StagesInv'
      BY <2>0, <2>1, <2>2, <2>3, <2>5, <2>7 DEF Returns, Return, RunInv, StagesInv, RootAfterChildren
    <3>2. ReturnsInv'
      BY <2>0, <2>3, <2>4, <2>7 DEF Returns, Return, RunInv, ReturnsInv, Token, Tokens, FileOf, discVars, cursors
    <3>3. ErrsInv'
      BY <2>0, <2>1, <2>2, <2>3, <2>5, <2>7 DEF Returns, Return, RunInv, ErrsInv, ReturnsInv
    <3>4. CauseInv' /\ NilInv'
      BY <2>0, <2>1, <2>2, <2>3, <2>5, <2>7 DEF Returns, Return, RunInv, CauseInv, Caused, NilInv, ReturnsInv, Canceled
    <3>. QED
      BY <3>1, <3>2, <3>3, <3>4 DEF RunInv
  <2>8. CASE StoreErrType(w) \/ StoreErrData(w)
    <3>1. /\ wpc[w] \in {"store", "storedata"}
          /\ \E pc \in {"storedata", "cancel"} : wpc' = [wpc EXCEPT ![w] = pc]
          /\ UNCHANGED <<ret, childCtx>>
          /\ errsType' \in {errsType, ret[w]} /\ errsData' \in {errsData, ret[w]}
          /\ wpc[w] = "store" => errsType' = ret[w]
          /\ wpc[w] = "storedata" => errsType' = errsType
      BY <2>8 DEF StoreErrType, StoreErrData
    <3>2. w \in Children /\ ret[w] # Nil
      BY <2>3, <3>1 DEF RunInv, ReturnsInv, Workers
    <3>3. StagesInv'
      BY <2>0, <2>1, <2>2, <2>3, <2>5, <3>1, <3>2 DEF RunInv, StagesInv, RootAfterChildren
    <3>4. ReturnsInv'
      BY <2>3, <2>4, <3>1 DEF RunInv, ReturnsInv
    <3>5. ErrsInv'
      BY <2>0, <2>1, <2>3, <3>1, <3>2 DEF RunInv, ErrsInv, ReturnsInv
    <3>6. CauseInv' /\ NilInv'
      BY <2>0, <2>1, <2>2, <2>3, <3>1, <3>2 DEF RunInv, CauseInv, Caused, NilInv
    <3>. QED
      BY <3>3, <3>4, <3>5, <3>6 DEF RunInv
  <2>9. CASE CancelSiblings(w)
    <3>1. /\ wpc[w] = "cancel" /\ wpc' = [wpc EXCEPT ![w] = "done"] /\ childCtx' = TRUE
          /\ UNCHANGED <<ret, errsType, errsData>>
      BY <2>9 DEF CancelSiblings, sharedVars
    <3>2. w \in Children /\ ret[w] # Nil
      BY <2>3, <3>1 DEF RunInv, ReturnsInv, Workers
    <3>3. StagesInv'
      BY <2>0, <2>1, <2>2, <2>3, <2>5, <3>1, <3>2 DEF RunInv, StagesInv, RootAfterChildren
    <3>4. ReturnsInv'
      BY <2>3, <2>4, <3>1, <3>2 DEF RunInv, ReturnsInv
    <3>5. ErrsInv'
      BY <2>0, <2>1, <2>3, <3>1, <3>2 DEF RunInv, ErrsInv
    <3>6. CauseInv' /\ NilInv'
      BY <2>0, <2>1, <2>2, <2>3, <3>1, <3>2 DEF RunInv, CauseInv, Caused, NilInv
    <3>. QED
      BY <3>3, <3>4, <3>5, <3>6 DEF RunInv
  <2>. QED
    BY <1>4, <2>6, <2>7, <2>8, <2>9, WorkerStepShape
<1>5. CASE Join
  <2>1. /\ UNCHANGED <<discVars, ctx, childCtx, pos, ret, errsType, errsData>>
        /\ Children' = Children /\ Workers' = Workers
        /\ main = "children" /\ ChildrenDone /\ 0 \notin Children
    BY <1>5 DEF Join, Waited, sharedVars, discVars, cursors, Children, Workers, TypeOK, DiscoveryTypeOK
  <2>2. /\ DOMAIN wpc = Workers /\ DOMAIN wpc' = Workers /\ DOMAIN ret = Workers
        /\ wpc[0] = "idle" /\ phase' = phase /\ phase = "found"
        /\ \A v \in Workers : Token(v)' = Token(v)
    BY <1>5, <2>1 DEF Join, RunInv, StagesInv, TypeOK, Token, Tokens, FileOf, discVars, cursors
  <2>3. CASE errsType # Nil
    <3>1. /\ main' = "done" /\ result' = <<errsType, errsData>> /\ wpc' = wpc
      BY <1>5, <2>3 DEF Join
    <3>2. StagesInv' /\ ReturnsInv'
      BY <2>1, <2>2, <3>1 DEF ChildrenDone, RunInv, StagesInv, RootAfterChildren, ReturnsInv, Workers
    <3>3. ErrsInv' /\ CauseInv' /\ NilInv'
      BY <2>1, <2>2, <2>3, <3>1 DEF ErrsInv, RunInv, CauseInv, Caused, NilInv
    <3>. QED
      BY <3>2, <3>3 DEF RunInv
  <2>4. CASE errsType = Nil
    <3>1. /\ main' = "root" /\ result' = result /\ wpc' = [wpc EXCEPT ![0] = "start"]
      BY <1>5, <2>4 DEF Join
    <3>2. \A v \in Children : wpc[v] = "done" /\ ret[v] = Nil
      BY <2>1, <2>4 DEF ChildrenDone, RunInv, ErrsInv
    <3>3. /\ 0 \in Workers /\ wpc'[0] = "start"
          /\ \A v \in Workers : v # 0 => wpc'[v] = wpc[v]
      BY <2>2, <3>1 DEF Workers
    <3>4. StagesInv'
      BY <2>1, <2>2, <3>1, <3>2, <3>3 DEF StagesInv, RootAfterChildren, Workers
    <3>5. ReturnsInv'
      BY <2>1, <2>2, <3>3 DEF RunInv, ReturnsInv
    <3>6. ErrsInv' /\ CauseInv' /\ NilInv'
      BY <2>1, <2>2, <3>1 DEF ErrsInv, RunInv, CauseInv, Caused, NilInv
    <3>. QED
      BY <3>4, <3>5, <3>6 DEF RunInv
  <2>. QED
    BY <2>3, <2>4
<1>6. CASE RootDone
  <2>1. /\ UNCHANGED <<discVars, ctx, childCtx, wpc, pos, ret, errsType, errsData>>
        /\ Children' = Children /\ Workers' = Workers
        /\ main = "root" /\ main' = "done" /\ wpc[0] = "done"
        /\ result' = <<ret[0], ret[0]>>
    BY <1>6 DEF RootDone, workerVars, sharedVars, discVars, cursors, Children, Workers
  <2>2. /\ DOMAIN wpc = Workers /\ DOMAIN ret = Workers /\ 0 \in Workers
        /\ phase' = phase /\ phase = "found"
        /\ \A v \in Workers : Token(v)' = Token(v)
        /\ \A v \in Children : wpc[v] = "done" /\ ret[v] = Nil
    BY <2>1 DEF RunInv, StagesInv, RootAfterChildren, TypeOK, Token, Tokens, FileOf, discVars,
                cursors, Workers
  <2>3. StagesInv' /\ ReturnsInv'
    BY <2>1, <2>2 DEF RunInv, StagesInv, RootAfterChildren, ReturnsInv, Workers
  <2>4. ErrsInv' /\ CauseInv' /\ NilInv'
    BY <2>1, <2>2 DEF ErrsInv, RunInv, CauseInv, Caused, NilInv, Workers
  <2>. QED
    BY <2>3, <2>4 DEF RunInv
<1>7. CASE CallerCancels
  BY <1>7 DEF CallerCancels, RunInv, StagesInv, ReturnsInv, ErrsInv, CauseInv, NilInv, Caused,
              RootAfterChildren, discVars, cursors, modelVars, workerVars, sharedVars, Workers,
              Children, Token, Tokens, FileOf
<1>8. CASE CallAgain
  BY <1>8 DEF CallAgain, RunInv, StagesInv, ReturnsInv, ErrsInv, CauseInv, NilInv, Caused,
              RootAfterChildren, NoResult
<1>9. CASE UNCHANGED vars
  BY <1>9 DEF vars, runVars, workerVars, sharedVars, RunInv, StagesInv, ReturnsInv, ErrsInv,
              CauseInv, NilInv, Caused, RootAfterChildren, discVars, cursors, modelVars, Workers,
              Children, Token, Tokens, FileOf
<1>. QED
  BY <1>1, <1>2, <1>3, <1>4, <1>5, <1>6, <1>7, <1>8, <1>9 DEF Next, DecodeStep

LEMMA RunInvariant == Spec => [](TypeOK /\ RunInv)
<1>1. Init => RunInv
  BY DEF Init, NoResult, Nil, RunInv, StagesInv, ReturnsInv, ErrsInv, CauseInv, NilInv,
         RootAfterChildren
<1>. QED
  BY <1>1, RunInductive, DecoderTypeCorrect, PTL DEF Spec

(***************************************************************************)
(* However many children fail, and however the stores of their errors      *)
(* interleave, errs is nil after wg.Wait exactly when none failed          *)
(* (processNonRootModels).                                                 *)
(***************************************************************************)
THEOREM ErrsAlwaysTellFailure == Spec => []ErrsTellFailure
<1>1. RunInv => ErrsTellFailure
  BY DEF RunInv, ErrsInv, ErrsTellFailure, ChildrenDone
<1>. QED
  BY <1>1, RunInvariant, PTL

(* The root model is never looked at before all the children are decoded.  *)
THEOREM RootAlwaysAfterChildren == Spec => []RootAfterChildren
<1>1. RunInv => RootAfterChildren
  BY DEF RunInv, StagesInv
<1>. QED
  BY <1>1, RunInvariant, PTL

(* A nil error means that every model part was read to its end, by a       *)
(* worker that returned nil (DecodeContext).                               *)
THEOREM NilAlwaysMeansDecoded == Spec => []NilMeansDecoded
<1>1. TypeOK /\ RunInv => NilMeansDecoded
  <2> SUFFICES ASSUME TypeOK, RunInv, main = "done", result[1] = Nil
               PROVE  /\ phase = "found" /\ DOMAIN wpc = Workers
                      /\ \A w \in Workers :
                           wpc[w] = "done" /\ ret[w] = Nil /\ Token(w) = "eof"
    BY DEF NilMeansDecoded
  <2>1. /\ DOMAIN wpc = Workers /\ Workers # {}
        /\ \A w \in Workers : wpc[w] = "done" /\ ret[w] = Nil
    BY DEF RunInv, NilInv, Workers
  <2>. QED
    BY <2>1 DEF RunInv, StagesInv, ReturnsInv
<1>. QED
  BY <1>1, RunInvariant, PTL

(* "context canceled" is only ever returned when the caller cancelled or a *)
(* child failed with an error of its own (readChildModel masks that error, *)
(* but never invents one).                                                 *)
THEOREM CancelAlwaysHasCause == Spec => []CancelHasCause
<1>1. RunInv => CancelHasCause
  BY DEF RunInv, CauseInv, Caused, CancelHasCause
<1>. QED
  BY <1>1, RunInvariant, PTL

-----------------------------------------------------------------------------
(* A goroutine that has returned leaves nothing running, so that after the *)
(* call only DecodeAgain, the next call, touches the model: the callers of *)
(* DecodeContext need no synchronisation of their own.                     *)
THEOREM ModelAlwaysStableAfterReturn == Spec => ModelStableAfterReturn
<1>1. ASSUME TypeOK, RunInv, [Next]_vars, main = "done", calls' = calls
      PROVE  UNCHANGED <<modelVars, objects, anyElems>>
  <2>1. ~ \E w \in DOMAIN wpc : WorkerStep(w)
    BY <1>1 DEF RunInv, StagesInv, WorkerStep, Open, ReadPlain, ReadBadAttr, ReadEnd,
                BeginAppend, EndAppend, StoreErrType, StoreErrData, CancelSiblings
  <2>2. ~CallAgain
    BY <1>1 DEF CallAgain, DecodeAgain, TypeOK, DiscoveryTypeOK
  <2>3. CallerCancels \/ UNCHANGED vars
    BY <1>1, <2>1, <2>2 DEF Next, DecodeStep, Discover, DiscoveryFailed, StartChildren,
                            Join, Waited, RootDone
  <2> QED
    BY <2>3 DEF CallerCancels, vars, runVars, sharedVars, discVars, modelVars
<1>. QED
  BY <1>1, RunInvariant, PTL DEF Spec, ModelStableAfterReturn

-----------------------------------------------------------------------------
(***************************************************************************)
(* The tokens that a goroutine reads in a cancelled context.  It has       *)
(* counted none before the context was cancelled, and at most those since  *)
(* the last poll while it reads on; (pos - 2) % CheckEvery is their        *)
(* number.                                                                 *)
(***************************************************************************)
LEMMA NextRemainder ==
  ASSUME NEW n \in Nat \ {0}, NEW a \in Int
  PROVE  /\ a % n \in 0..(n - 1)
         /\ (a + 1) % n # 0 => (a + 1) % n = (a % n) + 1
<1>1. /\ a \div n \in Int /\ a % n \in Int /\ a % n >= 0 /\ a % n < n
      /\ a = n * (a \div n) + (a % n)
  OBVIOUS
<1>2. /\ (a + 1) \div n \in Int /\ (a + 1) % n \in Int
      /\ (a + 1) % n >= 0 /\ (a + 1) % n < n
      /\ a + 1 = n * ((a + 1) \div n) + ((a + 1) % n)
  OBVIOUS
<1>3. PICK q, r, u, v : /\ q = a \div n /\ r = (a + 1) \div n
                        /\ u = a % n /\ v = (a + 1) % n
  OBVIOUS
<1>4. ASSUME v # 0  PROVE v = u + 1
  <2>1. n * q = n * r + (v - 1 - u)
    BY <1>1, <1>2, <1>3
  <2>2. v - 1 - u < n /\ v - 1 - u > -n /\ v - 1 - u \in Int
    BY <1>1, <1>2, <1>3, <1>4
  <2>3. v - 1 - u = 0
    <3>1. n * (q - r) = v - 1 - u
      BY <2>1, <1>1, <1>2, <1>3
    <3> QED
      BY <2>2, <3>1, <1>1, <1>2, <1>3
  <2> QED
    BY <2>3, <1>1, <1>2, <1>3
<1> QED
  BY <1>1, <1>3, <1>4

SincePoll(w) == (pos[w] - 2) % CheckEvery

LateInv ==
  \A w \in DOMAIN wpc :
    /\ late[w] > 0 => Canceled(w)
    /\ wpc[w] \in {"idle", "start"} => late[w] = 0
    /\ wpc[w] = "token" => late[w] <= SincePoll(w)
    /\ wpc[w] = "append" => late[w] <= SincePoll(w) + 1
    /\ late[w] <= CheckEvery

(* Before the end of an iteration one token more is counted; after it the  *)
(* goroutine has stopped, or it was not cancelled, or it did not poll.     *)
LEMMA EndIterationLate ==
  ASSUME TypeOK, NEW w \in DOMAIN wpc, NEW l \in Nat,
         l <= SincePoll(w) + 1, l > 0 => Canceled(w),
         EndIteration(w), wpc'[w] = "token"
  PROVE  l <= SincePoll(w)'
<1>1. /\ pos[w] \in Nat \ {0} /\ pos'[w] = pos[w] + 1
      /\ CheckEvery \in Nat \ {0}
  BY DecoderAssumption DEF TypeOK, EndIteration
<1>2. PICK a \in Int : a = pos[w] - 2
  BY <1>1
<1>3. pos[w] - 1 = a + 1 /\ pos'[w] - 2 = a + 1
  BY <1>1, <1>2
<1>4. /\ a % CheckEvery \in 0..(CheckEvery - 1)
      /\ (a + 1) % CheckEvery \in 0..(CheckEvery - 1)
      /\ (a + 1) % CheckEvery # 0 => (a + 1) % CheckEvery = (a % CheckEvery) + 1
  <2>1. PICK b \in Int : b = a + 1
    OBVIOUS
  <2>2. b % CheckEvery \in 0..(CheckEvery - 1)
    BY <1>1, NextRemainder
  <2>3. /\ a % CheckEvery \in 0..(CheckEvery - 1)
        /\ (a + 1) % CheckEvery # 0 => (a + 1) % CheckEvery = (a % CheckEvery) + 1
    BY <1>1, NextRemainder
  <2> QED
    BY <2>1, <2>2, <2>3
<1>5. /\ SincePoll(w) = a % CheckEvery /\ SincePoll(w)' = (a + 1) % CheckEvery
      /\ Polls(w) <=> (a + 1) % CheckEvery = 0
  BY <1>2, <1>3 DEF SincePoll, Polls
<1>6. CASE Polls(w) /\ Canceled(w)
  <2>1. wpc'[w] \in {"done", "store"}
    BY <1>6 DEF EndIteration, Finish, Return, TypeOK
  <2> QED
    BY <2>1
<1>7. CASE ~Polls(w)
  BY <1>4, <1>5, <1>7
<1>8. CASE ~Canceled(w)
  BY <1>4, <1>5, <1>8
<1> QED
  BY <1>6, <1>7, <1>8

LEMMA WorkerStepLate ==
  ASSUME TypeOK, TypeOK', LateInv, NEW w \in DOMAIN wpc, WorkerStep(w)
  PROVE  LateInv'
<1>1. /\ UNCHANGED <<ctx, main, result>> /\ (childCtx => childCtx')
      /\ DOMAIN wpc' = DOMAIN wpc /\ DOMAIN late' = DOMAIN wpc
      /\ \A v \in DOMAIN wpc : v # w =>
           wpc'[v] = wpc[v] /\ pos'[v] = pos[v] /\ late'[v] = late[v]
  <2>1. UNCHANGED <<ctx, main, result>>
    BY WorkerStepFrame
  <2>2. childCtx => childCtx'
    BY DEF WorkerStep, Open, ReadPlain, ReadBadAttr, ReadEnd, BeginAppend,
           EndAppend, StoreErrType, StoreErrData, CancelSiblings
  <2>3. /\ DOMAIN wpc' = DOMAIN wpc
        /\ \A v \in DOMAIN wpc : v # w => wpc'[v] = wpc[v]
    BY DEF WorkerStep, Open, ReadPlain, ReadBadAttr, ReadEnd, BeginAppend, TypeOK,
           EndAppend, StoreErrType, StoreErrData, CancelSiblings, EndIteration,
           Finish, Return
  <2>4. \A v \in DOMAIN wpc : v # w => pos'[v] = pos[v]
    BY WorkerStepFrame DEF TypeOK
  <2>5. \A v \in DOMAIN wpc : v # w => late'[v] = late[v]
    BY DEF WorkerStep, Open, ReadPlain, ReadBadAttr, ReadEnd, BeginAppend, TypeOK,
           EndAppend, StoreErrType, StoreErrData, CancelSiblings, CountLate
  <2> QED
    BY <2>1, <2>2, <2>3, <2>4, <2>5 DEF TypeOK
<1>2. /\ CheckEvery \in Nat \ {0} /\ pos[w] \in Nat \ {0}
      /\ late[w] \in Nat /\ late'[w] \in Nat
  BY <1>1, DecoderAssumption DEF TypeOK
<1>3. SincePoll(w) \in 0..(CheckEvery - 1)
  <2>1. PICK a \in Int : a = pos[w] - 2
    BY <1>2
  <2>2. a % CheckEvery \in 0..(CheckEvery - 1)
    BY <1>2, NextRemainder
  <2> QED
    BY <2>1, <2>2 DEF SincePoll
<1>4. SUFFICES /\ late'[w] > 0 => Canceled(w)'
               /\ wpc'[w] \in {"idle", "start"} => late'[w] = 0
               /\ wpc'[w] = "token" => late'[w] <= SincePoll(w)'
               /\ wpc'[w] = "append" => late'[w] <= SincePoll(w)' + 1
               /\ late'[w] <= CheckEvery
  <2>1. \A v \in DOMAIN wpc : Canceled(v) => Canceled(v)'
    BY <1>1 DEF Canceled
  <2>2. \A v \in DOMAIN wpc : v # w => SincePoll(v)' = SincePoll(v)
    BY <1>1 DEF SincePoll
  <2> QED
    BY <1>1, <1>4, <2>1, <2>2 DEF LateInv
<1>5. Canceled(w) => Canceled(w)'
  BY <1>1 DEF Canceled
<1>6. /\ late[w] > 0 => Canceled(w)
      /\ wpc[w] \in {"idle", "start"} => late[w] = 0
      /\ wpc[w] = "token" => late[w] <= SincePoll(w)
      /\ wpc[w] = "append" => late[w] <= SincePoll(w) + 1
      /\ late[w] <= CheckEvery
  BY DEF LateInv
(* The count of a token that is read.                                        *)
<1>7. ASSUME CountLate(w), wpc[w] = "token"
      PROVE  late'[w] <= SincePoll(w) + 1 /\ (late'[w] > 0 => Canceled(w))
  BY <1>2, <1>3, <1>6, <1>7 DEF CountLate, TypeOK
<1>8. ASSUME EndIteration(w), late'[w] <= SincePoll(w) + 1, late'[w] > 0 => Canceled(w)
      PROVE  /\ wpc'[w] \in {"token", "done", "store"}
             /\ wpc'[w] = "token" => late'[w] <= SincePoll(w)'
             /\ late'[w] <= CheckEvery
  <2>1. wpc'[w] \in {"token", "done", "store"}
    BY <1>8 DEF EndIteration, Finish, Return, TypeOK
  <2>2. wpc'[w] = "token" => late'[w] <= SincePoll(w)'
    BY <1>2, <1>8, EndIterationLate
  <2> QED
    BY <1>2, <1>3, <1>8, <2>1, <2>2
<1>9. CASE Open(w)
  <2>1. late' = late /\ wpc[w] = "start" /\ wpc'[w] \in {"token", "done", "store"}
    BY <1>9 DEF Open, Return, TypeOK
  <2>2. SincePoll(w)' = SincePoll(w)
    BY <1>9 DEF Open, SincePoll
  <2> QED
    BY <1>2, <1>3, <1>6, <2>1, <2>2
<1>10. CASE ReadPlain(w)
  BY <1>5, <1>7, <1>8, <1>10 DEF ReadPlain
<1>11. CASE ReadBadAttr(w)
  <2>1. late'[w] <= SincePoll(w) + 1 /\ (late'[w] > 0 => Canceled(w))
    BY <1>7, <1>11 DEF ReadBadAttr
  <2>2. CASE strict
    <3>1. wpc'[w] \in {"done", "store"}
      BY <1>11, <2>2 DEF ReadBadAttr, Finish, Return, TypeOK
    <3> QED
      BY <1>2, <1>3, <1>5, <2>1, <3>1
  <2>3. CASE ~strict
    BY <1>5, <1>8, <1>11, <2>1, <2>3 DEF ReadBadAttr
  <2> QED
    BY <2>2, <2>3
<1>12. CASE ReadEnd(w)
  <2>1. late' = late /\ wpc'[w] \in {"done", "store"}
    BY <1>12 DEF ReadEnd, Finish, Return, TypeOK
  <2> QED
    BY <1>5, <1>6, <2>1
<1>13. CASE BeginAppend(w)
  <2>1. wpc[w] = "token" /\ wpc'[w] = "append" /\ pos' = pos /\ CountLate(w)
    BY <1>13 DEF BeginAppend, TypeOK
  <2>2. SincePoll(w)' = SincePoll(w)
    BY <2>1 DEF SincePoll
  <2> QED
    BY <1>2, <1>3, <1>5, <1>7, <2>1, <2>2
<1>14. CASE EndAppend(w)
  <2>1. late' = late /\ wpc[w] = "append" /\ EndIteration(w)
    BY <1>14 DEF EndAppend
  <2> QED
    BY <1>5, <1>6, <1>8, <2>1
<1>15. CASE StoreErrType(w) \/ StoreErrData(w) \/ CancelSiblings(w)
  <2>1. late' = late /\ wpc'[w] \in {"storedata", "cancel", "done"}
    BY <1>15 DEF StoreErrType, StoreErrData, CancelSiblings, TypeOK
  <2> QED
    BY <1>5, <1>6, <2>1
<1> QED
  BY <1>9, <1>10, <1>11, <1>12, <1>13, <1>14, <1>15 DEF WorkerStep

LEMMA LateInductive ==
  ASSUME TypeOK, TypeOK', RunInv, LateInv, [Next]_vars
  PROVE  LateInv'
<1>1. CASE \E w \in DOMAIN wpc : WorkerStep(w)
  BY <1>1, WorkerStepLate
<1>2. CASE StartChildren
  <2>1. /\ DOMAIN wpc' = Workers /\ DOMAIN late' = Workers
        /\ \A w \in Workers : late'[w] = 0 /\ wpc'[w] \in {"idle", "start"}
    BY <1>2 DEF StartChildren
  <2> QED
    BY <2>1, DecoderAssumption DEF LateInv
<1>3. CASE Join
  <2>1. UNCHANGED <<late, pos, ctx, childCtx>>
    BY <1>3 DEF Join
  <2>2. \A w \in DOMAIN wpc : Canceled(w)' = Canceled(w) /\ SincePoll(w)' = SincePoll(w)
    BY <2>1 DEF Canceled, SincePoll
  <2>3. wpc' = wpc \/ wpc' = [wpc EXCEPT ![0] = "start"]
    BY <1>3 DEF Join
  <2>4. wpc[0] = "idle"
    BY <1>3 DEF Join, Waited, RunInv, StagesInv
  <2>5. CASE wpc' = wpc
    BY <2>1, <2>2, <2>5 DEF LateInv
  <2>6. CASE wpc' = [wpc EXCEPT ![0] = "start"]
    BY <2>1, <2>2, <2>4, <2>6 DEF LateInv
  <2> QED
    BY <2>3, <2>5, <2>6
<1>4. CASE CallerCancels
  <2>1. /\ UNCHANGED <<late, pos, wpc>> /\ ctx' /\ (childCtx => childCtx')
    BY <1>4 DEF CallerCancels, workerVars
  <2>2. \A w \in DOMAIN wpc : (Canceled(w) => Canceled(w)') /\ SincePoll(w)' = SincePoll(w)
    BY <2>1 DEF Canceled, SincePoll
  <2> QED
    BY <2>1, <2>2 DEF LateInv
<1>5. CASE CallAgain
  BY <1>5 DEF CallAgain, LateInv
<1>6. CASE Discover \/ DiscoveryFailed \/ RootDone \/ UNCHANGED vars
  <2>1. UNCHANGED <<late, pos, wpc, ctx, childCtx>>
    BY <1>6 DEF Discover, DiscoveryFailed, RootDone, vars, runVars, workerVars
  <2>2. \A w \in DOMAIN wpc : Canceled(w)' = Canceled(w) /\ SincePoll(w)' = SincePoll(w)
    BY <2>1 DEF Canceled, SincePoll
  <2> QED
    BY <2>1, <2>2 DEF LateInv
<1> QED
  BY <1>1, <1>2, <1>3, <1>4, <1>5, <1>6 DEF Next, DecodeStep

(* Whatever a file holds and whenever its context is cancelled, a goroutine *)
(* reads at most checkEveryTokens tokens more (decodeModelFile).            *)
THEOREM CancelAlwaysPrompt == Spec => []PromptCancel
<1>1. Init => LateInv
  BY DEF Init, LateInv
<1>2. TypeOK /\ LateInv => PromptCancel
  BY DEF TypeOK, LateInv, PromptCancel
<1>3. TypeOK /\ TypeOK' /\ RunInv /\ LateInv /\ [Next]_vars => LateInv'
  BY LateInductive
<1>. QED
  BY <1>1, <1>2, <1>3, RunInvariant, PTL DEF Spec

-----------------------------------------------------------------------------
(* What the recursion of ElementsUpTo computes.                            *)
HeldSoFar(held, n, tokens, kind) ==
  /\ held[0] = << >>
  /\ \A k \in 1..Len(tokens) :
       held[k] = IF tokens[k] = kind THEN Append(held[k - 1], <<n, k>>) ELSE held[k - 1]

LEMMA ElementsUpToIs ==
  ASSUME NEW n, NEW tokens \in Seq(TokenKinds), NEW kind
  PROVE  /\ HeldSoFar(ElementsUpTo(n, tokens, kind), n, tokens, kind)
         /\ \A k \in 0..Len(tokens) : ElementsUpTo(n, tokens, kind)[k] \in Seq({n} \X Nat)
<1>. DEFINE S == Seq({n} \X Nat)
<1>1. PICK m \in Nat : m = Len(tokens)
  OBVIOUS
<1>2. PICK step : step = [k \in 1..m |-> [s \in S |-> IF tokens[k] = kind THEN Append(s, <<n, k>>) ELSE s]]
  OBVIOUS
<1>3. \A k \in 1..m : \A s \in S : Append(s, <<n, k>>) \in S
  OBVIOUS
<1>4. << >> \in S
  OBVIOUS
<1>. HIDE DEF S
<1>5. step \in [1..m -> [S -> S]]
  BY <1>2, <1>3
<1>6. PICK g \in [0..m -> S] : Follows(g, m, << >>, step)
  BY ONLY <1>1, <1>4, <1>5, RecursionExists
<1>. DEFINE Next0(h, k) == IF tokens[k] = kind THEN Append(h[k - 1], <<n, k>>) ELSE h[k - 1]
<1>7. g[0] = << >> /\ \A k \in 1..m : g[k] = Next0(g, k)
  <2>1. ASSUME NEW k \in 1..m PROVE g[k] = Next0(g, k)
    <3>1. k - 1 \in 0..m
      OBVIOUS
    <3>2. PICK s \in S : s = g[k - 1]
      BY <1>6, <3>1
    <3>3. g[k] = step[k][s]
      BY <1>6, <3>2 DEF Follows
    <3>. QED
      BY <1>2, <3>2, <3>3
  <2>. QED
    BY <1>6, <2>1 DEF Follows
<1>. HIDE DEF Next0
<1>8. PICK H : H = [k \in 0..m |-> IF k = 0 THEN << >> ELSE Next0(g, k)]
  OBVIOUS
<1>9. g = H
  <2>1. \A k \in 0..m : k = 0 \/ k \in 1..m
    OBVIOUS
  <2>2. H[0] = << >> /\ \A k \in 1..m : H[k] = Next0(g, k)
    BY <1>8
  <2>3. \A k \in 0..m : g[k] = H[k]
    BY <1>7, <2>1, <2>2
  <2>. QED
    BY <1>6, <1>8, <2>3
<1>10. PICK w : w = CHOOSE h : h = [k \in 0..m |-> IF k = 0 THEN << >> ELSE Next0(h, k)]
  OBVIOUS
<1>11. g = [k \in 0..m |-> IF k = 0 THEN << >> ELSE Next0(g, k)]
  BY <1>8, <1>9
<1>12. w = [k \in 0..m |-> IF k = 0 THEN << >> ELSE Next0(w, k)]
  BY <1>10, <1>11, Zenon
<1>13. w[0] = << >> /\ \A k \in 1..m : w[k] = Next0(w, k)
  <2>1. 0 \in 0..m /\ \A k \in 1..m : k \in 0..m /\ k # 0
    OBVIOUS
  <2>. QED
    BY <1>12, <2>1
<1>14. ElementsUpTo(n, tokens, kind) = w
  BY <1>1, <1>10 DEF ElementsUpTo, Next0
<1>15. HeldSoFar(w, n, tokens, kind)
  BY <1>1, <1>13 DEF HeldSoFar, Next0
<1>16. PICK typed : typed = [k \in 0..m |-> w[k] \in S]
  OBVIOUS
<1>17. typed[0]
  <2>1. 0 \in 0..m
    OBVIOUS
  <2>. QED
    BY <1>4, <1>13, <1>16, <2>1
<1>18. ASSUME NEW k \in 1..m, typed[k - 1] PROVE typed[k]
  <2>1. k - 1 \in 0..m /\ k \in 0..m
    OBVIOUS
  <2>2. w[k - 1] \in S
    BY <1>16, <1>18, <2>1
  <2>3. w[k] \in S
    BY <1>3, <1>13, <2>2 DEF Next0
  <2>. QED
    BY <1>16, <2>1, <2>3
<1>19. \A k \in 0..m : typed[k]
  BY ONLY <1>1, <1>17, <1>18, AllFollow
<1>20. \A k \in 0..m : w[k] \in S
  BY <1>16, <1>19
<1>. QED
  BY <1>1, <1>14, <1>15, <1>20 DEF S

LEMMA RangeAppend ==
  ASSUME NEW S, NEW s \in Seq(S), NEW e
  PROVE  \A x : x \in Range(Append(s, e)) <=> x \in Range(s) \/ x = e
<1>1. PICK m \in Nat : m = Len(s) /\ DOMAIN s = 1..m
  OBVIOUS
<1>2. PICK t : t = Append(s, e)
  OBVIOUS
<1>3. DOMAIN t = 1..(m + 1) /\ t[m + 1] = e /\ \A k \in 1..m : t[k] = s[k]
  BY <1>1, <1>2
<1>4. \A k \in 1..(m + 1) : k = m + 1 \/ k \in 1..m
  OBVIOUS
<1>5. m + 1 \in 1..(m + 1) /\ \A k \in 1..m : k \in 1..(m + 1)
  OBVIOUS
<1>. QED
  BY <1>1, <1>2, <1>3, <1>4, <1>5 DEF Range

(* The elements are those of the tokens read, each with its place.         *)
HeldAre(s, n, tokens, kind, k) ==
  \A x : x \in Range(s) <=> \E i \in 1..k : tokens[i] = kind /\ x = <<n, i>>

LEMMA ElementsAre ==
  ASSUME NEW n, NEW tokens \in Seq(TokenKinds), NEW kind, NEW k \in 0..Len(tokens),
         NEW held, held = ElementsUpTo(n, tokens, kind)
  PROVE  HeldAre(held[k], n, tokens, kind, k)
<1>1. PICK m \in Nat : m = Len(tokens)
  OBVIOUS
<1>2. held = ElementsUpTo(n, tokens, kind)
  OBVIOUS
<1>3. HeldSoFar(held, n, tokens, kind) /\ \A j \in 0..m : held[j] \in Seq({n} \X Nat)
  BY <1>1, <1>2, ElementsUpToIs
<1>4. PICK right : right = [j \in 0..m |-> \A x : x \in Range(held[j]) <=>
                              \E i \in 1..j : tokens[i] = kind /\ x = <<n, i>>]
  OBVIOUS
<1>5. right[0]
  <2>1. 0 \in 0..m /\ 1..0 = {}
    OBVIOUS
  <2>2. \A x : x \notin Range(held[0])
    BY <1>3 DEF HeldSoFar, Range
  <2>. QED
    BY <1>4, <2>1, <2>2
<1>6. ASSUME NEW j \in 1..m, right[j - 1] PROVE right[j]
  <2>1. j - 1 \in 0..m /\ j \in 0..m
    OBVIOUS
  <2>2. PICK s \in Seq({n} \X Nat) : s = held[j - 1]
    BY <1>3, <2>1
  <2>3. \A x : x \in Range(s) <=> \E i \in 1..(j - 1) : tokens[i] = kind /\ x = <<n, i>>
    BY <1>4, <1>6, <2>1, <2>2
  <2>4. held[j] = IF tokens[j] = kind THEN Append(s, <<n, j>>) ELSE s
    BY <1>1, <1>3, <2>2 DEF HeldSoFar
  <2>5. \A i : i \in 1..j <=> i \in 1..(j - 1) \/ i = j
    OBVIOUS
  <2>6. \A x : x \in Range(held[j]) <=> \E i \in 1..j : tokens[i] = kind /\ x = <<n, i>>
    <3>1. CASE tokens[j] = kind
      <4>1. \A x : x \in Range(held[j]) <=> x \in Range(s) \/ x = <<n, j>>
        BY <2>4, <3>1, RangeAppend
      <4>. QED
        BY <2>3, <2>5, <3>1, <4>1
    <3>2. CASE tokens[j] # kind
      BY <2>3, <2>4, <2>5, <3>2
    <3>. QED
      BY <3>1, <3>2
  <2>. QED
    BY <1>4, <2>1, <2>6
<1>7. \A j \in 0..m : right[j]
  BY ONLY <1>1, <1>5, <1>6, AllFollow
<1>. QED
  BY <1>1, <1>4, <1>7 DEF HeldAre

-----------------------------------------------------------------------------
(* How discovery ends: it fails only for a package without a root model,    *)
(* and what it finds are the parts of the model.                            *)
FoundUpTo(k) == \A i \in DOMAIN pkg.rels[PackageRoot] :
                  i < k /\ TopRel(i).type = ModelType => Found(PackageRoot, TopRel(i))

OutcomeInv ==
  /\ phase \in {"package", "core", "child", "found"} => pkg.opens /\ FoundUpTo(ri)
  /\ phase = "closed" => rootFile = NoPart
  /\ rootFile # NoPart => \E i : IsRootRel(i) /\ rootFile = TopPart(i)
  /\ phase = "package" /\ rootFile = NoPart =>
       \A i \in DOMAIN pkg.rels[PackageRoot] : i < ri => TopRel(i).type # ModelType
  /\ phase = "failed" => ~HasRoot(pkg)

LEMMA SamePackage ==
  ASSUME [DiscoveryNext]_discVars
  PROVE  /\ pkg' = pkg
         /\ \A i : TopRel(i)' = TopRel(i) /\ TopPart(i)' = TopPart(i)
         /\ \A i : IsRootRel(i)' <=> IsRootRel(i)
         /\ \A k : FoundUpTo(k)' <=> FoundUpTo(k)
<1>1. pkg' = pkg
  BY DEF DiscoveryNext, ProcessOPC, OpenPackage, VisitRootModel,
     VisitPackageAttachment, EndDiscovery, AddChildModel, AddModelAttachment,
     SkipCoreRel, EndCore, VisitChildRel, NextChild, EndChildren, DecodeAgain, discVars
<1>2. \A i : TopRel(i)' = TopRel(i)
  BY <1>1 DEF TopRel
<1>3. \A i : TopPart(i)' = TopPart(i)
  BY <1>2 DEF TopPart
<1>4. \A i : IsRootRel(i)' <=> IsRootRel(i)
  BY <1>1, <1>2 DEF IsRootRel, Found
<1>5. \A k : FoundUpTo(k)' <=> FoundUpTo(k)
  BY <1>1, <1>2 DEF FoundUpTo, Found
<1>. QED
  BY <1>1, <1>2, <1>3, <1>4, <1>5

LEMMA TopRels ==
  ASSUME IsPackage(pkg)
  PROVE  /\ DOMAIN pkg.rels[PackageRoot] = 1..Len(pkg.rels[PackageRoot])
         /\ Len(pkg.rels[PackageRoot]) \in Nat
         /\ \A i \in DOMAIN pkg.rels[PackageRoot] :
              TopRel(i) \in Range(pkg.rels[PackageRoot]) /\ TopPart(i) \in Names
         /\ \A r \in Range(pkg.rels[PackageRoot]) :
              \E i \in DOMAIN pkg.rels[PackageRoot] : r = TopRel(i)
<1>1. pkg.rels[PackageRoot] \in Seq(Rel)
  BY RelType DEF IsPackage, Sources
<1>2. \A i \in DOMAIN pkg.rels[PackageRoot] : TopPart(i) \in Names
  BY RelType DEF TopPart, TopRel, Sources
<1>. QED
  BY <1>1, <1>2 DEF Range, TopRel

(* The walk of one relationship of the root model or a child.              *)
LEMMA InnerWalk ==
  ASSUME AddChildModel \/ AddModelAttachment \/ SkipCoreRel \/ EndCore \/ VisitChildRel \/ NextChild
  PROVE  UNCHANGED <<ri, rootFile>> /\ phase \in {"core", "child"} /\ phase' \in {"core", "child"}
BY DEF AddChildModel, AddModelAttachment, SkipCoreRel, EndCore, VisitChildRel, NextChild

LEMMA OutcomeInductive ==
  ASSUME DiscoveryTypeOK, EntriesInv, OutcomeInv, [DiscoveryNext]_discVars
  PROVE  OutcomeInv'
<1>0. IsPackage(pkg) /\ ri \in Nat \ {0}
  BY DEF DiscoveryTypeOK
<1>1. /\ pkg' = pkg /\ \A i : TopRel(i)' = TopRel(i) /\ TopPart(i)' = TopPart(i)
      /\ \A i : IsRootRel(i)' <=> IsRootRel(i)
      /\ \A k : FoundUpTo(k)' <=> FoundUpTo(k)
  BY SamePackage
<1>2. DOMAIN pkg.rels[PackageRoot] = 1..Len(pkg.rels[PackageRoot]) /\ Len(pkg.rels[PackageRoot]) \in Nat
  BY <1>0, TopRels
<1>3. HasRoot(pkg') <=> HasRoot(pkg)
  BY <1>1
<1>4. CASE OpenPackage
  <2>1. UNCHANGED <<ri, rootFile>> /\ phase = "closed" /\ ri = 1
    BY <1>4 DEF OpenPackage, EntriesInv
  <2>2. phase' = IF pkg.opens THEN "package" ELSE "failed"
    BY <1>4 DEF OpenPackage
  <2>3. ~pkg.opens => ~HasRoot(pkg)
    BY DEF HasRoot
  <2>4. FoundUpTo(ri)
    BY <1>2, <2>1 DEF FoundUpTo
  <2>5. \A i \in DOMAIN pkg.rels[PackageRoot] : ~(i < ri)
    BY <1>2, <2>1
  <2>. QED
    BY <1>1, <1>3, <2>1, <2>2, <2>3, <2>4, <2>5 DEF OutcomeInv
<1>5. CASE VisitRootModel
  <2>1. ri' = ri /\ phase = "package" /\ ri \in DOMAIN pkg.rels[PackageRoot] /\ TopRel(ri).type = ModelType
    BY <1>5 DEF VisitRootModel, PackageRel, TopRel
  <2>2. CASE Found(PackageRoot, TopRel(ri))
    <3>1. rootFile' = TopPart(ri) /\ phase' = "core"
      BY <1>5, <2>2 DEF VisitRootModel, PackageRel, TopRel, TopPart
    <3>2. IsRootRel(ri)
      BY <2>1, <2>2 DEF IsRootRel
    <3>3. pkg.opens /\ FoundUpTo(ri)
      BY <2>1 DEF OutcomeInv
    <3>. QED
      BY <1>1, <2>1, <3>1, <3>2, <3>3 DEF OutcomeInv
  <2>3. CASE ~Found(PackageRoot, TopRel(ri))
    <3>1. rootFile' = rootFile /\ phase' = "failed"
      BY <1>5, <2>3 DEF VisitRootModel, PackageRel, TopRel
    <3>2. ~HasRoot(pkg)
      <4>1. TopRel(ri) \in RootRels(pkg)
        BY <1>0, <2>1, TopRels DEF RootRels
      <4>. QED
        BY <2>3, <4>1 DEF HasRoot, Found
    <3>. QED
      BY <1>1, <1>3, <3>1, <3>2 DEF OutcomeInv
  <2>. QED
    BY <2>2, <2>3
<1>6. CASE VisitPackageAttachment
  <2>1. /\ ri' = ri + 1 /\ rootFile' = rootFile /\ phase = "package" /\ phase' = "package"
        /\ TopRel(ri).type # ModelType
    BY <1>6 DEF VisitPackageAttachment, PackageRel, TopRel
  <2>2. \A i \in DOMAIN pkg.rels[PackageRoot] : i < ri + 1 => i < ri \/ i = ri
    BY <1>0, <1>2
  <2>3. FoundUpTo(ri + 1)
    BY <2>1, <2>2 DEF OutcomeInv, FoundUpTo
  <2>. QED
    BY <1>1, <2>1, <2>2, <2>3 DEF OutcomeInv
<1>7. CASE EndDiscovery
  <2>1. /\ UNCHANGED <<ri, rootFile>> /\ phase = "package" /\ ri \notin DOMAIN pkg.rels[PackageRoot]
        /\ phase' = IF rootFile = NoPart THEN "failed" ELSE "found"
    BY <1>7 DEF EndDiscovery
  <2>2. \A i \in DOMAIN pkg.rels[PackageRoot] : i < ri
    BY <1>0, <1>2, <2>1
  <2>3. rootFile = NoPart => ~HasRoot(pkg)
    <3>1. rootFile = NoPart => RootRels(pkg) = {}
      BY <1>0, <2>1, <2>2, TopRels DEF OutcomeInv, RootRels
    <3>. QED
      BY <3>1 DEF HasRoot
  <2>. QED
    BY <1>1, <1>3, <2>1, <2>3 DEF OutcomeInv
<1>8. CASE AddChildModel \/ AddModelAttachment \/ SkipCoreRel \/ EndCore \/ VisitChildRel \/ NextChild
  <2>1. UNCHANGED <<ri, rootFile>> /\ phase \in {"core", "child"} /\ phase' \in {"core", "child"}
    BY <1>8, InnerWalk
  <2>. QED
    BY <1>1, <2>1 DEF OutcomeInv
<1>9. CASE EndChildren
  <2>1. ri' = ri + 1 /\ rootFile' = rootFile /\ phase = "child" /\ phase' = "package"
    BY <1>9 DEF EndChildren
  <2>2. IsRootRel(ri) /\ rootFile \in Names
    BY <2>1 DEF EntriesInv, AtRootRel, DiscoveryTypeOK
  <2>3. rootFile # NoPart
    BY <2>2, DiscoveryAssumption
  <2>4. \A i \in DOMAIN pkg.rels[PackageRoot] : i < ri + 1 => i < ri \/ i = ri
    BY <1>0, <1>2
  <2>5. FoundUpTo(ri + 1)
    BY <2>1, <2>2, <2>4 DEF OutcomeInv, FoundUpTo, IsRootRel
  <2>. QED
    BY <1>1, <2>1, <2>3, <2>5 DEF OutcomeInv
<1>10. CASE DecodeAgain
  <2>1. phase' = "closed" /\ rootFile' = NoPart
    BY <1>10 DEF DecodeAgain
  <2>. QED
    BY <2>1 DEF OutcomeInv
<1>11. CASE UNCHANGED discVars
  <2>1. UNCHANGED <<phase, ri, rootFile>>
    BY <1>11 DEF discVars, cursors
  <2>. QED
    BY <1>1, <1>3, <2>1 DEF OutcomeInv
<1>. QED
  BY <1>4, <1>5, <1>6, <1>7, <1>8, <1>9, <1>10, <1>11 DEF DiscoveryNext, ProcessOPC

LEMMA DiscoveryOutcome ==
  DiscoverySpec => [](DiscoveryTypeOK /\ EntriesInv /\ ExactInv /\ OutcomeInv)
<1>1. DiscoveryInit => EntriesInv
  BY DEF DiscoveryInit, EntriesInv, AtRootRel
<1>2. DiscoveryInit => ReachInv /\ ExactInv
  BY DEF DiscoveryInit, ReachInv, NoChildRels, ExactInv
<1>3. DiscoveryInit => OutcomeInv
  BY DEF DiscoveryInit, OutcomeInv
<1>. QED
  BY <1>1, <1>2, <1>3, EntriesInductive, ReachInductive, ExactInductive, OutcomeInductive,
     AttachInvariant, DiscoveryTypeCorrect, PTL DEF DiscoverySpec

LEMMA FoundParts ==
  ASSUME DiscoveryTypeOK, EntriesInv, ExactInv, OutcomeInv, OneRootModel, phase = "found"
  PROVE  /\ HasRoot(pkg) /\ rootFile \in Names
         /\ ModelParts(pkg) = {FileOf(w) : w \in Workers}
<1>1. IsPackage(pkg) /\ ri \in Nat \ {0} /\ rootFile \in Names /\ nonRootModels \in Seq(Names)
  BY DEF DiscoveryTypeOK
<1>2. /\ DOMAIN pkg.rels[PackageRoot] = 1..Len(pkg.rels[PackageRoot])
      /\ Len(pkg.rels[PackageRoot]) \in Nat
      /\ \A i \in DOMAIN pkg.rels[PackageRoot] :
           TopRel(i) \in Range(pkg.rels[PackageRoot]) /\ TopPart(i) \in Names
      /\ \A r \in Range(pkg.rels[PackageRoot]) :
           \E i \in DOMAIN pkg.rels[PackageRoot] : r = TopRel(i)
  BY <1>1, TopRels
<1>3. ri \notin DOMAIN pkg.rels[PackageRoot]
  BY DEF EntriesInv
<1>4. \A i \in DOMAIN pkg.rels[PackageRoot] : i < ri
  BY <1>1, <1>2, <1>3
<1>5. PICK top : IsRootRel(top) /\ rootFile = TopPart(top)
  BY <1>1, DiscoveryAssumption DEF OutcomeInv
<1>6. top \in DOMAIN pkg.rels[PackageRoot] /\ TopRel(top).type = ModelType /\ rootFile \in pkg.parts
  BY <1>5 DEF IsRootRel, Found, TopPart
<1>7. \A r \in RootRels(pkg) : r = TopRel(top)
  <2>1. \A i \in DOMAIN pkg.rels[PackageRoot] : TopRel(i).type = ModelType => i = top
    BY <1>6 DEF OneRootModel, HasOneRootModel, TopRel
  <2>. QED
    BY <1>2, <2>1 DEF RootRels
<1>8. TopRel(top) \in RootRels(pkg)
  BY <1>2, <1>6 DEF RootRels
<1>9. HasRoot(pkg)
  BY <1>5, <1>6, <1>7, <1>8 DEF HasRoot, OutcomeInv, TopPart
<1>10. RootPart(pkg) = rootFile
  <2>1. \A n \in pkg.parts : (\E r \in RootRels(pkg) : PartOf(PackageRoot, r) = n) <=> n = rootFile
    BY <1>5, <1>6, <1>7, <1>8 DEF TopPart
  <2>. QED
    BY <1>6, <2>1 DEF RootPart
<1>11. ASSUME NEW r \in ChildRels(pkg) PROVE PartOf(rootFile, r) \in Range(nonRootModels)
  <2>1. r \in Range(pkg.rels[rootFile]) /\ r.type = ModelType /\ PartOf(rootFile, r) \in pkg.parts
    BY <1>10 DEF ChildRels
  <2>2. pkg.rels[rootFile] \in Seq(Rel)
    BY <1>1 DEF IsPackage, Sources
  <2>3. PICK j \in DOMAIN pkg.rels[rootFile] : r = pkg.rels[rootFile][j]
    BY <2>1 DEF Range
  <2>4. j \in Nat \ {0} /\ top \in Nat \ {0}
    BY <1>2, <1>6, <2>2
  <2>5. PartOf(rootFile, r) \in Names
    BY <1>1, <2>3, RelType DEF Sources
  <2>6. Linked(top, j, PartOf(rootFile, r))
    BY <1>5, <2>1, <2>3 DEF Linked, Found
  <2>7. PartOf(rootFile, r) \in DOMAIN childs
    BY <1>4, <1>6, <2>4, <2>5, <2>6 DEF EntriesInv
  <2>. QED
    BY <2>7 DEF ExactInv
<1>12. ASSUME NEW k \in DOMAIN nonRootModels
       PROVE  \E r \in ChildRels(pkg) : nonRootModels[k] = PartOf(rootFile, r)
  <2>1. PICK i, j \in Nat \ {0} : Linked(i, j, nonRootModels[k])
    BY DEF EntriesInv
  <2>2. i = top
    BY <1>6, <2>1 DEF Linked, IsRootRel, OneRootModel, HasOneRootModel, TopRel
  <2>3. PICK r : r = pkg.rels[rootFile][j]
    OBVIOUS
  <2>4. /\ j \in DOMAIN pkg.rels[rootFile] /\ r.type = ModelType
        /\ PartOf(rootFile, r) \in pkg.parts /\ nonRootModels[k] = PartOf(rootFile, r)
    BY <1>5, <2>1, <2>2, <2>3 DEF Linked, Found
  <2>5. r \in ChildRels(pkg)
    BY <1>10, <2>3, <2>4 DEF ChildRels, Range
  <2>. QED
    BY <2>4, <2>5
<1>13. ASSUME NEW n PROVE n \in ModelParts(pkg) <=> \E w \in Workers : n = FileOf(w)
  <2>1. n \in ModelParts(pkg) <=> n = rootFile \/ \E r \in ChildRels(pkg) : n = PartOf(rootFile, r)
    BY <1>10 DEF ModelParts
  <2>2. 0 \notin DOMAIN nonRootModels
    BY <1>1
  <2>3. (\E w \in Workers : n = FileOf(w)) <=> n = rootFile \/ n \in Range(nonRootModels)
    BY <2>2 DEF Workers, Children, FileOf, Range
  <2>4. n \in Range(nonRootModels) <=> \E r \in ChildRels(pkg) : n = PartOf(rootFile, r)
    BY <1>11, <1>12 DEF Range
  <2>. QED
    BY <2>1, <2>3, <2>4
<1>. QED
  BY <1>1, <1>9, <1>13

-----------------------------------------------------------------------------
(***************************************************************************)
(* What a goroutine has made of the tokens it has read: an error of its    *)
(* own comes from its file, and without one it has passed nothing that is  *)
(* not to be passed.                                                       *)
(***************************************************************************)
Faulty(w) == FileOf(w) \notin pkg.readable \/ Range(Tokens(w)) \cap {"syntax", "badattr"} # {}

PassedClean(w) ==
  \A i \in 1..(pos[w] - 1) : /\ Tokens(w)[i] # "syntax"
                             /\ Tokens(w)[i] = "badattr" => errsSeen[w]

ReadOK(w) ==
  /\ pos[w] <= Len(Tokens(w)) + 1
  /\ ret[w] \notin {Nil, "canceled"} => Faulty(w)
  /\ errsSeen[w] => "badattr" \in Range(Tokens(w))
  /\ wpc[w] \in {"token", "append"} => FileOf(w) \in pkg.readable /\ PassedClean(w)
  /\ wpc[w] = "start" => pos[w] = 1
  /\ wpc[w] = "idle" => pos[w] = 1
  /\ wpc[w] = "append" => Token(w) \in {"object", "any"}
  /\ wpc[w] = "done" /\ ret[w] = Nil =>
       FileOf(w) \in pkg.readable /\ PassedClean(w) /\ ~errsSeen[w]

ReadInv == pkg \in Packages /\ \A w \in DOMAIN wpc : ReadOK(w)

LEMMA TokenFacts ==
  ASSUME TypeOK, RunInv, pkg \in Packages, NEW w \in DOMAIN wpc
  PROVE  /\ w \in Workers /\ DOMAIN wpc = Workers /\ FileOf(w) \in Names
         /\ Tokens(w) \in Seq(TokenKinds)
         /\ Len(Tokens(w)) \in Nat /\ DOMAIN Tokens(w) = 1..Len(Tokens(w))
         /\ pos[w] \in Nat \ {0}
         /\ Token(w) # "eof" => pos[w] \in 1..Len(Tokens(w)) /\ Token(w) = Tokens(w)[pos[w]]
         /\ Token(w) = "eof" => pos[w] \notin 1..Len(Tokens(w))
<1>1. DOMAIN wpc = Workers /\ phase = "found"
  BY DEF RunInv, StagesInv
<1>2. rootFile \in Names /\ nonRootModels \in Seq(Names)
  BY <1>1 DEF TypeOK, DiscoveryTypeOK
<1>3. FileOf(w) \in Names
  BY <1>1, <1>2 DEF FileOf, Workers, Children
<1>4. pkg.tokens \in [Names -> Seq(TokenKinds)]
  BY DecoderAssumption
<1>5. Tokens(w) \in Seq(TokenKinds)
  BY <1>3, <1>4 DEF Tokens
<1>6. pos[w] \in Nat \ {0}
  BY DEF TypeOK
<1>7. DOMAIN Tokens(w) = 1..Len(Tokens(w)) /\ Len(Tokens(w)) \in Nat
  BY <1>5
<1>8. \A i \in 1..Len(Tokens(w)) : Tokens(w)[i] \in TokenKinds /\ Tokens(w)[i] # "eof"
  BY <1>5 DEF TokenKinds
<1>. QED
  BY <1>1, <1>3, <1>5, <1>6, <1>7, <1>8 DEF Token

(* The outcome of a step of a worker for the worker itself.                *)
LEMMA FinishOutcome ==
  ASSUME TypeOK, NEW w \in DOMAIN wpc, NEW err \in Errors \cup {Nil}, Finish(w, err)
  PROVE  /\ ret'[w] \in {err, "canceled"} /\ wpc'[w] \in {"done", "store"}
         /\ ret'[w] = Nil => err = Nil
BY DEF TypeOK, Finish, Return, Nil

LEMMA EndIterationOutcome ==
  ASSUME TypeOK, NEW w \in DOMAIN wpc, EndIteration(w)
  PROVE  /\ pos'[w] = pos[w] + 1
         /\ \/ wpc'[w] = "token" /\ ret' = ret
            \/ wpc'[w] \in {"done", "store"} /\ ret'[w] = "canceled"
<1>1. pos'[w] = pos[w] + 1
  BY DEF EndIteration, TypeOK
<1>2. CASE Polls(w) /\ Canceled(w)
  BY <1>1, <1>2, FinishOutcome DEF EndIteration, Errors
<1>3. CASE ~(Polls(w) /\ Canceled(w))
  BY <1>1, <1>3 DEF EndIteration, TypeOK
<1>. QED
  BY <1>2, <1>3

LEMMA OthersStay ==
  ASSUME TypeOK, NEW w \in DOMAIN wpc, WorkerStep(w)
  PROVE  /\ UNCHANGED <<discVars, main, ctx, result>>
         /\ DOMAIN wpc' = DOMAIN wpc
         /\ \A v : FileOf(v)' = FileOf(v) /\ Tokens(v)' = Tokens(v)
         /\ pkg' = pkg /\ Workers' = Workers
         /\ \A v \in DOMAIN wpc : v # w =>
              /\ wpc'[v] = wpc[v] /\ pos'[v] = pos[v] /\ ret'[v] = ret[v]
              /\ errsSeen'[v] = errsSeen[v] /\ snap'[v] = snap[v]
              /\ Token(v)' = Token(v)
<1>1. UNCHANGED <<discVars, main, ctx, result>>
  BY WorkerStepFrame
<1>2. UNCHANGED <<pkg, rootFile, nonRootModels>>
  BY <1>1 DEF discVars, cursors
<1>3. Workers' = Workers /\ \A v : FileOf(v)' = FileOf(v)
  BY <1>2 DEF FileOf, Workers, Children
<1>4. \A v : Tokens(v)' = Tokens(v)
  BY <1>2, <1>3 DEF Tokens
<1>5. DOMAIN wpc' = DOMAIN wpc /\ \A v \in DOMAIN wpc : v # w => wpc'[v] = wpc[v]
  BY DEF WorkerStep, Open, ReadPlain, ReadBadAttr, ReadEnd, BeginAppend, TypeOK,
         EndAppend, StoreErrType, StoreErrData, CancelSiblings, EndIteration, Finish, Return
<1>6. \A v \in DOMAIN wpc : v # w => ret'[v] = ret[v]
  BY DEF WorkerStep, Open, ReadPlain, ReadBadAttr, ReadEnd, BeginAppend, TypeOK,
         EndAppend, StoreErrType, StoreErrData, CancelSiblings, EndIteration, Finish, Return
<1>7. \A v \in DOMAIN wpc : v # w => pos'[v] = pos[v]
  BY WorkerStepFrame DEF TypeOK
<1>8. \A v \in DOMAIN wpc : v # w => errsSeen'[v] = errsSeen[v]
  <2>1. errsSeen' = errsSeen \/ errsSeen' = [errsSeen EXCEPT ![w] = TRUE]
    BY DEF WorkerStep, Open, ReadPlain, ReadBadAttr, ReadEnd, BeginAppend,
           EndAppend, StoreErrType, StoreErrData, CancelSiblings
  <2>. QED
    BY <2>1, Zenon DEF TypeOK
<1>9. \A v \in DOMAIN wpc : v # w => snap'[v] = snap[v]
  BY DEF WorkerStep, Open, ReadPlain, ReadBadAttr, ReadEnd, BeginAppend, TypeOK,
         EndAppend, StoreErrType, StoreErrData, CancelSiblings
<1>10. \A v \in DOMAIN wpc : v # w => Token(v)' = Token(v)
  BY <1>4, <1>7 DEF Token
<1>. QED
  BY <1>1, <1>2, <1>3, <1>4, <1>5, <1>6, <1>7, <1>8, <1>9, <1>10

LEMMA WorkerStepRead ==
  ASSUME TypeOK, RunInv, ReadInv, NEW w \in DOMAIN wpc, WorkerStep(w)
  PROVE  ReadInv'
<1>1. /\ DOMAIN wpc' = DOMAIN wpc /\ pkg' = pkg
      /\ \A v : FileOf(v)' = FileOf(v) /\ Tokens(v)' = Tokens(v)
      /\ \A v \in DOMAIN wpc : v # w =>
           /\ wpc'[v] = wpc[v] /\ pos'[v] = pos[v] /\ ret'[v] = ret[v]
           /\ errsSeen'[v] = errsSeen[v] /\ Token(v)' = Token(v)
  BY OthersStay
<1>2. PICK n : n = FileOf(w) /\ n = FileOf(w)'
  BY <1>1
<1>3. PICK tokens : tokens = Tokens(w) /\ tokens = Tokens(w)'
  BY <1>1
<1>4. /\ tokens \in Seq(TokenKinds) /\ Len(tokens) \in Nat /\ DOMAIN tokens = 1..Len(tokens)
      /\ pos[w] \in Nat \ {0}
      /\ Token(w) # "eof" => pos[w] \in 1..Len(tokens) /\ Token(w) = tokens[pos[w]]
  BY <1>3, TokenFacts DEF ReadInv
<1>5. /\ pos[w] <= Len(tokens) + 1
      /\ ret[w] \notin {Nil, "canceled"} => Faulty(w)
      /\ errsSeen[w] => "badattr" \in Range(tokens)
      /\ wpc[w] \in {"token", "append"} => n \in pkg.readable /\ PassedClean(w)
      /\ wpc[w] = "start" => pos[w] = 1
      /\ wpc[w] = "append" => Token(w) \in {"object", "any"}
  BY <1>2, <1>3 DEF ReadInv, ReadOK
<1>6. /\ Faulty(w) <=> n \notin pkg.readable \/ Range(tokens) \cap {"syntax", "badattr"} # {}
      /\ Faulty(w)' <=> Faulty(w)
  BY <1>1, <1>2, <1>3 DEF Faulty
<1>7. /\ PassedClean(w) <=> \A i \in 1..(pos[w] - 1) : tokens[i] # "syntax" /\ (tokens[i] = "badattr" => errsSeen[w])
      /\ PassedClean(w)' <=> \A i \in 1..(pos'[w] - 1) : tokens[i] # "syntax" /\ (tokens[i] = "badattr" => errsSeen'[w])
  BY <1>3 DEF PassedClean
<1>8. Running = {"start", "token", "append"}
  BY DEF Running
<1>9. wpc[w] \in Running => ret[w] = Nil
  BY DEF RunInv, ReturnsInv
<1>10. SUFFICES /\ pos'[w] <= Len(tokens) + 1
                /\ ret'[w] \notin {Nil, "canceled"} => Faulty(w)
                /\ errsSeen'[w] => "badattr" \in Range(tokens)
                /\ wpc'[w] \in {"token", "append"} => n \in pkg.readable /\ PassedClean(w)'
                /\ wpc'[w] \notin {"start", "idle"}
                /\ wpc'[w] = "append" => Token(w)' \in {"object", "any"}
                /\ wpc'[w] = "done" /\ ret'[w] = Nil =>
                     n \in pkg.readable /\ PassedClean(w)' /\ ~errsSeen'[w]
  <2>1. \A v \in DOMAIN wpc : v # w => Faulty(v)' = Faulty(v) /\ PassedClean(v)' = PassedClean(v)
    BY <1>1 DEF Faulty, PassedClean
  <2>2. \A v \in DOMAIN wpc : v # w => ReadOK(v)'
    BY <1>1, <2>1 DEF ReadInv, ReadOK
  <2>3. ReadOK(w)'
    BY <1>1, <1>2, <1>3, <1>6, <1>10 DEF ReadOK
  <2>. QED
    BY <1>1, <2>2, <2>3 DEF ReadInv
(* Past a token that is neither broken nor has a broken attribute.         *)
<1>11. ASSUME Token(w) \in {"plain", "object", "any"}, EndIteration(w), errsSeen' = errsSeen,
              wpc[w] \in {"token", "append"}
       PROVE  /\ pos'[w] <= Len(tokens) + 1 /\ PassedClean(w)'
              /\ ret'[w] \in {Nil, "canceled"} /\ wpc'[w] \in {"token", "done", "store"}
              /\ wpc'[w] # "token" => ret'[w] = "canceled"
  <2>1. /\ pos'[w] = pos[w] + 1
        /\ \/ wpc'[w] = "token" /\ ret' = ret
           \/ wpc'[w] \in {"done", "store"} /\ ret'[w] = "canceled"
    BY <1>11, EndIterationOutcome
  <2>2. pos[w] \in 1..Len(tokens) /\ tokens[pos[w]] \in {"plain", "object", "any"}
    BY <1>4, <1>11
  <2>3. \A i \in 1..(pos'[w] - 1) : i = pos[w] \/ i \in 1..(pos[w] - 1)
    BY <1>4, <2>1
  <2>4. PassedClean(w)'
    BY <1>5, <1>7, <1>11, <2>2, <2>3
  <2>. QED
    BY <1>4, <1>8, <1>9, <1>11, <2>1, <2>2, <2>4
<1>12. CASE Open(w)
  <2>1. UNCHANGED <<pos, errsSeen>> /\ wpc[w] = "start" /\ pos[w] = 1
    BY <1>5, <1>12 DEF Open
  <2>2. PassedClean(w)'
    BY <1>7, <2>1
  <2>3. CASE n \in pkg.readable
    <3>1. wpc'[w] = "token" /\ ret' = ret
      BY <1>2, <1>12, <2>3 DEF Open, TypeOK
    <3>. QED
      BY <1>5, <2>1, <2>2, <2>3, <3>1
  <2>4. CASE n \notin pkg.readable
    <3>1. wpc'[w] \in {"done", "store"} /\ ret'[w] = "open"
      BY <1>2, <1>12, <2>4 DEF Open, Return, TypeOK
    <3>. QED
      BY <1>5, <1>6, <2>1, <2>4, <3>1 DEF Nil
  <2>. QED
    BY <2>3, <2>4
<1>13. CASE ReadPlain(w)
  <2>1. Token(w) = "plain" /\ EndIteration(w) /\ errsSeen' = errsSeen /\ wpc[w] = "token"
    BY <1>13 DEF ReadPlain
  <2>. QED
    BY <1>5, <1>11, <2>1 DEF Nil
<1>14. CASE ReadBadAttr(w)
  <2>1. Token(w) = "badattr" /\ wpc[w] = "token" /\ errsSeen'[w] = TRUE
    <3>1. errsSeen' = [errsSeen EXCEPT ![w] = TRUE]
      BY <1>14 DEF ReadBadAttr
    <3>2. errsSeen'[w] = TRUE
      BY <3>1, Zenon DEF TypeOK
    <3>. QED
      BY <1>14, <3>2 DEF ReadBadAttr
  <2>2. pos[w] \in 1..Len(tokens) /\ "badattr" \in Range(tokens)
    BY <1>4, <2>1 DEF Range
  <2>3. Faulty(w)
    BY <1>6, <2>2
  <2>4. pos'[w] = pos[w] + 1 /\ (wpc'[w] = "token" \/ (wpc'[w] \in {"done", "store"} /\ ret'[w] # Nil))
    <3>1. CASE strict
      <4>1. Finish(w, "badattr") /\ pos' = [pos EXCEPT ![w] = @ + 1]
        BY <1>14, <3>1 DEF ReadBadAttr
      <4>2. ret'[w] \in {"badattr", "canceled"} /\ wpc'[w] \in {"done", "store"}
        BY <4>1, FinishOutcome DEF Errors
      <4>3. pos'[w] = pos[w] + 1
        BY <4>1 DEF TypeOK
      <4>. QED
        BY <4>2, <4>3 DEF Nil
    <3>2. CASE ~strict
      <4>1. EndIteration(w)
        BY <1>14, <3>2 DEF ReadBadAttr
      <4>2. /\ pos'[w] = pos[w] + 1
            /\ \/ wpc'[w] = "token" /\ ret' = ret
               \/ wpc'[w] \in {"done", "store"} /\ ret'[w] = "canceled"
        BY <4>1, EndIterationOutcome
      <4>. QED
        BY <4>2 DEF Nil
    <3>. QED
      BY <3>1, <3>2
  <2>5. PassedClean(w)'
    <3>1. \A i \in 1..(pos'[w] - 1) : i = pos[w] \/ i \in 1..(pos[w] - 1)
      BY <1>4, <2>4
    <3>2. tokens[pos[w]] = "badattr"
      BY <1>4, <2>1
    <3>. QED
      BY <1>5, <1>7, <2>1, <3>1, <3>2
  <2>. QED
    BY <1>4, <1>5, <2>1, <2>2, <2>3, <2>4, <2>5
<1>15. CASE ReadEnd(w)
  <2>1. UNCHANGED <<pos, errsSeen>> /\ wpc[w] = "token" /\ Token(w) \in {"syntax", "eof"}
    BY <1>15 DEF ReadEnd
  <2>2. PICK err : err = LoopError(w, IF Token(w) = "syntax" THEN "syntax" ELSE Nil)
    OBVIOUS
  <2>3. err \in {"syntax", "badattr", Nil}
    BY <2>2 DEF LoopError
  <2>4. ret'[w] \in {err, "canceled"} /\ wpc'[w] \in {"done", "store"} /\ (ret'[w] = Nil => err = Nil)
    BY <1>15, <2>2, <2>3, FinishOutcome DEF ReadEnd, Errors
  <2>5. err = "syntax" => Faulty(w)
    <3>1. err = "syntax" => Token(w) = "syntax"
      BY <2>1, <2>2 DEF LoopError, Nil
    <3>2. Token(w) = "syntax" => "syntax" \in Range(tokens)
      BY <1>4 DEF Range
    <3>. QED
      BY <1>6, <3>1, <3>2
  <2>6. err = "badattr" => Faulty(w)
    <3>1. err = "badattr" => errsSeen[w]
      BY <2>1, <2>2 DEF LoopError, Nil
    <3>. QED
      BY <1>5, <1>6, <3>1
  <2>7. err = Nil => ~errsSeen[w]
    BY <2>1, <2>2 DEF LoopError, Nil
  <2>8. PassedClean(w)'
    BY <1>5, <1>7, <2>1
  <2>. QED
    BY <1>5, <2>1, <2>3, <2>4, <2>5, <2>6, <2>7, <2>8
<1>16. CASE BeginAppend(w)
  <2>1. /\ UNCHANGED <<pos, errsSeen, ret>> /\ wpc[w] = "token" /\ wpc'[w] = "append"
        /\ Token(w) \in {"object", "any"}
    BY <1>16 DEF BeginAppend, TypeOK
  <2>2. Token(w)' = Token(w)
    BY <1>1, <2>1 DEF Token
  <2>. QED
    BY <1>5, <1>7, <2>1, <2>2
<1>17. CASE EndAppend(w)
  <2>1. Token(w) \in {"object", "any"} /\ EndIteration(w) /\ errsSeen' = errsSeen /\ wpc[w] = "append"
    BY <1>5, <1>17 DEF EndAppend
  <2>. QED
    BY <1>5, <1>11, <2>1 DEF Nil
<1>18. CASE StoreErrType(w) \/ StoreErrData(w) \/ CancelSiblings(w)
  <2>1. /\ UNCHANGED <<pos, errsSeen, ret>> /\ wpc[w] \in {"store", "storedata", "cancel"}
        /\ wpc'[w] \in {"storedata", "cancel", "done"}
    BY <1>18 DEF StoreErrType, StoreErrData, CancelSiblings, TypeOK
  <2>2. ret[w] # Nil
    BY <2>1 DEF RunInv, ReturnsInv, Reporting
  <2>. QED
    BY <1>5, <2>1, <2>2
<1>. QED
  BY <1>12, <1>13, <1>14, <1>15, <1>16, <1>17, <1>18 DEF WorkerStep

LEMMA ReadInductive ==
  ASSUME TypeOK, RunInv, ReadInv, [Next]_vars
  PROVE  ReadInv'
<1>1. CASE \E w \in DOMAIN wpc : WorkerStep(w)
  BY <1>1, WorkerStepRead
<1>2. CASE Discover \/ DiscoveryFailed \/ CallAgain
  <2>1. pkg' = pkg
    <3>1. Discover \/ CallAgain => pkg' = pkg
      BY SamePackage DEF Discover, CallAgain, DiscoveryNext
    <3>. QED
      BY <1>2, <3>1 DEF DiscoveryFailed, discVars
  <2>2. DOMAIN wpc' = {}
    BY <1>2 DEF Discover, DiscoveryFailed, CallAgain, RunInv, StagesInv, runVars, workerVars
  <2>. QED
    BY <2>1, <2>2 DEF ReadInv
<1>3. CASE StartChildren
  <2>1. UNCHANGED <<pkg, rootFile, nonRootModels>> /\ phase = "found"
    BY <1>3 DEF StartChildren, discVars, cursors
  <2>2. /\ DOMAIN wpc' = Workers /\ \A w \in Workers : wpc'[w] \in {"idle", "start"}
        /\ \A w \in Workers : pos'[w] = 1 /\ ret'[w] = Nil /\ errsSeen'[w] = FALSE
    BY <1>3 DEF StartChildren
  <2>3. \A w \in Workers : FileOf(w)' = FileOf(w) /\ FileOf(w) \in Names
    BY <2>1 DEF FileOf, Workers, Children, TypeOK, DiscoveryTypeOK
  <2>4. \A w \in Workers : Tokens(w)' \in Seq(TokenKinds)
    BY <2>1, <2>3, DecoderAssumption DEF Tokens, ReadInv
  <2>5. \A w \in Workers : ReadOK(w)'
    <3>1. \A w \in Workers : Len(Tokens(w)') \in Nat
      BY <2>4
    <3>. QED
      BY <2>2, <3>1 DEF ReadOK
  <2>. QED
    BY <2>1, <2>2, <2>5 DEF ReadInv
<1>4. CASE Join \/ RootDone \/ CallerCancels \/ UNCHANGED vars
  <2>1. UNCHANGED <<pkg, rootFile, nonRootModels, pos, ret, errsSeen>>
    BY <1>4 DEF Join, RootDone, CallerCancels, vars, runVars, workerVars, discVars, cursors
  <2>2. wpc' = wpc \/ (wpc' = [wpc EXCEPT ![0] = "start"] /\ main = "children")
    BY <1>4 DEF Join, Waited, RootDone, CallerCancels, vars, runVars, workerVars
  <2>3. main = "children" => wpc[0] = "idle"
    BY DEF RunInv, StagesInv
  <2>4. \A w : FileOf(w)' = FileOf(w)
    BY <2>1 DEF FileOf
  <2>5. \A w : Tokens(w)' = Tokens(w)
    BY <2>1, <2>4 DEF Tokens
  <2>6. \A w : Token(w)' = Token(w) /\ Faulty(w)' = Faulty(w) /\ PassedClean(w)' = PassedClean(w)
    BY <2>1, <2>4, <2>5 DEF Token, Faulty, PassedClean
  <2>7. CASE wpc' = wpc
    BY <2>1, <2>4, <2>5, <2>6, <2>7 DEF ReadInv, ReadOK
  <2>8. CASE wpc' = [wpc EXCEPT ![0] = "start"] /\ main = "children"
    <3>1. DOMAIN wpc' = DOMAIN wpc /\ \A w \in DOMAIN wpc : wpc'[w] = wpc[w] \/ (wpc[w] = "idle" /\ wpc'[w] = "start")
      BY <2>3, <2>8
    <3>. QED
      BY <2>1, <2>4, <2>5, <2>6, <3>1 DEF ReadInv, ReadOK
  <2>. QED
    BY <2>2, <2>7, <2>8
<1>. QED
  BY <1>1, <1>2, <1>3, <1>4 DEF Next, DecodeStep

-----------------------------------------------------------------------------
(***************************************************************************)
(* What the model holds while the goroutines decode, if no two of them     *)
(* append to one slice: of each file, what has been read of it.            *)
(***************************************************************************)
Filled(w, kind) == ElementsUpTo(FileOf(w), Tokens(w), kind)[pos[w] - 1]

ContentsAre ==
  /\ \A w \in Workers : objects[FileOf(w)] = Filled(w, "object")
  /\ anyElems \in Seq(Names \X Nat)
  /\ \A e : e \in Range(anyElems) <=> \E w \in Workers : e \in Range(Filled(w, "any"))
  /\ \A w \in Workers : wpc[w] = "append" =>
       snap[w] = IF Token(w) = "object" THEN objects[FileOf(w)] ELSE anyElems

ContentInv ==
  /\ main = "opc" => objects = [n \in Names |-> << >>] /\ anyElems = << >>
  /\ AppendsApart /\ DOMAIN wpc # {} => ContentsAre

LEMMA NothingHeld ==
  ASSUME NEW n, NEW tokens \in Seq(TokenKinds), NEW kind, NEW k \in 0..Len(tokens),
         k = 0 \/ kind \notin Range(tokens)
  PROVE  ElementsUpTo(n, tokens, kind)[k] = << >>
<1>0. PICK held : held = ElementsUpTo(n, tokens, kind)
  OBVIOUS
<1>1. PICK s : s = held[k]
  OBVIOUS
<1>2. s \in Seq({n} \X Nat)
  BY <1>0, <1>1, ElementsUpToIs
<1>3. DOMAIN tokens = 1..Len(tokens) /\ Len(tokens) \in Nat
  OBVIOUS
<1>4. ~ \E i \in 1..k : tokens[i] = kind
  BY <1>3 DEF Range
<1>5. HeldAre(held[k], n, tokens, kind, k)
  BY <1>0, ElementsAre
<1>6. \A x : x \notin Range(s)
  BY <1>1, <1>4, <1>5 DEF HeldAre
<1>7. DOMAIN s = {}
  BY <1>6 DEF Range
<1>8. s = << >>
  BY <1>2, <1>7
<1>. QED
  BY <1>0, <1>1, <1>8

(* What one token adds.                                                    *)
OneMore(held, n, tokens, kind, k) ==
  held[k] = IF tokens[k] = kind THEN Append(held[k - 1], <<n, k>>) ELSE held[k - 1]

LEMMA ElementsStep ==
  ASSUME NEW n, NEW tokens \in Seq(TokenKinds), NEW kind, NEW k \in 1..Len(tokens)
  PROVE  OneMore(ElementsUpTo(n, tokens, kind), n, tokens, kind, k)
<1>1. PICK held : held = ElementsUpTo(n, tokens, kind)
  OBVIOUS
<1>2. HeldSoFar(held, n, tokens, kind)
  BY <1>1, ElementsUpToIs
<1>3. OneMore(held, n, tokens, kind, k)
  BY <1>2 DEF HeldSoFar, OneMore
<1>. QED
  BY <1>1, <1>3

LEMMA FilledIs ==
  ASSUME TypeOK, RunInv, ReadInv, NEW w \in DOMAIN wpc, NEW kind
  PROVE  /\ Filled(w, kind) \in Seq(Names \X Nat)
         /\ ~Holds(w, kind) => Filled(w, kind) = << >>
<1>1. /\ FileOf(w) \in Names /\ Tokens(w) \in Seq(TokenKinds) /\ Len(Tokens(w)) \in Nat
      /\ pos[w] \in Nat \ {0}
  BY TokenFacts DEF ReadInv
<1>2. pos[w] - 1 \in 0..Len(Tokens(w))
  BY <1>1 DEF ReadInv, ReadOK
<1>3. PICK n, tokens, k : n = FileOf(w) /\ tokens = Tokens(w) /\ k = pos[w] - 1
  OBVIOUS
<1>4. n \in Names /\ tokens \in Seq(TokenKinds) /\ k \in 0..Len(tokens)
  BY <1>1, <1>2, <1>3
<1>5. ElementsUpTo(n, tokens, kind)[k] \in Seq({n} \X Nat)
  BY <1>4, ElementsUpToIs
<1>6. kind \notin Range(tokens) => ElementsUpTo(n, tokens, kind)[k] = << >>
  BY <1>4, NothingHeld
<1>7. \A s \in Seq({n} \X Nat) : s \in Seq(Names \X Nat)
  BY <1>4
<1>. QED
  BY <1>3, <1>5, <1>6, <1>7 DEF Filled, Holds

LEMMA FilledStays ==
  ASSUME NEW w, UNCHANGED <<FileOf(w), Tokens(w), pos[w]>>, NEW kind
  PROVE  Filled(w, kind)' = Filled(w, kind)
<1>1. PICK n, tokens, k : n = FileOf(w) /\ tokens = Tokens(w) /\ k = pos[w] - 1
  OBVIOUS
<1>2. n = FileOf(w)' /\ tokens = Tokens(w)' /\ k = pos'[w] - 1
  BY <1>1
<1>3. Filled(w, kind) = ElementsUpTo(n, tokens, kind)[k]
  BY <1>1 DEF Filled
<1>4. Filled(w, kind)' = ElementsUpTo(n, tokens, kind)[k]
  BY <1>2 DEF Filled
<1>. QED
  BY <1>3, <1>4

LEMMA FilledGrows ==
  ASSUME TypeOK, RunInv, ReadInv, NEW w \in DOMAIN wpc, NEW kind,
         UNCHANGED <<FileOf(w), Tokens(w)>>, pos'[w] = pos[w] + 1, Token(w) # "eof"
  PROVE  Filled(w, kind)' = IF Token(w) = kind THEN Append(Filled(w, kind), Element(w))
                            ELSE Filled(w, kind)
<1>1. /\ Tokens(w) \in Seq(TokenKinds) /\ Len(Tokens(w)) \in Nat /\ pos[w] \in Nat \ {0}
      /\ pos[w] \in 1..Len(Tokens(w)) /\ Token(w) = Tokens(w)[pos[w]]
  BY TokenFacts DEF ReadInv
<1>2. PICK n, tokens, k : n = FileOf(w) /\ tokens = Tokens(w) /\ k = pos[w]
  OBVIOUS
<1>3. n = FileOf(w)' /\ tokens = Tokens(w)' /\ k = pos'[w] - 1
  BY <1>1, <1>2
<1>4. tokens \in Seq(TokenKinds) /\ k \in 1..Len(tokens) /\ Token(w) = tokens[k]
  BY <1>1, <1>2
<1>5. Filled(w, kind) = ElementsUpTo(n, tokens, kind)[k - 1] /\ Element(w) = <<n, k>>
  BY <1>2 DEF Filled, Element
<1>6. Filled(w, kind)' = ElementsUpTo(n, tokens, kind)[k]
  BY <1>3 DEF Filled
<1>7. OneMore(ElementsUpTo(n, tokens, kind), n, tokens, kind, k)
  BY <1>4, ElementsStep
<1>8. PICK held : held = ElementsUpTo(n, tokens, kind)
  OBVIOUS
<1>. QED
  BY <1>4, <1>5, <1>6, <1>7, <1>8 DEF OneMore

(* No goroutine but w can be about to append where w appends.              *)
LEMMA AppendsAlone ==
  ASSUME TypeOK, RunInv, ReadInv, AppendsApart, NEW w \in DOMAIN wpc, NEW v \in DOMAIN wpc,
         v # w, wpc[w] = "append", wpc[v] = "append", Token(v) = Token(w)
  PROVE  Token(w) = "object" /\ FileOf(v) # FileOf(w)
<1>1. /\ w \in Workers /\ v \in Workers /\ phase = "found" /\ Children = Workers \ {0}
  <2>1. DOMAIN wpc = Workers /\ phase = "found"
    BY DEF RunInv, StagesInv
  <2>2. 0 \notin Children
    BY DEF Children, TypeOK, DiscoveryTypeOK
  <2>. QED
    BY <2>1, <2>2 DEF Workers
<1>2. Token(w) \in {"object", "any"}
  BY DEF ReadInv, ReadOK
<1>3. Holds(w, Token(w)) /\ Holds(v, Token(v))
  BY <1>2, TokenFacts DEF ReadInv, Holds, Range
<1>4. SlicesApart
  BY <1>1 DEF AppendsApart
<1>5. w # 0 /\ v # 0
  <2>1. \A u \in Children : wpc[0] # "idle" => wpc[u] = "done"
    BY <1>1 DEF RunInv, StagesInv, RootAfterChildren, Workers
  <2>. QED
    BY <1>1, <2>1
<1>6. FileOf(v) = FileOf(w) => ~Holds(v, "object")
  BY <1>1, <1>4 DEF SlicesApart
<1>7. ~(Holds(v, "any") /\ Holds(w, "any"))
  BY <1>1, <1>4, <1>5 DEF SlicesApart
<1>. QED
  BY <1>2, <1>3, <1>6, <1>7

(* A step that appends nothing.                                            *)
LEMMA QuietStep ==
  ASSUME TypeOK, RunInv, ReadInv, ContentsAre, NEW w \in DOMAIN wpc, WorkerStep(w),
         UNCHANGED <<objects, anyElems>>,
         \A kind \in {"object", "any"} : Filled(w, kind)' = Filled(w, kind),
         wpc'[w] = "append" =>
           snap'[w] = IF Token(w)' = "object" THEN objects[FileOf(w)] ELSE anyElems
  PROVE  ContentsAre'
<1>1. /\ Workers' = Workers /\ DOMAIN wpc = Workers /\ \A v : FileOf(v)' = FileOf(v)
      /\ \A v : Tokens(v)' = Tokens(v)
      /\ \A v \in DOMAIN wpc : v # w =>
           wpc'[v] = wpc[v] /\ pos'[v] = pos[v] /\ snap'[v] = snap[v] /\ Token(v)' = Token(v)
  BY OthersStay, TokenFacts DEF ReadInv
<1>2. \A v \in Workers : v # w => \A kind \in {"object", "any"} : Filled(v, kind)' = Filled(v, kind)
  BY <1>1, FilledStays
<1>3. \A v \in Workers : Filled(v, "object")' = Filled(v, "object")
  BY <1>2
<1>4. \A v \in Workers : Filled(v, "any")' = Filled(v, "any")
  BY <1>2
<1>5. \A v \in Workers : objects'[FileOf(v)'] = Filled(v, "object")'
  BY <1>1, <1>3 DEF ContentsAre
<1>6. \A e : e \in Range(anyElems') <=> \E v \in Workers' : e \in Range(Filled(v, "any")')
  BY <1>1, <1>4 DEF ContentsAre
<1>7. \A v \in Workers : wpc'[v] = "append" =>
        snap'[v] = IF Token(v)' = "object" THEN objects'[FileOf(v)'] ELSE anyElems'
  BY <1>1 DEF ContentsAre
<1>. QED
  BY <1>1, <1>5, <1>6, <1>7 DEF ContentsAre

(* The end of an object of w.                                              *)
LEMMA ObjectAppended ==
  ASSUME TypeOK, RunInv, ReadInv, AppendsApart, ContentsAre, NEW w \in DOMAIN wpc,
         WorkerStep(w), EndAppend(w), Token(w) = "object"
  PROVE  ContentsAre'
<1>1. /\ Workers' = Workers /\ DOMAIN wpc = Workers /\ \A v : FileOf(v)' = FileOf(v)
      /\ \A v : Tokens(v)' = Tokens(v)
      /\ \A v \in DOMAIN wpc : v # w =>
           wpc'[v] = wpc[v] /\ pos'[v] = pos[v] /\ snap'[v] = snap[v] /\ Token(v)' = Token(v)
  BY OthersStay, TokenFacts DEF ReadInv
<1>2. /\ wpc[w] = "append" /\ anyElems' = anyElems /\ EndIteration(w)
      /\ objects' = [objects EXCEPT ![FileOf(w)] = Append(snap[w], Element(w))]
  BY DEF EndAppend, ResourcesOf
<1>3. pos'[w] = pos[w] + 1 /\ wpc'[w] # "append"
  BY <1>2, EndIterationOutcome
<1>4. /\ Filled(w, "object")' = Append(Filled(w, "object"), Element(w))
      /\ Filled(w, "any")' = Filled(w, "any")
  BY <1>1, <1>3, FilledGrows
<1>5. FileOf(w) \in Names /\ DOMAIN objects = Names /\ phase = "found"
  BY TokenFacts DEF ReadInv, TypeOK, RunInv, StagesInv
<1>6. snap[w] = Filled(w, "object")
  BY <1>1, <1>2 DEF ContentsAre
<1>7. /\ objects'[FileOf(w)] = Append(Filled(w, "object"), Element(w))
      /\ \A v \in Workers : FileOf(v) # FileOf(w) => objects'[FileOf(v)] = objects[FileOf(v)]
  <2>1. \A v \in Workers : FileOf(v) \in Names
    BY <1>1, TokenFacts DEF ReadInv
  <2>. QED
    BY <1>2, <1>5, <1>6, <2>1
<1>8. \A v \in Workers : v # w => \A kind \in {"object", "any"} : Filled(v, kind)' = Filled(v, kind)
  BY <1>1, FilledStays
<1>9. Holds(w, "object")
  BY TokenFacts DEF ReadInv, Holds, Range
<1>10. \A v \in Workers : v # w => FileOf(v) # FileOf(w)
  BY <1>1, <1>5, <1>9 DEF AppendsApart, SlicesApart
<1>11. \A v \in Workers : objects'[FileOf(v)'] = Filled(v, "object")'
  BY <1>1, <1>4, <1>7, <1>8, <1>10 DEF ContentsAre
<1>12. \A v \in Workers : Filled(v, "any")' = Filled(v, "any")
  BY <1>4, <1>8
<1>13. \A e : e \in Range(anyElems') <=> \E v \in Workers' : e \in Range(Filled(v, "any")')
  BY <1>1, <1>2, <1>12 DEF ContentsAre
<1>14. \A v \in Workers : wpc'[v] = "append" =>
         snap'[v] = IF Token(v)' = "object" THEN objects'[FileOf(v)'] ELSE anyElems'
  BY <1>1, <1>2, <1>3, <1>7, <1>10 DEF ContentsAre
<1>. QED
  BY <1>1, <1>2, <1>11, <1>13, <1>14 DEF ContentsAre

(* The end of an element of an unknown namespace.                          *)
LEMMA AnyAppended ==
  ASSUME TypeOK, RunInv, ReadInv, AppendsApart, ContentsAre, NEW w \in DOMAIN wpc,
         WorkerStep(w), EndAppend(w), Token(w) = "any"
  PROVE  ContentsAre'
<1>1. /\ Workers' = Workers /\ DOMAIN wpc = Workers /\ \A v : FileOf(v)' = FileOf(v)
      /\ \A v : Tokens(v)' = Tokens(v)
      /\ \A v \in DOMAIN wpc : v # w =>
           wpc'[v] = wpc[v] /\ pos'[v] = pos[v] /\ snap'[v] = snap[v] /\ Token(v)' = Token(v)
  BY OthersStay, TokenFacts DEF ReadInv
<1>2. /\ wpc[w] = "append" /\ objects' = objects /\ EndIteration(w)
      /\ anyElems' = Append(snap[w], Element(w))
  BY DEF EndAppend
<1>3. pos'[w] = pos[w] + 1 /\ wpc'[w] # "append"
  BY <1>2, EndIterationOutcome
<1>4. /\ Filled(w, "any")' = Append(Filled(w, "any"), Element(w))
      /\ Filled(w, "object")' = Filled(w, "object")
  BY <1>1, <1>3, FilledGrows
<1>5. snap[w] = anyElems
  BY <1>1, <1>2 DEF ContentsAre
<1>6. Element(w) \in Names \X Nat
  BY TokenFacts DEF ReadInv, Element
<1>7. anyElems \in Seq(Names \X Nat) /\ anyElems' \in Seq(Names \X Nat)
  BY <1>2, <1>5, <1>6 DEF ContentsAre
<1>8. \A v \in Workers : v # w => \A kind \in {"object", "any"} : Filled(v, kind)' = Filled(v, kind)
  BY <1>1, FilledStays
<1>9. \A v \in Workers : objects'[FileOf(v)'] = Filled(v, "object")'
  BY <1>1, <1>2, <1>4, <1>8 DEF ContentsAre
<1>10. \A e : e \in Range(anyElems') <=> e \in Range(anyElems) \/ e = Element(w)
  BY <1>2, <1>5, <1>7, RangeAppend
<1>11. \A e : e \in Range(Filled(w, "any")') <=> e \in Range(Filled(w, "any")) \/ e = Element(w)
  <2>1. Filled(w, "any") \in Seq(Names \X Nat)
    BY FilledIs
  <2>. QED
    BY <1>4, <2>1, RangeAppend
<1>12. \A e : e \in Range(anyElems') <=> \E v \in Workers' : e \in Range(Filled(v, "any")')
  <2>1. \A e : e \in Range(anyElems) <=> \E v \in Workers : e \in Range(Filled(v, "any"))
    BY DEF ContentsAre
  <2>2. \A v \in Workers : v # w => Filled(v, "any")' = Filled(v, "any")
    BY <1>8
  <2>. QED
    BY <1>1, <1>10, <1>11, <2>1, <2>2
<1>13. \A v \in Workers : wpc'[v] = "append" =>
         snap'[v] = IF Token(v)' = "object" THEN objects'[FileOf(v)'] ELSE anyElems'
  <2>1. ASSUME NEW v \in Workers, wpc'[v] = "append"
        PROVE  v # w /\ Token(v) = "object"
    <3>1. v # w /\ wpc[v] = "append"
      BY <1>1, <1>3, <2>1
    <3>2. Token(v) \in {"object", "any"}
      BY <1>1, <3>1 DEF ReadInv, ReadOK
    <3>3. Token(v) # "any"
      BY <1>1, <1>2, <3>1, AppendsAlone
    <3>. QED
      BY <3>1, <3>2, <3>3
  <2>. QED
    BY <1>1, <1>2, <2>1 DEF ContentsAre
<1>. QED
  BY <1>1, <1>7, <1>9, <1>12, <1>13 DEF ContentsAre

LEMMA WorkerStepContent ==
  ASSUME TypeOK, RunInv, ReadInv, ContentInv, NEW w \in DOMAIN wpc, WorkerStep(w)
  PROVE  ContentInv'
<1>1. /\ UNCHANGED <<discVars, main>> /\ pkg' = pkg /\ Workers' = Workers
      /\ DOMAIN wpc' = DOMAIN wpc
      /\ \A v : FileOf(v)' = FileOf(v) /\ Tokens(v)' = Tokens(v)
  BY OthersStay
<1>2. main # "opc"
  BY DEF RunInv, StagesInv
<1>3. AppendsApart' <=> AppendsApart
  <2>1. \A v, kind : Holds(v, kind)' <=> Holds(v, kind)
    BY <1>1 DEF Holds
  <2>2. SlicesApart' <=> SlicesApart
    BY <1>1, <2>1 DEF SlicesApart
  <2>3. phase' = phase
    BY <1>1 DEF discVars, cursors
  <2>4. OneRootModel' <=> OneRootModel
    BY <1>1 DEF OneRootModel
  <2>. QED
    BY <2>2, <2>3, <2>4 DEF AppendsApart
<1>4. SUFFICES ASSUME AppendsApart PROVE ContentsAre'
  BY <1>1, <1>2, <1>3 DEF ContentInv
<1>5. ContentsAre
  BY <1>4 DEF ContentInv
<1>6. ASSUME UNCHANGED <<objects, anyElems>>,
             \/ pos'[w] = pos[w]
             \/ pos'[w] = pos[w] + 1 /\ Token(w) \in {"plain", "badattr"},
             wpc'[w] # "append"
      PROVE  ContentsAre'
  <2>1. CASE pos'[w] = pos[w]
    <3>1. \A kind \in {"object", "any"} : Filled(w, kind)' = Filled(w, kind)
      BY <1>1, <2>1, FilledStays
    <3>. QED
      BY <1>5, <1>6, <3>1, QuietStep
  <2>2. CASE pos'[w] = pos[w] + 1 /\ Token(w) \in {"plain", "badattr"}
    <3>1. \A kind \in {"object", "any"} : Filled(w, kind)' = Filled(w, kind)
      BY <1>1, <2>2, FilledGrows
    <3>. QED
      BY <1>5, <1>6, <3>1, QuietStep
  <2>. QED
    BY <1>6, <2>1, <2>2
<1>7. CASE Open(w)
  BY <1>6, <1>7 DEF Open, Return, TypeOK, sharedVars
<1>8. CASE ReadPlain(w)
  <2>1. EndIteration(w) /\ UNCHANGED <<objects, anyElems>> /\ Token(w) = "plain"
    BY <1>8 DEF ReadPlain, sharedVars
  <2>2. pos'[w] = pos[w] + 1 /\ wpc'[w] # "append"
    BY <2>1, EndIterationOutcome
  <2>. QED
    BY <1>6, <2>1, <2>2
<1>9. CASE ReadBadAttr(w)
  <2>1. UNCHANGED <<objects, anyElems>> /\ Token(w) = "badattr"
    BY <1>9 DEF ReadBadAttr, sharedVars
  <2>2. CASE strict
    <3>1. Finish(w, "badattr") /\ pos' = [pos EXCEPT ![w] = @ + 1]
      BY <1>9, <2>2 DEF ReadBadAttr
    <3>2. pos'[w] = pos[w] + 1
      BY <3>1 DEF TypeOK
    <3>3. wpc'[w] # "append"
      BY <3>1 DEF Finish, Return, TypeOK
    <3>. QED
      BY <1>6, <2>1, <3>2, <3>3
  <2>3. CASE ~strict
    <3>1. EndIteration(w)
      BY <1>9, <2>3 DEF ReadBadAttr
    <3>2. pos'[w] = pos[w] + 1 /\ wpc'[w] # "append"
      BY <3>1, EndIterationOutcome
    <3>. QED
      BY <1>6, <2>1, <3>2
  <2>. QED
    BY <2>2, <2>3
<1>10. CASE ReadEnd(w)
  BY <1>6, <1>10 DEF ReadEnd, Finish, Return, TypeOK, sharedVars
<1>11. CASE BeginAppend(w)
  <2>1. /\ UNCHANGED <<objects, anyElems, pos>>
        /\ snap'[w] = IF Token(w) = "object" THEN objects[FileOf(w)] ELSE anyElems
    BY <1>11 DEF BeginAppend, ResourcesOf, TypeOK, sharedVars
  <2>2. Token(w)' = Token(w)
    BY <1>1, <2>1 DEF Token
  <2>3. \A kind \in {"object", "any"} : Filled(w, kind)' = Filled(w, kind)
    BY <1>1, <2>1, FilledStays
  <2>. QED
    BY <1>5, <2>1, <2>2, <2>3, QuietStep
<1>12. CASE EndAppend(w)
  <2>1. Token(w) \in {"object", "any"}
    BY <1>12 DEF EndAppend, ReadInv, ReadOK
  <2>2. CASE Token(w) = "object"
    BY <1>4, <1>5, <1>12, <2>2, ObjectAppended
  <2>3. CASE Token(w) = "any"
    BY <1>4, <1>5, <1>12, <2>3, AnyAppended
  <2>. QED
    BY <2>1, <2>2, <2>3
<1>13. CASE StoreErrType(w) \/ StoreErrData(w) \/ CancelSiblings(w)
  BY <1>6, <1>13 DEF StoreErrType, StoreErrData, CancelSiblings, TypeOK, sharedVars
<1>. QED
  BY <1>7, <1>8, <1>9, <1>10, <1>11, <1>12, <1>13 DEF WorkerStep

LEMMA ContentInductive ==
  ASSUME TypeOK, RunInv, ReadInv, ContentInv, [Next]_vars
  PROVE  ContentInv'
<1>1. CASE \E w \in DOMAIN wpc : WorkerStep(w)
  BY <1>1, WorkerStepContent
<1>2. CASE Discover \/ CallAgain
  <2>1. DOMAIN wpc' = {} /\ objects' = [n \in Names |-> << >>] /\ anyElems' = << >>
    BY <1>2 DEF Discover, CallAgain, RunInv, StagesInv, ContentInv, runVars, workerVars, sharedVars
  <2>. QED
    BY <2>1 DEF ContentInv
<1>3. CASE DiscoveryFailed
  <2>1. DOMAIN wpc' = {} /\ main' # "opc"
    BY <1>3 DEF DiscoveryFailed, RunInv, StagesInv, workerVars
  <2>. QED
    BY <2>1 DEF ContentInv
<1>4. CASE StartChildren
  <2>1. /\ UNCHANGED <<pkg, rootFile, nonRootModels>> /\ phase = "found" /\ main' # "opc"
        /\ objects' = [n \in Names |-> << >>] /\ anyElems' = << >>
    BY <1>4 DEF StartChildren, discVars, cursors, ContentInv
  <2>2. Workers' = Workers
    BY <2>1 DEF Workers, Children
  <2>3. /\ \A w \in Workers : wpc'[w] \in {"idle", "start"}
        /\ \A w \in Workers : pos'[w] = 1
    BY <1>4 DEF StartChildren
  <2>4. \A w \in Workers : FileOf(w)' = FileOf(w) /\ FileOf(w) \in Names
    BY <2>1 DEF FileOf, Workers, Children, TypeOK, DiscoveryTypeOK
  <2>5. \A w \in Workers : Tokens(w)' \in Seq(TokenKinds)
    BY <2>1, <2>4, DecoderAssumption DEF Tokens, ReadInv
  <2>6. ASSUME NEW w \in Workers, NEW kind PROVE Filled(w, kind)' = << >>
    <3>1. PICK n, tokens : n = FileOf(w)' /\ tokens = Tokens(w)'
      OBVIOUS
    <3>2. tokens \in Seq(TokenKinds) /\ 0 \in 0..Len(tokens)
      BY <2>5, <3>1
    <3>3. ElementsUpTo(n, tokens, kind)[0] = << >>
      BY <3>2, NothingHeld
    <3>4. pos'[w] - 1 = 0
      BY <2>3
    <3>. QED
      BY <3>1, <3>3, <3>4 DEF Filled
  <2>7. \A w \in Workers : objects'[FileOf(w)'] = Filled(w, "object")'
    BY <2>1, <2>4, <2>6
  <2>8. \A e : e \in Range(anyElems') <=> \E w \in Workers' : e \in Range(Filled(w, "any")')
    <3>1. \A e : e \notin Range(<< >>)
      BY DEF Range
    <3>. QED
      BY <2>1, <2>2, <2>6, <3>1
  <2>9. anyElems' \in Seq(Names \X Nat)
    BY <2>1
  <2>10. ContentsAre'
    BY <2>2, <2>3, <2>7, <2>8, <2>9 DEF ContentsAre
  <2>. QED
    BY <2>1, <2>10 DEF ContentInv
<1>5. CASE Join \/ RootDone \/ CallerCancels \/ UNCHANGED vars
  <2>1. /\ UNCHANGED <<pkg, phase, rootFile, nonRootModels, pos, snap, objects, anyElems>>
        /\ main' # "opc" \/ main' = main
    BY <1>5 DEF Join, RootDone, CallerCancels, vars, runVars, workerVars, sharedVars, discVars, cursors
  <2>2. wpc' = wpc \/ wpc' = [wpc EXCEPT ![0] = "start"]
    BY <1>5 DEF Join, RootDone, CallerCancels, vars, runVars, workerVars
  <2>3. DOMAIN wpc' = DOMAIN wpc /\ \A w \in DOMAIN wpc : wpc'[w] = "append" => wpc[w] = "append"
    BY <2>2
  <2>4. Workers' = Workers /\ \A w : FileOf(w)' = FileOf(w)
    BY <2>1 DEF FileOf, Workers, Children
  <2>5. \A w : Tokens(w)' = Tokens(w)
    BY <2>1, <2>4 DEF Tokens
  <2>6. \A w : Token(w)' = Token(w)
    BY <2>1, <2>5 DEF Token
  <2>7. \A w, kind : Filled(w, kind)' = Filled(w, kind)
    BY <2>1, <2>4, <2>5, FilledStays
  <2>8. AppendsApart' <=> AppendsApart
    <3>1. \A w, kind : Holds(w, kind)' <=> Holds(w, kind)
      BY <2>5 DEF Holds
    <3>2. SlicesApart' <=> SlicesApart
      BY <2>4, <3>1 DEF SlicesApart
    <3>3. OneRootModel' <=> OneRootModel
      BY <2>1 DEF OneRootModel
    <3>. QED
      BY <2>1, <3>2, <3>3 DEF AppendsApart
  <2>9. DOMAIN wpc # {} => DOMAIN wpc = Workers
    BY DEF RunInv, StagesInv
  <2>10. ASSUME ContentsAre, DOMAIN wpc # {} PROVE ContentsAre'
    <3>1. \A w \in Workers : objects'[FileOf(w)'] = Filled(w, "object")'
      BY <2>1, <2>4, <2>7, <2>10 DEF ContentsAre
    <3>2. \A e : e \in Range(anyElems') <=> \E w \in Workers' : e \in Range(Filled(w, "any")')
      BY <2>1, <2>4, <2>7, <2>10 DEF ContentsAre
    <3>3. \A w \in Workers : wpc'[w] = "append" =>
            snap'[w] = IF Token(w)' = "object" THEN objects'[FileOf(w)'] ELSE anyElems'
      BY <2>1, <2>3, <2>4, <2>6, <2>9, <2>10 DEF ContentsAre
    <3>4. anyElems' \in Seq(Names \X Nat)
      BY <2>1, <2>10 DEF ContentsAre
    <3>. QED
      BY <2>4, <3>1, <3>2, <3>3, <3>4 DEF ContentsAre
  <2>. QED
    BY <2>1, <2>3, <2>8, <2>10 DEF ContentInv
<1>. QED
  BY <1>1, <1>2, <1>3, <1>4, <1>5 DEF Next, DecodeStep

-----------------------------------------------------------------------------
(***************************************************************************)
(* DecodeContext keeps the promise of DecodeContract, step by step.        *)
(***************************************************************************)
LEMMA DecoderDiscovers == Spec => DiscoverySpec
<1>1. Init => DiscoveryInit
  BY DEF Init
<1>2. [Next]_vars => [DiscoveryNext]_discVars
  <2> SUFFICES ASSUME [Next]_vars PROVE DiscoveryNext \/ UNCHANGED discVars
    OBVIOUS
  <2>1. CASE Discover \/ CallAgain
    BY <2>1 DEF Discover, CallAgain, DiscoveryNext
  <2>2. CASE \E w \in DOMAIN wpc : WorkerStep(w)
    BY <2>2, WorkerStepFrame
  <2>3. CASE DiscoveryFailed \/ StartChildren \/ Join \/ RootDone \/ CallerCancels \/ UNCHANGED vars
    BY <2>3 DEF DiscoveryFailed, StartChildren, Join, RootDone, CallerCancels, vars
  <2>. QED
    BY <2>1, <2>2, <2>3 DEF Next, DecodeStep
<1>. QED
  BY <1>1, <1>2, PTL DEF Spec, DiscoverySpec

FoundInv == EntriesInv /\ ExactInv /\ OutcomeInv

DecodeInv == TypeOK /\ RunInv /\ FoundInv /\ ReadInv /\ ContentInv

LEMMA DecodeInvariant == Spec => []DecodeInv
<1>1. Init => ReadInv
  BY DEF Init, ReadInv, DiscoveryInit
<1>2. Init => ContentInv
  BY DEF Init, ContentInv
<1>3. TypeOK /\ RunInv /\ ReadInv /\ [Next]_vars => ReadInv'
  BY ReadInductive
<1>4. TypeOK /\ RunInv /\ ReadInv /\ ContentInv /\ [Next]_vars => ContentInv'
  BY ContentInductive
<1>5. Spec => []FoundInv
  BY DecoderDiscovers, DiscoveryOutcome, PTL DEF FoundInv
<1>. QED
  BY <1>1, <1>2, <1>3, <1>4, <1>5, RunInvariant, PTL DEF Spec, DecodeInv

(* A goroutine that returned nil has read its file to the end, and found   *)
(* nothing wrong with it.                                                  *)
LEMMA CleanlyRead ==
  ASSUME TypeOK, RunInv, ReadInv, NEW w \in DOMAIN wpc, wpc[w] = "done", ret[w] = Nil
  PROVE  ~Faulty(w) /\ pos[w] - 1 = Len(Tokens(w))
<1>1. /\ Len(Tokens(w)) \in Nat /\ DOMAIN Tokens(w) = 1..Len(Tokens(w)) /\ pos[w] \in Nat \ {0}
      /\ Token(w) = "eof" => pos[w] \notin 1..Len(Tokens(w))
  BY TokenFacts DEF ReadInv
<1>2. Token(w) = "eof"
  BY DEF RunInv, ReturnsInv
<1>3. pos[w] <= Len(Tokens(w)) + 1 /\ FileOf(w) \in pkg.readable /\ PassedClean(w) /\ ~errsSeen[w]
  BY DEF ReadInv, ReadOK
<1>4. pos[w] - 1 = Len(Tokens(w))
  BY <1>1, <1>2, <1>3
<1>5. \A i \in 1..Len(Tokens(w)) : Tokens(w)[i] \notin {"syntax", "badattr"}
  BY <1>3, <1>4 DEF PassedClean
<1>6. Range(Tokens(w)) \cap {"syntax", "badattr"} = {}
  BY <1>1, <1>5 DEF Range
<1>. QED
  BY <1>3, <1>4, <1>6 DEF Faulty

LEMMA PartsFound ==
  ASSUME DecodeInv, AppendsApart, DOMAIN wpc # {}
  PROVE  /\ HasRoot(pkg) /\ DOMAIN wpc = Workers /\ 0 \in Workers
         /\ ModelParts(pkg) = {FileOf(w) : w \in Workers}
<1>1. DOMAIN wpc = Workers /\ phase = "found"
  BY DEF DecodeInv, RunInv, StagesInv
<1>. QED
  BY <1>1, FoundParts DEF DecodeInv, FoundInv, TypeOK, AppendsApart, Workers

LEMMA FaultExplained ==
  ASSUME DecodeInv, AppendsApart, NEW w \in DOMAIN wpc, Faulty(w)
  PROVE  ~SoundPackage(pkg)
<1>1. FileOf(w) \in ModelParts(pkg)
  BY PartsFound
<1>. QED
  BY <1>1 DEF SoundPackage, Faulty, Tokens

LEMMA SuccessSound ==
  ASSUME DecodeInv, AppendsApart, DOMAIN wpc # {},
         \A w \in DOMAIN wpc : wpc[w] = "done" /\ ret[w] = Nil
  PROVE  SoundPackage(pkg)
<1>1. \A w \in Workers : ~Faulty(w)
  BY PartsFound, CleanlyRead DEF DecodeInv
<1>. QED
  BY <1>1, PartsFound DEF SoundPackage, Faulty, Tokens

LEMMA SuccessWhole ==
  ASSUME DecodeInv, AppendsApart, DOMAIN wpc # {},
         \A w \in DOMAIN wpc : wpc[w] = "done" /\ ret[w] = Nil
  PROVE  <<[n \in ModelParts(pkg) |-> objects[n]], Range(anyElems)>> = WholeContent(pkg)
<1>1. /\ HasRoot(pkg) /\ DOMAIN wpc = Workers
      /\ ModelParts(pkg) = {FileOf(w) : w \in Workers}
  BY PartsFound
<1>2. ASSUME NEW w \in Workers, NEW kind
      PROVE  ContentOf(pkg, FileOf(w), kind) = Filled(w, kind)
  BY <1>1, CleanlyRead DEF ContentOf, Filled, Tokens, DecodeInv
<1>3. ContentsAre
  BY DEF DecodeInv, ContentInv
<1>4. \A n \in ModelParts(pkg) : objects[n] = ContentOf(pkg, n, "object")
  BY <1>1, <1>2, <1>3 DEF ContentsAre
<1>5. \A e : e \in Range(anyElems) <=> \E n \in ModelParts(pkg) : e \in Range(ContentOf(pkg, n, "any"))
  BY <1>1, <1>2, <1>3 DEF ContentsAre
<1>6. Range(anyElems) = UNION {Range(ContentOf(pkg, n, "any")) : n \in ModelParts(pkg)}
  BY <1>5
<1>7. [n \in ModelParts(pkg) |-> objects[n]] = [n \in ModelParts(pkg) |-> ContentOf(pkg, n, "object")]
  BY <1>4
<1>. QED
  BY <1>1, <1>6, <1>7 DEF WholeContent

LEMMA Undecided ==
  ASSUME main # "done"
  PROVE  Status = "pending" /\ DecodedContent = << >>
BY DEF Status, DecodedContent

LEMMA Stutters ==
  ASSUME main # "done", main' # "done", ctx' = ctx, pkg' = pkg
  PROVE  UNCHANGED Contract!vars
<1>1. Status' = Status /\ DecodedContent' = DecodedContent
  BY DEF Status, DecodedContent
<1>2. SoundPackage(pkg)' = SoundPackage(pkg) /\ WholeContent(pkg)' = WholeContent(pkg)
  OBVIOUS
<1>. QED
  BY <1>1, <1>2 DEF Contract!vars

LEMMA Fails ==
  ASSUME main # "done", main' = "done", result' # NoResult, ctx' = ctx, pkg' = pkg,
         ~SoundPackage(pkg) \/ ctx
  PROVE  Contract!Fail
<1>1. Status = "pending" /\ Status' = "failed" /\ DecodedContent' = DecodedContent
  BY DEF Status, DecodedContent
<1>2. SoundPackage(pkg)' = SoundPackage(pkg) /\ WholeContent(pkg)' = WholeContent(pkg)
  OBVIOUS
<1>. QED
  BY <1>1, <1>2 DEF Contract!Fail

(* What a child, or the root, has returned is explained.                   *)
LEMMA ErrorExplained ==
  ASSUME DecodeInv, AppendsApart, NEW w \in DOMAIN wpc, ret[w] # Nil
  PROVE  ~SoundPackage(pkg) \/ ctx
<1>1. CASE ret[w] # "canceled"
  <2>1. Faulty(w)
    BY <1>1 DEF DecodeInv, ReadInv, ReadOK
  <2>. QED
    BY <2>1, FaultExplained
<1>2. CASE ret[w] = "canceled"
  <2>1. Caused
    BY <1>2 DEF DecodeInv, RunInv, CauseInv
  <2>2. ASSUME NEW v \in Children, v \in DOMAIN ret, ret[v] \notin {Nil, "canceled"}
        PROVE  ~SoundPackage(pkg)
    <3>1. v \in DOMAIN wpc
      BY <2>2 DEF DecodeInv, TypeOK
    <3>2. Faulty(v)
      BY <2>2, <3>1 DEF DecodeInv, ReadInv, ReadOK
    <3>. QED
      BY <3>1, <3>2, FaultExplained
  <2>. QED
    BY <2>1, <2>2 DEF Caused
<1>. QED
  BY <1>1, <1>2

LEMMA ContractStep ==
  ASSUME DecodeInv, AppendsApart, [Next]_vars
  PROVE  Contract!Next \/ UNCHANGED Contract!vars
<1>1. CASE Discover
  <2>1. pkg' = pkg
    BY <1>1, SamePackage DEF Discover, DiscoveryNext
  <2>. QED
    BY <1>1, <2>1, Stutters DEF Discover, runVars
<1>2. CASE DiscoveryFailed
  <2>1. main # "done" /\ main' = "done" /\ result' # NoResult /\ ctx' = ctx /\ pkg' = pkg
    BY <1>2 DEF DiscoveryFailed, discVars, NoResult, Nil
  <2>2. ~SoundPackage(pkg)
    BY <1>2 DEF DiscoveryFailed, SoundPackage, DecodeInv, FoundInv, OutcomeInv
  <2>. QED
    BY <2>1, <2>2, Fails DEF Contract!Next
<1>3. CASE StartChildren
  BY <1>3, Stutters DEF StartChildren, discVars
<1>4. ASSUME NEW w \in DOMAIN wpc, WorkerStep(w)
      PROVE  UNCHANGED Contract!vars
  <2>1. main # "done"
    BY <1>4 DEF DecodeInv, RunInv, StagesInv, WorkerStep, Open, ReadPlain, ReadBadAttr, ReadEnd,
                BeginAppend, EndAppend, StoreErrType, StoreErrData, CancelSiblings
  <2>2. UNCHANGED <<main, ctx, pkg>>
    BY <1>4, OthersStay DEF DecodeInv
  <2>. QED
    BY <2>1, <2>2, Stutters
<1>5. CASE Join
  <2>1. main = "children" /\ ctx' = ctx /\ pkg' = pkg /\ ChildrenDone
    BY <1>5 DEF Join, Waited, discVars
  <2>2. CASE errsType = Nil
    BY <1>5, <2>1, <2>2, Stutters DEF Join
  <2>3. CASE errsType # Nil
    <3>1. main' = "done" /\ result' # NoResult
      BY <1>5, <2>3 DEF Join, NoResult
    <3>2. PICK w \in Children : ret[w] # Nil
      BY <2>1, <2>3 DEF DecodeInv, RunInv, ErrsInv
    <3>3. w \in DOMAIN wpc
      BY <2>1 DEF DecodeInv, TypeOK, Workers
    <3>4. ~SoundPackage(pkg) \/ ctx
      BY <3>2, <3>3, ErrorExplained
    <3>. QED
      BY <2>1, <3>1, <3>4, Fails DEF Contract!Next
  <2>. QED
    BY <2>2, <2>3
<1>6. CASE RootDone
  <2>1. /\ main = "root" /\ main' = "done" /\ ctx' = ctx /\ pkg' = pkg
        /\ wpc[0] = "done" /\ result' = <<ret[0], ret[0]>>
        /\ objects' = objects /\ anyElems' = anyElems
    BY <1>6 DEF RootDone, discVars, sharedVars
  <2>2. DOMAIN wpc = Workers /\ 0 \in DOMAIN wpc
    BY <2>1 DEF DecodeInv, TypeOK, Workers
  <2>3. CASE ret[0] # Nil
    <3>1. result' # NoResult
      BY <2>1, <2>3 DEF NoResult
    <3>2. ~SoundPackage(pkg) \/ ctx
      BY <2>2, <2>3, ErrorExplained
    <3>. QED
      BY <2>1, <3>1, <3>2, Fails DEF Contract!Next
  <2>4. CASE ret[0] = Nil
    <3>1. \A w \in DOMAIN wpc : wpc[w] = "done" /\ ret[w] = Nil
      BY <2>1, <2>2, <2>4 DEF DecodeInv, RunInv, StagesInv, RootAfterChildren, Workers
    <3>2. SoundPackage(pkg)
      BY <2>2, <3>1, SuccessSound
    <3>3. <<[n \in ModelParts(pkg) |-> objects[n]], Range(anyElems)>> = WholeContent(pkg)
      BY <2>2, <3>1, SuccessWhole
    <3>4. Status = "pending" /\ Status' = "ok"
      BY <2>1, <2>4 DEF Status, NoResult
    <3>5. DecodedContent' = <<[n \in ModelParts(pkg) |-> objects[n]], Range(anyElems)>>
      BY <2>1, <2>4 DEF DecodedContent, NoResult
    <3>6. SoundPackage(pkg)' = SoundPackage(pkg) /\ WholeContent(pkg)' = WholeContent(pkg)
      BY <2>1
    <3>. QED
      BY <2>1, <3>2, <3>3, <3>4, <3>5, <3>6 DEF Contract!Next, Contract!Succeed
  <2>. QED
    BY <2>3, <2>4
<1>7. CASE CallerCancels
  <2>1. main # "done" /\ main' = main /\ pkg' = pkg /\ ctx = FALSE /\ ctx' = TRUE
    BY <1>7 DEF CallerCancels, discVars, DecodeInv, TypeOK
  <2>2. Status = "pending" /\ Status' = Status /\ DecodedContent' = DecodedContent
    BY <2>1 DEF Status, DecodedContent
  <2>3. SoundPackage(pkg)' = SoundPackage(pkg) /\ WholeContent(pkg)' = WholeContent(pkg)
    BY <2>1
  <2>. QED
    BY <2>1, <2>2, <2>3 DEF Contract!Next, Contract!Interrupt
<1>8. CASE CallAgain
  <2>1. main = "done" /\ main' = "opc" /\ ctx' = FALSE
    BY <1>8 DEF CallAgain
  <2>2. pkg' = pkg
    BY <1>8, SamePackage DEF CallAgain, DiscoveryNext
  <2>3. Status # "pending" /\ Status' = "pending" /\ DecodedContent' = << >>
    BY <2>1 DEF Status, DecodedContent
  <2>4. SoundPackage(pkg)' = SoundPackage(pkg) /\ WholeContent(pkg)' = WholeContent(pkg)
    BY <2>2
  <2>. QED
    BY <2>1, <2>3, <2>4 DEF Contract!Next, Contract!NewCall
<1>9. CASE UNCHANGED vars
  <2>1. UNCHANGED <<pkg, main, ctx, result, objects, anyElems>>
    BY <1>9 DEF vars, discVars, runVars, sharedVars
  <2>2. Status' = Status /\ DecodedContent' = DecodedContent
    BY <2>1 DEF Status, DecodedContent
  <2>3. SoundPackage(pkg)' = SoundPackage(pkg) /\ WholeContent(pkg)' = WholeContent(pkg)
    BY <2>1
  <2>. QED
    BY <2>1, <2>2, <2>3 DEF Contract!vars
<1>. QED
  BY <1>1, <1>2, <1>3, <1>4, <1>5, <1>6, <1>7, <1>8, <1>9 DEF Next, DecodeStep

(***************************************************************************)
(* A call of DecodeContext that ends has returned nil and the whole        *)
(* content of a sound package, or an error that the package or the         *)
(* caller's cancellation explains: whatever the packages hold, however     *)
(* many goroutines decode them and however their steps interleave, as long *)
(* as no two of them append to one slice (AppendsApart).  That a call ends *)
(* is taken from its fairness.                                             *)
(***************************************************************************)
THEOREM DecoderRefinesContract ==
  Spec /\ []AppendsApart /\ Contract!Ends => RefinesContract
<1>1. Init => Contract!Init
  BY DEF Init, Contract!Init, Status, DecodedContent
<1>2. DecodeInv /\ AppendsApart /\ [Next]_vars => [Contract!Next]_(Contract!vars)
  BY ContractStep
<1>. QED
  BY <1>1, <1>2, DecodeInvariant, PTL DEF Spec, RefinesContract, Contract!Spec
=============================================================================
