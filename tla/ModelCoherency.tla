--------------------------- MODULE ModelCoherency --------------------------
(***************************************************************************)
(* Model.ValidateCoherency (validate.go): one goroutine for each object,   *)
(* of the root part and of the children in the order of a map, that check  *)
(* their meshes (MeshCoherency) and append what they find to one list      *)
(* under a mutex, while a WaitGroup counts them.                           *)
(*                                                                         *)
(* An object is <<part, index>>.  The append is two steps, since it reads  *)
(* the list and replaces it.                                               *)
(***************************************************************************)
EXTENDS Integers, Sequences, FiniteSets

CONSTANTS
  RootPart,
  Layouts  \* the models: [sizes |-> [part -> number of objects],
           \* bad |-> the solid objects with an incoherent mesh]

ASSUME LayoutsAssumption ==
  \A l \in Layouts :
    /\ RootPart \in DOMAIN l.sizes /\ IsFiniteSet(DOMAIN l.sizes)
    /\ \A p \in DOMAIN l.sizes : l.sizes[p] \in Nat
    /\ l.bad \subseteq UNION {{p} \X (1..l.sizes[p]) : p \in DOMAIN l.sizes}

VARIABLES
  layout,  \* the model that is checked
  started, \* the parts whose objects have a goroutine
  gpc,     \* [object -> where its goroutine is]
  wg,      \* the counter of the WaitGroup
  mu,      \* the object whose goroutine holds the mutex, or NoOne
  read,    \* [object -> the list its goroutine has read]
  list,    \* errs: the objects that the errors are about
  checked  \* ValidateCoherency has returned

modelVars == <<layout, started, gpc, wg, mu, read, list, checked>>

NoOne == <<RootPart, 0>>

ObjectsIn(p) == {p} \X (1..layout.sizes[p])
Running == DOMAIN gpc

ModelInit ==
  /\ layout \in Layouts
  /\ started = {} /\ gpc = <<>>
  /\ wg = 0 /\ mu = NoOne /\ read = <<>>
  /\ list = <<>>
  /\ checked = FALSE

-----------------------------------------------------------------------------
(* wg.Add and go, for the objects of a part: first the root, then the map. *)
StartPart(p) ==
  /\ p \in DOMAIN layout.sizes \ started
  /\ p # RootPart => RootPart \in started
  /\ started' = started \cup {p}
  /\ gpc' = [o \in Running \cup ObjectsIn(p) |-> IF o \in Running THEN gpc[o] ELSE "check"]
  /\ wg' = wg + layout.sizes[p]
  /\ UNCHANGED <<layout, mu, read, list, checked>>

Move(o, pc) == gpc' = [g \in Running |-> IF g = o THEN pc ELSE gpc[g]]

(* The mesh of a solid object is checked, without the mutex.               *)
CheckMesh(o) ==
  /\ gpc[o] = "check"
  /\ IF o \in layout.bad THEN Move(o, "lock") /\ UNCHANGED wg
     ELSE Move(o, "done") /\ wg' = wg - 1
  /\ UNCHANGED <<layout, started, mu, read, list, checked>>

(* Mutant: the list is replaced without the mutex. *)
Lock_Free(o) ==
  /\ gpc[o] = "lock"
  /\ mu' = o
  /\ Move(o, "append")
  /\ read' = [g \in DOMAIN read \cup {o} |-> IF g = o THEN list ELSE read[g]]
  /\ UNCHANGED <<layout, started, wg, list, checked>>

(* mu.Lock, and errs is read.                                              *)
Lock(o) ==
  /\ gpc[o] = "lock" /\ mu = NoOne
  /\ mu' = o
  /\ Move(o, "append")
  /\ read' = [g \in DOMAIN read \cup {o} |-> IF g = o THEN list ELSE read[g]]
  /\ UNCHANGED <<layout, started, wg, list, checked>>

(* Mutant: the mutex stays locked. *)
AppendError_Held(o) ==
  /\ gpc[o] = "append"
  /\ list' = Append(read[o], o)
  /\ Move(o, "done")
  /\ wg' = wg - 1
  /\ UNCHANGED <<layout, started, mu, read, checked>>

(* errs is set to the longer list, mu.Unlock and wg.Done.                  *)
AppendError(o) ==
  /\ gpc[o] = "append"
  /\ list' = Append(read[o], o)
  /\ mu' = NoOne
  /\ Move(o, "done")
  /\ wg' = wg - 1
  /\ UNCHANGED <<layout, started, read, checked>>

Goroutine(o) == CheckMesh(o) \/ Lock(o) \/ AppendError(o)

(* Both loops have ended.                                                  *)
AllStarted == started = DOMAIN layout.sizes

(* wg.Wait, and errs is returned.                                          *)
Wait ==
  /\ ~checked /\ AllStarted
  /\ wg = 0
  /\ checked' = TRUE
  /\ UNCHANGED <<layout, started, gpc, wg, mu, read, list>>

ModelNext ==
  \/ \E p \in DOMAIN layout.sizes : StartPart(p)
  \/ \E o \in Running : Goroutine(o)
  \/ Wait

(* Go runs every goroutine that can run; each takes the mutex once.        *)
ModelFairness == WF_modelVars(ModelNext)

ModelSpec == ModelInit /\ [][ModelNext]_modelVars /\ ModelFairness

-----------------------------------------------------------------------------
(* What is returned holds one error for every incoherent solid object of   *)
(* the model and no other, however the goroutines interleave: none is lost *)
(* to another that appends at the same time, and none comes too late.      *)
OneErrorPerObject ==
  checked =>
    /\ {list[k] : k \in DOMAIN list} = layout.bad
    /\ \A j, k \in DOMAIN list : list[j] = list[k] => j = k

(* ValidateCoherency returns.                                              *)
CoherencyReturns == <>checked
=============================================================================
