----------------------------- MODULE XMLCells ------------------------------
(***************************************************************************)
(* The memory under the stack of internal/xml/xml.go: two linked lists of  *)
(* cells, d.stk and d.free.  A cell that is popped goes to the free list,  *)
(* and push takes it from there again without resetting its fields.        *)
(***************************************************************************)
EXTENDS Integers, Sequences, SequencesExt, FiniteSets

CONSTANTS
  CellNames, \* what is stored in a cell
  MaxItems   \* bound on the cells in use

ASSUME CellsAssumption == MaxItems \in Nat

nil == 0

VARIABLES
  cells,   \* the cells ever allocated; an address is an index
  head,    \* the address of the top of the stack, or nil
  free,    \* the address of the first free cell, or nil
  deepest  \* history: the most items there have been at a time

cellVars == <<cells, head, free, deepest>>

Cell(next, kind, name, ok) == [next |-> next, kind |-> kind, name |-> name, ok |-> ok]

CellInit == cells = <<>> /\ head = nil /\ free = nil /\ deepest = 0

-----------------------------------------------------------------------------
(* The addresses on the list that starts at p, and one nil, or one address *)
(* too many when the list has a cycle.                                     *)
Walk(p) ==
  LET at[n \in 0..Len(cells)] ==
        IF n = 0 THEN p ELSE IF at[n - 1] = nil THEN nil ELSE cells[at[n - 1]].next
  IN  at

OnList(p) == {Walk(p)[n] : n \in DOMAIN Walk(p)} \ {nil}
Ends(p)   == \E n \in DOMAIN Walk(p) : Walk(p)[n] = nil
Count(p)  == Cardinality({n \in DOMAIN Walk(p) : Walk(p)[n] # nil})

-----------------------------------------------------------------------------
(* The cell that push takes, and the ok left in it by its last use.        *)
Taken   == IF free # nil THEN free ELSE Len(cells) + 1
StaleOk == IF free # nil THEN cells[free].ok ELSE FALSE

Stored(cell) == [a \in DOMAIN cells \cup {Taken} |-> IF a = Taken THEN cell ELSE cells[a]]

(* Mutant: the cell taken from the free list stays on it. *)
Push_KeepsFree(kind, name, ok) ==
  /\ cells' = Stored(Cell(head, kind, name, ok))
  /\ head' = Taken
  /\ UNCHANGED free

(* push, and what its caller stores in the cell.                           *)
Push(kind, name, ok) ==
  /\ cells' = Stored(Cell(head, kind, name, ok))
  /\ head' = Taken
  /\ free' = IF free # nil THEN cells[free].next ELSE free

Deepen == deepest' = IF Count(head) + 1 > deepest THEN Count(head) + 1 ELSE deepest

(* pushElement does not set ok.                                            *)
PushElement(name) ==
  /\ Count(head) < MaxItems
  /\ Push("start", name, StaleOk)
  /\ Deepen

PushNs(name, ok) ==
  /\ Count(head) < MaxItems
  /\ Push("ns", name, ok)
  /\ Deepen

(* Mutant: the next field is set before it is read. *)
Pop_Swapped ==
  /\ IF head = nil THEN UNCHANGED <<cells, head, free>>
     ELSE /\ head' = free
          /\ cells' = [cells EXCEPT ![head].next = free]
          /\ free' = head
  /\ UNCHANGED deepest

Pop ==
  /\ IF head = nil THEN UNCHANGED <<cells, head, free>>
     ELSE /\ head' = cells[head].next
          /\ cells' = [cells EXCEPT ![head].next = free]
          /\ free' = head
  /\ UNCHANGED deepest

CellNext ==
  \/ \E name \in CellNames : PushElement(name)
  \/ \E name \in CellNames, ok \in BOOLEAN : PushNs(name, ok)
  \/ Pop

CellSpec == CellInit /\ [][CellNext]_cellVars

-----------------------------------------------------------------------------
(* Each cell is on exactly one of the two lists, and neither has a cycle:  *)
(* no cell is lost, none is handed out twice, and the parser allocates as  *)
(* many as its deepest point needs, however long the document is.          *)
CellsPartitioned ==
  /\ Ends(head) /\ Ends(free)
  /\ OnList(head) \cap OnList(free) = {}
  /\ OnList(head) \cup OnList(free) = DOMAIN cells
  /\ Len(cells) = deepest

-----------------------------------------------------------------------------
(* The list is the stack: what a cell held before is never seen.  The ok   *)
(* of an element is not read.                                              *)
Item(c) == [kind |-> c.kind, name |-> c.name, ok |-> c.kind = "ns" /\ c.ok]

Stack == INSTANCE UndoStack
           WITH Items <- [kind : {"start", "ns"}, name : CellNames, ok : BOOLEAN],
                items <- Reverse([n \in 1..Count(head) |-> Item(cells[Walk(head)[n - 1]])])

RefinesUndoStack == Stack!Spec
=============================================================================
