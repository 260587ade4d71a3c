----------------------------- MODULE UndoStack -----------------------------
(* The stack that XMLScopes works on: items pushed and popped at one end.   *)
EXTENDS Sequences, SequencesExt

CONSTANT Items

VARIABLE items

Init == items = <<>>

Push(item) == items' = Append(items, item)
Pop == items' = IF items = <<>> THEN <<>> ELSE Front(items)

Next == (\E item \in Items : Push(item)) \/ Pop

Spec == Init /\ [][Next]_items
=============================================================================
