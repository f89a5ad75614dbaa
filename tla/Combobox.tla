----------------------------- MODULE Combobox -----------------------------
(***************************************************************************)
(* The combobox of the web UI (ui/src/components/Combobox.tsx): a box is   *)
(* its dropdown and the text searched for; the chosen values belong to the *)
(* form around it.  Escape also reaches the dialog, which closes           *)
(* (ui/src/components/Modal.tsx), so it is not an operation of the box.    *)
(***************************************************************************)
EXTENDS Naturals, Sequences, SequencesExt

Searches == {"", "text"}
Box == [open : BOOLEAN, search : Searches]
ClosedBox == [open |-> FALSE, search |-> ""]

\* A click on the box, or the focus.
Opened(box) == [box EXCEPT !.open = TRUE]

\* onChange of the input.
Searching(search) == [open |-> TRUE, search |-> search]

\* Mutant: the text stays when the dropdown closes.
ClosedWithText(box) == [box EXCEPT !.open = FALSE]

\* A mousedown outside the box.
Dismissed(box) == ClosedBox

\* The options the dropdown offers; the text is one that only hits match.
filtered(box, options, hits) ==
  IF box.search = "" THEN options ELSE options \cap hits

\* value.filter: the values other than the item, in their order.
Without(value, item) ==
  LET rest[n \in 0..Len(value)] ==
        IF n = 0 THEN <<>>
        ELSE IF value[n] /= item THEN Append(rest[n - 1], value[n])
        ELSE rest[n - 1]
  IN rest[Len(value)]

\* toggle of a box with several values; the dropdown stays open.
toggled(value, item) ==
  IF item \in ToSet(value) THEN Without(value, item) ELSE Append(value, item)

\* Backspace with no text takes the last value away.
backspaced(box, value) ==
  IF box.search = "" /\ value /= <<>> THEN Without(value, Last(value)) ELSE value
=============================================================================
