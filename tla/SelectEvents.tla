---------------------------- MODULE SelectEvents ----------------------------
(***************************************************************************)
(* SelectEventPlugin: what listeners are told about the selection in the   *)
(* text field that has the focus.  Browsers send selectionchange, or do    *)
(* not, or the plugin ignores it (skipSelectionChangeEvent).               *)
(***************************************************************************)
EXTENDS Integers

CONSTANTS TextFields, NoField, MaxSelection

ASSUME SelectAssumption == NoField \notin TextFields

VARIABLES
  hearsSelection,                          \* selectionchange is sent and not ignored
  documentActive,                          \* the field that has the focus
  selection,                               \* of each field
  dragging,                                \* the mouse button is down
  activeElement, lastSelection, mouseDown, \* of the plugin
  toldSelection,                           \* history: the selection listeners know of, with its field
  checked,                                 \* history: the plugin was asked since the selection moved
  unheard                                  \* history: the button was released where the document does not hear of it

selectVars == <<hearsSelection, documentActive, selection, dragging, activeElement, lastSelection, mouseDown, toldSelection, checked, unheard>>

Nothing == [field |-> NoField, at |-> 0]
-----------------------------------------------------------------------------
(* Mutant: the selection is told only once.                                *)
IsFirst == lastSelection = {}

(* lastSelection is a set of at most one.                                  *)
HasChanged == lastSelection # {selection'[activeElement]}

constructSelectEvent(down) ==
  /\ mouseDown' = down
  /\ IF ~down /\ activeElement # NoField /\ activeElement = documentActive' /\ HasChanged
     THEN /\ lastSelection' = {selection'[activeElement]}
          /\ toldSelection' = [field |-> activeElement, at |-> selection'[activeElement]]
     ELSE UNCHANGED <<lastSelection, toldSelection>>
  /\ checked' = TRUE
  /\ UNCHANGED activeElement

(* A field loses the focus (blur) and another one gets it, or none.        *)
FocusMoves(f) ==
  /\ f # documentActive /\ documentActive' = f
  /\ activeElement' = f /\ lastSelection' = {} /\ checked' = FALSE
  /\ UNCHANGED <<hearsSelection, selection, dragging, mouseDown, toldSelection, unheard>>

(* It is removed from the document: no event says that the focus is lost.  *)
FieldIsRemoved ==
  /\ documentActive # NoField /\ documentActive' = NoField /\ checked' = FALSE
  /\ UNCHANGED <<hearsSelection, selection, dragging, activeElement, lastSelection, mouseDown, toldSelection, unheard>>

ButtonPressed ==
  /\ ~dragging /\ dragging' = TRUE /\ mouseDown' = TRUE
  /\ UNCHANGED <<hearsSelection, documentActive, selection, activeElement, lastSelection, toldSelection, checked, unheard>>

(* mouseup, dragend or contextmenu                                         *)
ButtonReleased ==
  /\ dragging /\ dragging' = FALSE /\ unheard' = FALSE
  /\ UNCHANGED <<hearsSelection, documentActive, selection>>
  /\ constructSelectEvent(FALSE)

ReleasedElsewhere ==
  /\ dragging /\ dragging' = FALSE /\ unheard' = TRUE
  /\ UNCHANGED <<hearsSelection, documentActive, selection, activeElement, lastSelection, mouseDown, toldSelection, checked>>

(* The selection moves: by a script, the mouse or a key that is held down. *)
SelectionMoves(n) ==
  /\ documentActive # NoField /\ n # selection[documentActive]
  /\ selection' = [selection EXCEPT ![documentActive] = n]
  /\ UNCHANGED <<hearsSelection, documentActive, dragging, unheard>>
  /\ IF hearsSelection THEN constructSelectEvent(mouseDown)
     ELSE checked' = FALSE /\ UNCHANGED <<activeElement, lastSelection, mouseDown, toldSelection>>

(* keydown, before the selection moves, or keyup.                          *)
KeyMoves ==
  /\ UNCHANGED <<hearsSelection, documentActive, selection, dragging, unheard>>
  /\ constructSelectEvent(mouseDown)
-----------------------------------------------------------------------------
SelectInit ==
  /\ hearsSelection \in BOOLEAN /\ documentActive = NoField /\ selection = [f \in TextFields |-> 0] /\ dragging = FALSE
  /\ activeElement = NoField /\ lastSelection = {} /\ mouseDown = FALSE
  /\ toldSelection = Nothing /\ checked = FALSE /\ unheard = FALSE

SelectNext ==
  \/ \E f \in TextFields \cup {NoField} : FocusMoves(f)
  \/ FieldIsRemoved \/ ButtonPressed \/ ButtonReleased \/ ReleasedElsewhere \/ KeyMoves
  \/ \E n \in 0 .. MaxSelection : SelectionMoves(n)

SelectSpec == SelectInit /\ [][SelectNext]_selectVars
-----------------------------------------------------------------------------
(* Listeners know the selection of the field that has the focus each time  *)
(* the plugin is asked and no button is down; a button that was released   *)
(* elsewhere counts as down until it is pressed and released again.        *)
SelectionIsReported ==
  checked /\ documentActive # NoField /\ ~dragging /\ ~unheard
    => toldSelection = [field |-> documentActive, at |-> selection[documentActive]]
=============================================================================
