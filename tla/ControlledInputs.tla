-------------------------- MODULE ControlledInputs --------------------------
(***************************************************************************)
(* A text field and a group of radio buttons with one name, rendered from  *)
(* the state of one component, or left to the user: what the user does to  *)
(* the nodes, how ChangeEventPlugin finds out with the values tracked per  *)
(* node, the handlers, and the restore at the end of the outermost batch   *)
(* (ReactGenericBatching, ReactControlledComponent).  A handler that       *)
(* clicks another field nests an event in the batch.  In concurrent mode   *)
(* updates wait; those of interactive events are flushed together.         *)
(* Two changes of the group in one batch are left out: what the browser    *)
(* did to the group is noticed only when the batch ends.                   *)
(***************************************************************************)
EXTENDS Integers, SequencesExt

CONSTANTS Radios, TextField, TextValues, MaxUserChanges, MaxNesting

ASSUME InputsAssumption == IsFiniteSet(Radios) /\ TextField \notin Radios

Fields == Radios \cup {TextField}

VARIABLES
  mode,          \* [controlled, concurrent], for good
  dom,           \* value or checked of every node
  tracker,       \* the value inputValueTracking remembers
  props,         \* the props of the tree on the screen: what each field shows
  waiting,       \* updates: [values, interactive]
  batch,         \* the events being handled, innermost last: [field, handled, interactive]
  restoreQueue,  \* restoreTarget and restoreQueue
  changes,       \* history: changes of the user, calls of onChange, and changes a render came before
  calls, overtaken

inputVars == <<mode, dom, tracker, props, waiting, batch, restoreQueue, changes, calls, overtaken>>

InputNode == [dom |-> dom, tracker |-> tracker]

(* The browser: a radio button that is checked unchecks its group, which   *)
(* no setter and no event tells.                                           *)
Assigned(d, f, v) ==
  [g \in Fields |-> IF g = f THEN v ELSE IF f \in Radios /\ g \in Radios /\ v = TRUE THEN FALSE ELSE d[g]]

(* node.value = v, by a script: the setter of the tracker.                 *)
SetNode(n, f, v) == [dom |-> Assigned(n.dom, f, v), tracker |-> [n.tracker EXCEPT ![f] = v]]

updateValueIfChanged(n, f) == [n EXCEPT !.tracker[f] = n.dom[f]]

updateWrapper(n, f, ps) ==
  IF ~mode.controlled \/ (f = TextField /\ n.dom[f] = ps[f]) THEN n ELSE SetNode(n, f, ps[f])

(* Fields are updated in turn; a value that is noticed is tracked first.   *)
UpdatedField(n, f, noticed, ps) == updateWrapper(IF noticed THEN updateValueIfChanged(n, f) ELSE n, f, ps)

UpdatedInTurn(n, fs, noticed, ps) ==
  LET after[k \in 0 .. Len(fs)] == IF k = 0 THEN n ELSE UpdatedField(after[k - 1], fs[k], noticed, ps)
  IN  after[Len(fs)]

(* Mutant: what the browser did to the rest of the group goes unnoticed.   *)
RestoreSelf(n, f, ps) == updateWrapper(n, f, ps)

restoreControlledState(n, f, ps) ==
  LET restored == updateWrapper(n, f, ps)
  IN  IF f = TextField THEN restored ELSE UpdatedInTurn(restored, SetToSeq(Radios \ {f}), TRUE, ps)

restoreStateIfNeeded(n, ps) ==
  LET after[k \in 0 .. Len(restoreQueue)] ==
        IF k = 0 THEN n ELSE restoreControlledState(after[k - 1], restoreQueue[k], ps)
  IN  after[Len(restoreQueue)]

(* A commit of the whole component, in the order of the tree.              *)
CommitInputs(n, ps) == UpdatedInTurn(n, Append(SetToSeq(Radios), TextField), FALSE, ps)

Rendered(ps, us) == IF us = <<>> THEN ps ELSE Last(us).values

(* An update sets all the fields, so that what is skipped before one that  *)
(* is rendered makes no difference: only the updates behind the last       *)
(* interactive one are left out by a flush of the interactive ones.        *)
FlushUpdates(n, ps, us, all) ==
  LET last == IF all THEN Len(us) ELSE Max({0} \cup {i \in DOMAIN us : us[i].interactive})
      done == SubSeq(us, 1, last)
      p == Rendered(ps, done)
  IN  [node |-> IF done = <<>> THEN n ELSE CommitInputs(n, p), props |-> p,
       waiting |-> SubSeq(us, last + 1, Len(us))]

InputsBecome(r) == /\ dom' = r.node.dom /\ tracker' = r.node.tracker
             /\ props' = r.props /\ waiting' = r.waiting

enqueueStateRestore(f) == restoreQueue' = Append(restoreQueue, f)

(* getTargetInstForInputOrChangeEvent, getTargetInstForClickEvent          *)
ExtractedChange(r, f, interactive) ==
  LET changed == r.node.dom[f] # r.node.tracker[f]
      n == updateValueIfChanged(r.node, f)
  IN  /\ InputsBecome([r EXCEPT !.node = n])
      /\ batch' = Append(batch, [field |-> f, handled |-> ~changed, interactive |-> interactive])
      /\ IF changed THEN enqueueStateRestore(f) ELSE UNCHANGED restoreQueue
      /\ calls' = IF changed THEN calls + 1 ELSE calls

(* The user types or clicks, or a handler clicks; the event is interactive,*)
(* and the first of a batch flushes what earlier ones left.                *)
UserChanges(f, v) ==
  LET n == [dom |-> Assigned(dom, f, v), tracker |-> tracker]
      r == IF batch = <<>> THEN FlushUpdates(n, props, waiting, FALSE)
           ELSE [node |-> n, props |-> props, waiting |-> waiting]
  IN  /\ changes < MaxUserChanges /\ dom[f] # v
      /\ batch # <<>> =>
           /\ Len(batch) < MaxNesting /\ ~Last(batch).handled
           /\ IF f = TextField THEN Last(batch).field # f ELSE ToSet(restoreQueue) \cap Radios = {}
      /\ changes' = changes + 1
      /\ ExtractedChange(r, f, TRUE)
      /\ overtaken' = IF r.node.dom[f] # v \/ r.node.tracker[f] # tracker[f] THEN overtaken + 1 ELSE overtaken
      /\ UNCHANGED mode

(* The change event that follows when the text field is left.              *)
ChangeEvent ==
  /\ batch = <<>>
  /\ ExtractedChange([node |-> InputNode, props |-> props, waiting |-> waiting], TextField, FALSE)
  /\ UNCHANGED <<mode, changes, overtaken>>

(* The handler of the field sets the state: to what the user asked for, or *)
(* to something else.                                                      *)
Accepted == [f \in Fields |-> dom[f]]
Corrected == [f \in Fields |-> IF f = TextField THEN Min(TextValues) ELSE props[f]]
Reset(g) == [f \in Fields |-> IF f = TextField THEN Min(TextValues) ELSE f = g]

HandlerSetsState(values) ==
  /\ batch # <<>> /\ ~Last(batch).handled
  /\ batch' = [batch EXCEPT ![Len(batch)].handled = TRUE]
  /\ waiting' = Append(waiting, [values |-> values, interactive |-> Last(batch).interactive])
  /\ UNCHANGED <<mode, dom, tracker, props, restoreQueue, changes, calls, overtaken>>

(* batchedUpdates of the renderer flushes synchronous updates; then, for   *)
(* the outermost event, the fields are restored.                           *)
EventEnd ==
  LET outermost == Len(batch) = 1
      r1 == IF outermost /\ ~mode.concurrent THEN FlushUpdates(InputNode, props, waiting, TRUE)
            ELSE [node |-> InputNode, props |-> props, waiting |-> waiting]
      r2 == IF outermost /\ restoreQueue # <<>> THEN FlushUpdates(r1.node, r1.props, r1.waiting, FALSE) ELSE r1
  IN  /\ batch # <<>> /\ batch' = Front(batch)
      /\ InputsBecome(IF outermost THEN [r2 EXCEPT !.node = restoreStateIfNeeded(@, r2.props)] ELSE r2)
      /\ restoreQueue' = IF outermost THEN <<>> ELSE restoreQueue
      /\ UNCHANGED <<mode, changes, calls, overtaken>>

(* Updates that no field asked for, those of another element's event among *)
(* them (which wait, as there is nothing to restore), and the host's       *)
(* callback.                                                               *)
UpdateElsewhere(values, interactive) ==
  /\ batch = <<>> /\ waiting = <<>> /\ mode.concurrent
  /\ waiting' = <<[values |-> values, interactive |-> interactive]>>
  /\ UNCHANGED <<mode, dom, tracker, props, batch, restoreQueue, changes, calls, overtaken>>

HostCallbackFlushes ==
  /\ batch = <<>> /\ waiting # <<>>
  /\ InputsBecome(FlushUpdates(InputNode, props, waiting, TRUE))
  /\ UNCHANGED <<mode, batch, restoreQueue, changes, calls, overtaken>>
-----------------------------------------------------------------------------
InputsInit ==
  /\ mode \in [controlled : BOOLEAN, concurrent : BOOLEAN]
  /\ props = [f \in Fields |-> IF f = TextField THEN Min(TextValues) ELSE FALSE]
  /\ dom = props /\ tracker = props /\ waiting = <<>> /\ batch = <<>> /\ restoreQueue = <<>>
  /\ changes = 0 /\ calls = 0 /\ overtaken = 0

InputsNext ==
  \/ \E f \in Radios : UserChanges(f, TRUE)
  \/ \E v \in TextValues : UserChanges(TextField, v)
  \/ ChangeEvent \/ EventEnd \/ HostCallbackFlushes
  \/ HandlerSetsState(Accepted) \/ HandlerSetsState(Corrected)
  \/ \E g \in Radios, interactive \in BOOLEAN : UpdateElsewhere(Reset(g), interactive)

InputsSpec == InputsInit /\ [][InputsNext]_inputVars
-----------------------------------------------------------------------------
(* Once an event is over, controlled nodes show what was rendered last,    *)
(* whatever the user did and the handlers refused; every node's tracked    *)
(* value is its own, so that the next change is noticed; and every change  *)
(* of the user calls onChange once, though one change may cause several    *)
(* events, unless the flush before its event renders the field first.      *)
FieldsShowState ==
  batch = <<>> =>
  /\ mode.controlled => dom = props
  /\ tracker = dom
  /\ changes = calls + overtaken
=============================================================================
