----------------------------- MODULE NativeProps -----------------------------
(***************************************************************************)
(* ReactNativeAttributePayload: what is sent to a native view when its     *)
(* props change.  Styles are nested arrays, whose later members win; the   *)
(* keys removed meanwhile are kept in variables of the module, which       *)
(* outlive a call.  Values are scalars.                                    *)
(***************************************************************************)
EXTENDS Integers, SequencesExt, FiniteSets

CONSTANTS
  Styles,         \* the values of the style prop: NoStyle, Leaf(f) or Array(items)
  Attributes,     \* values of the one prop that is not nested: functions on a subset of {"x"}
  NullValue, UndefinedValue

VARIABLES
  rendered,       \* the props of the view: [own, style]
  native,         \* the values the native view was told, without those it was told to reset
  removedKeys, removedKeyCount

nativeVars == <<rendered, native, removedKeys, removedKeyCount>>

NoStyle == [kind |-> "none"]
Leaf(f) == [kind |-> "leaf", props |-> f]
Array(s) == [kind |-> "array", items |-> s]

(* Module-level state and payload of a call: [payload, removed, count].    *)
(* updatePayload is null as long as it has no key.                         *)
Send(s, k, v) == [s EXCEPT !.payload = (k :> v) @@ @]
DefinedIn(f, k) == k \in DOMAIN f /\ f[k] # UndefinedValue

(* The two loops of diffProperties, for leaves.                            *)
Changed(s, k, prev, next) ==
  LET value == IF next[k] = UndefinedValue THEN NullValue ELSE next[k]
      before == CASE DefinedIn(prev, k) -> prev[k] [] value = NullValue -> NullValue [] OTHER -> UndefinedValue
      r == [s EXCEPT !.removed = @ \ {k}]
  IN  IF k \in DOMAIN s.payload \/ before # value THEN Send(r, k, value) ELSE r

Removed(s, k) ==
  [Send(s, k, NullValue) EXCEPT !.removed = @ \cup {k}, !.count = IF k \in s.removed THEN @ ELSE @ + 1]

diffLeaves(s, prev, next) ==
  LET changed == FoldSet(LAMBDA k, t : Changed(t, k, prev, next), s, DOMAIN next)
      gone == {k \in DOMAIN prev : DefinedIn(prev, k) /\ ~DefinedIn(next, k) /\ k \notin DOMAIN changed.payload}
  IN  FoldSet(LAMBDA k, t : Removed(t, k), changed, gone)

RECURSIVE AddOrClear(_, _, _), diffNestedProperty(_, _, _), restoreDeletedValues(_, _), flattenStyle(_)

(* addNestedProperty and clearNestedProperty.                              *)
AddOrClear(s, node, adds) ==
  CASE node = NoStyle        -> s
    [] node.kind = "leaf"    -> diffLeaves(s, IF adds THEN <<>> ELSE node.props, IF adds THEN node.props ELSE <<>>)
    [] OTHER                 -> FoldLeft(LAMBDA t, item : AddOrClear(t, item, adds), s, node.items)

(* External: later members win, with undefined too.                        *)
flattenStyle(node) ==
  CASE node = NoStyle        -> <<>>
    [] node.kind = "leaf"    -> node.props
    [] OTHER                 -> FoldLeft(LAMBDA f, item : flattenStyle(item) @@ f, <<>>, node.items)

(* Of two arrays, the rest of the longer one is cleared or added.          *)
diffNestedProperty(s, prev, next) ==
  CASE NoStyle \in {prev, next} -> AddOrClear(s, IF prev = NoStyle THEN next ELSE prev, prev = NoStyle)
    [] prev.kind = "array" /\ next.kind = "array" ->
         LET common == Min({Len(prev.items), Len(next.items)})
             both == FoldLeft(LAMBDA t, k : diffNestedProperty(t, prev.items[k], next.items[k]), s, [k \in 1 .. common |-> k])
             longer == IF Len(prev.items) > common THEN prev.items ELSE next.items
         IN  AddOrClear(both, Array(SubSeq(longer, common + 1, Len(longer))), Len(prev.items) = common)
    [] OTHER -> diffLeaves(s, flattenStyle(prev), flattenStyle(next))

restoreDeletedValues(s, node) ==
  IF node = NoStyle \/ s.count = 0 THEN s
  ELSE IF node.kind = "array" THEN FoldLeft(restoreDeletedValues, s, Reverse(node.items))
  ELSE FoldSet(LAMBDA k, t : [Send(t, k, node.props[k]) EXCEPT !.removed = @ \ {k}, !.count = @ - 1],
               s, {k \in s.removed : DefinedIn(node.props, k)})

(* Mutant: values that an earlier member of the array still gives are not  *)
(* sent again when a later member loses them.                              *)
WithoutRestore(s, node) == s

Restored(s, node) ==
  IF s.count > 0 /\ s.payload # <<>> THEN [restoreDeletedValues(s, node) EXCEPT !.removed = {}] ELSE s

(* diff: the prop of its own and the style, in the order of the props; the *)
(* identical objects are taken for unchanged.                              *)
diff(prev, next, ownFirst) ==
  LET Own(s) == FoldSet(LAMBDA k, t : Changed(t, k, prev.own, next.own), s, DOMAIN next.own)
      Style(s) ==
        IF prev.style = next.style \/ next.style = NoStyle THEN s
        ELSE Restored(diffNestedProperty([s EXCEPT !.removed = {}, !.count = 0], prev.style, next.style), next.style)
      forward == FoldLeft(LAMBDA s, prop : IF prop = "own" THEN Own(s) ELSE Style(s),
                          [payload |-> <<>>, removed |-> removedKeys, count |-> removedKeyCount],
                          IF ownFirst THEN <<"own", "style">> ELSE <<"style", "own">>)
      gone == {k \in DOMAIN prev.own : DefinedIn(prev.own, k) /\ ~DefinedIn(next.own, k) /\ k \notin DOMAIN forward.payload}
      cleared == FoldSet(LAMBDA k, t : Removed(t, k), forward, gone)
  IN  IF next.style = NoStyle THEN AddOrClear(cleared, prev.style, FALSE) ELSE cleared

Told(view, payload) ==
  LET all == payload @@ view IN [k \in {k \in DOMAIN all : all[k] # NullValue} |-> all[k]]

commitUpdate(own, style, ownFirst) ==
  LET next == [own |-> own, style |-> style]
      result == diff(rendered, next, ownFirst)
  IN  /\ rendered' = next
      /\ native' = Told(native, result.payload)
      /\ removedKeys' = result.removed /\ removedKeyCount' = Min({result.count, 1})
-----------------------------------------------------------------------------
NativeInit ==
  /\ rendered = [own |-> <<>>, style |-> NoStyle]
  /\ native = <<>> /\ removedKeys = {} /\ removedKeyCount = 0

NativeNext ==
  \E own \in Attributes, style \in Styles, ownFirst \in BOOLEAN : commitUpdate(own, style, ownFirst)

NativeSpec == NativeInit /\ [][NativeNext]_nativeVars
-----------------------------------------------------------------------------
(* After every update the native view has the values that the props mean,  *)
(* as if it had been created with them, whatever it was sent before.       *)
NativeShowsProps ==
  LET meant == flattenStyle(rendered.style) @@ rendered.own
  IN  native = [k \in {k \in DOMAIN meant : meant[k] # UndefinedValue} |-> meant[k]]
=============================================================================
