----------------------------- MODULE TextEvents -----------------------------
(***************************************************************************)
(* The plugin that makes beforeInput and composition events out of what    *)
(* browsers send when a user types (BeforeInputEventPlugin with            *)
(* FallbackCompositionState).  A browser has composition and textInput     *)
(* events or not; fallback says that the data of its composition events    *)
(* are not to be relied on.  The text field may be in a React root that is *)
(* nested in another one: the plugin is then asked once for each of them.  *)
(***************************************************************************)
EXTENDS Integers, SequencesExt

CONSTANTS Browsers, Letters, Space, MaxText

VARIABLES
  browser,      \* [composition, textInput, fallback]
  nested,       \* the root of the field is in another root
  fieldText,    \* the content of the field, a sequence of letters
  isComposing,
  hasSpaceKeypress,
  startText,    \* of FallbackCompositionState
  nativeEvents, \* the native events to come: [type, key, data, text], each with the text it finds
  inserted,     \* history: by the last thing the user did: [chars, silent]
  reported,     \* history: the data of beforeInput events since then, of the inner root
  compositions  \* history: the composition events since then, of the inner root

textVars == <<browser, nested, fieldText, isComposing, hasSpaceKeypress, startText, nativeEvents, inserted, reported, compositions>>

NoChars == <<>>    \* no chars, or no event

(* Without composition events there are no data of theirs to rely on; the  *)
(* browsers with textInput have composition events, with the right data.   *)
ASSUME TextAssumption ==
  /\ \A b \in Browsers :
       /\ b.composition \in BOOLEAN /\ b.textInput \in BOOLEAN /\ b.fallback \in BOOLEAN
       /\ ~b.composition => b.fallback
       /\ b.textInput => b.composition /\ ~b.fallback
  /\ Space \notin Letters /\ "command" \notin Letters \cup {Space}
-----------------------------------------------------------------------------
(* What the browser does (external).  A key is a letter, the code of an    *)
(* input method, one that ends a composition, or a command.                *)
Native(type, key, data, now) == [type |-> type, key |-> key, data |-> data, text |-> now]

WithText(chars, at) == SubSeq(fieldText, 1, at) \o chars \o SubSeq(fieldText, at + 1, Len(fieldText))

UserDoes(events, chars, silent) ==
  /\ nativeEvents = <<>> /\ Len(fieldText) + Len(chars) <= MaxText
  /\ nativeEvents' = events
  /\ inserted' = [chars |-> chars, silent |-> silent]
  /\ reported' = <<>> /\ compositions' = <<>>
  /\ UNCHANGED <<browser, nested, fieldText, isComposing, hasSpaceKeypress, startText>>

TypesLetter(c, at) ==
  LET down == Native("keydown", "letter", NoChars, fieldText)
      press == Native("keypress", c, <<c>>, fieldText)
      up == Native("keyup", "letter", NoChars, WithText(<<c>>, at))
  IN  UserDoes(IF browser.textInput THEN <<down, press, Native("textInput", "", <<c>>, fieldText), up>>
               ELSE <<down, press, up>>, <<c>>, FALSE)

(* A virtual keyboard sends no keypress.                                   *)
TypesUnseen(c, at) ==
  /\ browser.textInput
  /\ UserDoes(<<Native("keydown", "method", NoChars, fieldText), Native("textInput", "", <<c>>, fieldText),
                Native("keyup", "method", NoChars, WithText(<<c>>, at))>>, <<c>>, c = Space /\ hasSpaceKeypress)

PressesCommand ==
  UserDoes(<<Native("keydown", "letter", NoChars, fieldText), Native("keypress", "command", NoChars, fieldText),
             Native("keyup", "letter", NoChars, fieldText)>>, <<>>, FALSE)

Pastes(chars, at) ==
  UserDoes(<<Native("paste", "", chars, fieldText), Native("keyup", "letter", NoChars, WithText(chars, at))>>, chars, TRUE)

(* An input method; without events of its own for it, the composition ends *)
(* with a key, a click, or when the field loses the focus.                 *)
Composes(chars, at, ends) ==
  LET now == WithText(chars, at)
      key == Native("keydown", "method", NoChars, fieldText)
      start == Native("compositionstart", "", NoChars, fieldText)
      update == Native("compositionupdate", "", chars, now)
      end == Native("compositionend", "", chars, now)
      again == Native("keydown", "method", NoChars, now)
      last == Native(ends, IF ends = "keyup" THEN "end" ELSE "letter", NoChars, now)
  IN  UserDoes(IF ~browser.composition THEN <<key, Native("keyup", "method", NoChars, now), again, last>>
               ELSE IF browser.textInput THEN <<key, start, update, Native("textInput", "", chars, now), end, last>>
               ELSE <<key, start, update, end, last>>, chars, FALSE)
-----------------------------------------------------------------------------
(* FallbackCompositionState                                                *)

(* What is between the head and the tail that both texts have.             *)
getData(from, to) ==
  LET start == Max({k \in 0 .. Len(from) : k <= Len(to) /\ SubSeq(from, 1, k) = SubSeq(to, 1, k)})
      SameTail(k) == k <= Len(to) /\ SubSeq(from, Len(from) - k + 1, Len(from)) = SubSeq(to, Len(to) - k + 1, Len(to))
      end == Max({k \in 0 .. Len(from) - start : SameTail(k)})
  IN  SubSeq(to, start + 1, Len(to) - end)
-----------------------------------------------------------------------------
(* BeforeInputEventPlugin.  The state of the plugin is a record, because   *)
(* it may be asked more than once for an event.                            *)

isFallbackCompositionStart(e) == e.type = "keydown" /\ e.key = "method"

isFallbackCompositionEnd(e) ==
  \/ e.type = "keyup" /\ e.key = "end"
  \/ e.type = "keydown" /\ e.key # "method"
  \/ e.type \in {"keypress", "mousedown", "blur"}

CompositionEvent(s, e) ==
  IF browser.composition
  THEN IF e.type \in {"compositionstart", "compositionupdate", "compositionend"} THEN e.type ELSE ""
  ELSE IF ~s.composing /\ isFallbackCompositionStart(e) THEN "compositionstart"
  ELSE IF s.composing /\ isFallbackCompositionEnd(e) THEN "compositionend" ELSE ""

extractCompositionEvent(s, e) ==
  LET type == CompositionEvent(s, e)
      starts == type = "compositionstart" /\ browser.fallback /\ ~s.composing
      t == IF type = "" THEN s ELSE [s EXCEPT !.events = Append(@, type)]
  IN  IF starts THEN [t EXCEPT !.composing = TRUE, !.start = e.text] ELSE t

(* Mutant: it is not known that the key press has told the space already.  *)
EachSpaceIsTold(s, e) ==
  IF e.type = "keypress" /\ e.key = Space THEN [s EXCEPT !.chars = <<Space>>]
  ELSE IF e.type = "textInput" THEN [s EXCEPT !.chars = e.data] ELSE s

getNativeBeforeInputChars(s, e) ==
  IF e.type = "keypress" /\ e.key = Space THEN [s EXCEPT !.chars = <<Space>>, !.space = TRUE]
  ELSE IF e.type = "textInput" /\ ~(e.data = <<Space>> /\ s.space) THEN [s EXCEPT !.chars = e.data] ELSE s

getFallbackBeforeInputChars(s, e) ==
  IF s.composing
  THEN IF e.type = "compositionend" \/ (~browser.composition /\ isFallbackCompositionEnd(e))
       THEN [s EXCEPT !.chars = getData(s.start, e.text), !.composing = FALSE, !.start = <<>>] ELSE s
  ELSE IF (e.type = "keypress" /\ e.key # "command") \/ (e.type = "compositionend" /\ ~browser.fallback)
  THEN [s EXCEPT !.chars = e.data] ELSE s

BeforeInputChars(s, e) ==
  IF browser.textInput THEN getNativeBeforeInputChars(s, e) ELSE getFallbackBeforeInputChars(s, e)

extractEvents(s, e) ==
  BeforeInputChars(extractCompositionEvent([s EXCEPT !.chars = NoChars, !.events = <<>>], e), e)

(* The next event, for the inner root and the one around it.               *)
DispatchNative ==
  LET e == Head(nativeEvents)
      before == [composing |-> isComposing, start |-> startText, space |-> hasSpaceKeypress, chars |-> NoChars, events |-> <<>>]
      inner == extractEvents(before, e)
      after == IF nested THEN extractEvents(inner, e) ELSE inner
  IN  /\ nativeEvents # <<>> /\ nativeEvents' = Tail(nativeEvents)
      /\ fieldText' = e.text
      /\ isComposing' = after.composing /\ startText' = after.start /\ hasSpaceKeypress' = after.space
      /\ reported' = IF inner.chars = NoChars THEN reported ELSE Append(reported, inner.chars)
      /\ compositions' = compositions \o inner.events
      /\ UNCHANGED <<browser, nested, inserted>>
-----------------------------------------------------------------------------
TextInit ==
  /\ browser \in Browsers /\ nested \in BOOLEAN
  /\ fieldText = <<>> /\ isComposing = FALSE /\ hasSpaceKeypress = FALSE /\ startText = <<>>
  /\ nativeEvents = <<>> /\ inserted = [chars |-> <<>>, silent |-> FALSE] /\ reported = <<>> /\ compositions = <<>>

Chunks == UNION {[1 .. n -> Letters] : n \in 0 .. 2}

TextNext ==
  \/ \E at \in 0 .. Len(fieldText) :
       \/ \E c \in Letters \cup {Space} : TypesLetter(c, at) \/ TypesUnseen(c, at)
       \/ \E chars \in Chunks : \/ Pastes(chars, at)
                                \/ \E ends \in {"keyup", "keydown", "mousedown", "blur"} : Composes(chars, at, ends)
  \/ PressesCommand \/ DispatchNative

TextSpec == TextInit /\ [][TextNext]_textVars
-----------------------------------------------------------------------------
(* What the user types or composes is reported once, whatever events the   *)
(* browser has for it: as many characters as were inserted, which explain  *)
(* the text there is now; what is pasted is not; and a composition starts  *)
(* and ends once.  A space of a keyboard that sends no keypress is lost    *)
(* once there has been a keypress for one.                                 *)
Explains(chars) ==
  \E at \in 0 .. Len(fieldText) - Len(chars) : SubSeq(fieldText, at + 1, at + Len(chars)) = chars

Times(type) == Cardinality({k \in DOMAIN compositions : compositions[k] = type})

TextIsReported ==
  nativeEvents = <<>> =>
    /\ ~isComposing
    /\ reported = <<>> \/ Len(reported) = 1
    /\ reported # <<>> => Len(reported[1]) = Len(inserted.chars) /\ Explains(reported[1])
    /\ reported = <<>> <=> inserted.silent \/ inserted.chars = <<>>
    /\ Times("compositionstart") = Times("compositionend") /\ Times("compositionstart") <= 1
=============================================================================
