---------------------------- MODULE DomProperties ----------------------------
(***************************************************************************)
(* One DOM element and its props: what is set when it is created, what is  *)
(* found changed when it is rendered again, and what the commit writes:    *)
(* attributes, properties, styles, listeners, and its content, which is    *)
(* text or HTML of its own, or a child of the reconciler.  Tags with a     *)
(* value to control are in ControlledInputs; `is` never changes.  Every    *)
(* attribute is named in one way, and every style declares one property:   *)
(* a shorthand is not given together with styles that are parts of it.     *)
(* Offscreen: the element has the hidden prop in concurrent mode, so that  *)
(* its children are rendered later.                                        *)
(***************************************************************************)

CONSTANTS PropSets   \* the props of a render: [names -> values], with the style prop apart

VARIABLES
  custom, offscreen, \* what kind of element it is, for good
  memoizedProps,     \* the props committed last
  child,             \* the reconciler has a child
  node,              \* the DOM: [attributes, properties, style, content]; the content is a set: a text, the child
  fiberProps,        \* the props that events see
  listensTo,         \* the events that the document listens to
  lost               \* text overwrote a child that the reconciler still has

elementVars == <<custom, offscreen, memoizedProps, child, node, fiberProps, listensTo, lost>>

(* DOMProperty: the type of a name and its attribute.                      *)
Types == [className |-> "STRING", spellCheck |-> "BOOLEANISH_STRING", disabled |-> "BOOLEAN", muted |-> "BOOLEAN",
          autoFocus |-> "BOOLEAN", download |-> "OVERLOADED_BOOLEAN", rowSpan |-> "NUMERIC", cols |-> "POSITIVE_NUMERIC"]
mustUseProperty == {"muted"}
attributeName(n) == IF ~custom /\ n = "className" THEN "class" ELSE n
acceptsBooleans(n) ==
  IF n \in DOMAIN Types THEN Types[n] \in {"BOOLEANISH_STRING", "BOOLEAN", "OVERLOADED_BOOLEAN"} ELSE n = "aria-label"

Reserved == {"children", "html", "onClick"}   \* what the renderer handles in other ways than as an attribute

(* Names that are never written, and those that look like events.          *)
shouldIgnoreAttribute(n) == n \in {"defaultValue", "innerHTML"} \/ (~custom /\ n = "onunknown")

(* The values that a type takes for none.                                  *)
Removing == [BOOLEAN |-> {"FALSE", "0", "NaN", ""}, OVERLOADED_BOOLEAN |-> {"FALSE"}, NUMERIC |-> {"NaN", "x"},
             POSITIVE_NUMERIC |-> {"NaN", "x", "", "0"}, STRING |-> {}, BOOLEANISH_STRING |-> {}]

shouldRemoveAttribute(n, v) ==
  \/ v \in {"null", "fn"}
  \/ ~custom /\ v \in {"TRUE", "FALSE"} /\ ~acceptsBooleans(n)
  \/ ~custom /\ n \in DOMAIN Types /\ v \in Removing[Types[n]]

attributeValue(n, v) ==
  IF ~custom /\ n \in DOMAIN Types /\ (Types[n] = "BOOLEAN" \/ (Types[n] = "OVERLOADED_BOOLEAN" /\ v = "TRUE")) THEN "" ELSE v

(* setValueForProperty of every name in values: what it makes of the       *)
(* attributes and of the properties.  Each attribute belongs to one prop.  *)
propName(a) == IF ~custom /\ a = "class" THEN "className" ELSE a
isProperty(n) == ~custom /\ n \in mustUseProperty

attributesWith(attributes, values) ==
  LET touched == {n \in DOMAIN values : ~isProperty(n) /\ ~shouldIgnoreAttribute(n)}
      set == {n \in touched : ~shouldRemoveAttribute(n, values[n])}
      names == {attributeName(n) : n \in set}
  IN  [a \in (DOMAIN attributes \ {attributeName(n) : n \in touched}) \cup names |->
         IF a \in names THEN attributeValue(propName(a), values[propName(a)]) ELSE attributes[a]]

propertiesWith(properties, values) ==
  [n \in DOMAIN properties |->
     IF n \notin DOMAIN values \/ ~isProperty(n) THEN properties[n]
     ELSE IF shouldRemoveAttribute(n, values[n]) THEN "FALSE" ELSE values[n]]

SetAll(e, values) ==
  [e EXCEPT !.attributes = attributesWith(@, values), !.properties = propertiesWith(@, values)]

(* "" unsets a style.                                                      *)
dangerousStyleValue(v) == IF v \in {"null", "TRUE", "FALSE"} THEN "" ELSE v

stylesWith(style, styles) ==
  LET value(k) == IF k \in DOMAIN styles THEN dangerousStyleValue(styles[k]) ELSE style[k]
  IN  [k \in {k \in DOMAIN styles \cup DOMAIN style : value(k) # ""} |-> value(k)]

setValueForStyles(e, styles) == [e EXCEPT !.style = stylesWith(@, styles)]

TextNodes(text) == {text} \ {""}
setTextContent(e, text) == [e EXCEPT !.content = TextNodes(text)]
setInnerHTML(e, html) == setTextContent(e, html)

(* Children are "null", "child" or a text, and html is "null" or a text; a *)
(* style prop that is missing or null has no styles.                       *)
Value(ps, n) == IF n \in DOMAIN ps.named THEN ps.named[n] ELSE "null"
NoStyles == [k \in {} |-> ""]
IsText(v) == v \notin {"null", "child"}
shouldSetTextContent(ps) == IsText(Value(ps, "children")) \/ Value(ps, "html") # "null"

-----------------------------------------------------------------------------
(* An element is given a text or a child, or else HTML, as the code        *)
(* asserts (assertValidProps; "child" is no HTML); and its class as        *)
(* className, as the code asks.                                            *)
ASSUME PropsAssumption ==
  \A ps \in PropSets :
    /\ Value(ps, "html") # "null" => Value(ps, "html") # "child" /\ Value(ps, "children") = "null"
    /\ "class" \notin DOMAIN ps.named

Blank == [attributes |-> NoStyles, properties |-> [n \in mustUseProperty |-> "FALSE"], style |-> NoStyles, content |-> {}]

setInitialDOMProperties(e, ps) ==
  LET plain == {n \in DOMAIN ps.named \ (Reserved \cup {"autoFocus"}) : ps.named[n] # "null"}
      styled == setValueForStyles(SetAll(e, [n \in plain |-> ps.named[n]]), ps.style)
  IN  IF Value(ps, "html") # "null" THEN setInnerHTML(styled, Value(ps, "html"))
      ELSE IF IsText(Value(ps, "children")) THEN setTextContent(styled, Value(ps, "children"))
      ELSE styled

(* diffProperties: [some, plain, style, html, children], some if there is  *)
(* a payload at all.  An autoFocus that is dropped is passed over, as it   *)
(* is for a new element; one that is added or changed is not.              *)
styleUpdates(last, next) ==
  LET old == last.style
      new == next.style
  IN  [k \in {k \in DOMAIN old \cup DOMAIN new : k \notin DOMAIN new \/ k \notin DOMAIN old \/ old[k] # new[k]} |->
         IF k \in DOMAIN new THEN new[k] ELSE ""]

diffProperties(last, next) ==
  LET deleted == {n \in DOMAIN last.named \ (DOMAIN next.named \cup Reserved \cup {"autoFocus"}) : last.named[n] # "null"}
      changed == {n \in DOMAIN next.named \ Reserved : next.named[n] # Value(last, n)}
      styles == styleUpdates(last, next)
      html == Value(next, "html") \notin {"null", Value(last, "html")}
      text == IsText(Value(next, "children")) /\ Value(next, "children") # Value(last, "children")
  IN  [some     |-> deleted \cup changed # {} \/ styles # NoStyles \/ html \/ text
                    \/ Value(last, "onClick") # Value(next, "onClick"),
       plain    |-> [n \in deleted \cup changed |-> Value(next, n)],
       style    |-> styles, html |-> html, children |-> text]

(* updateDOMProperties                                                     *)
updateProperties(e, payload, next) ==
  LET set == setValueForStyles(SetAll(e, payload.plain), payload.style)
      filled == IF payload.html THEN setInnerHTML(set, Value(next, "html")) ELSE set
  IN  IF payload.children THEN setTextContent(filled, Value(next, "children")) ELSE filled

-----------------------------------------------------------------------------
(* The children of the element: deletion comes first, and placement before *)
(* the effects of the element itself.                                      *)
ChildOf(ps) == ~shouldSetTextContent(ps) /\ Value(ps, "children") = "child"

withoutChild(e) == [e EXCEPT !.content = @ \ {"child"}]
withChild(e) == [e EXCEPT !.content = @ \cup {"child"}]

(* Mutant: the text goes when it is the element's turn.                    *)
PlacedAtOnce(e, resets) == withChild(e)

commitPlacement(e, resets) == withChild(IF resets THEN setTextContent(e, "") ELSE e)

ContentReset(last, next) == ~shouldSetTextContent(next) /\ shouldSetTextContent(last)

Listens(ps) == IF Value(ps, "onClick") # "null" THEN {"onClick"} ELSE {}   \* ensureListeningTo

(* A render of the element and the commit of what it found.                *)
UpdateElement(next) ==
  LET payload == diffProperties(memoizedProps, next)
      resets == ContentReset(memoizedProps, next)
      keeps == offscreen \/ child = ChildOf(next)
      n1 == IF ~keeps /\ child THEN withoutChild(node) ELSE node
      placed == ~keeps /\ ~child
      n2 == IF placed THEN commitPlacement(n1, resets) ELSE n1
      n3 == IF resets /\ ~placed THEN setTextContent(n2, "") ELSE n2
  IN  /\ child' = IF offscreen THEN child ELSE ChildOf(next)
      /\ node' = IF payload.some THEN updateProperties(n3, payload, next) ELSE n3
      /\ lost' = (lost \/ (child' /\ "child" \notin node'.content))
      /\ fiberProps' = IF payload.some THEN next ELSE fiberProps
      /\ listensTo' = listensTo \cup Listens(next)
      /\ memoizedProps' = next
      /\ UNCHANGED <<custom, offscreen>>

(* The children of an element offscreen, at the level Never.               *)
RenderOffscreen ==
  /\ offscreen /\ child # ChildOf(memoizedProps)
  /\ node' = IF child THEN withoutChild(node) ELSE commitPlacement(node, FALSE)
  /\ child' = ~child
  /\ UNCHANGED <<custom, offscreen, memoizedProps, fiberProps, listensTo, lost>>
-----------------------------------------------------------------------------
Created(ps) ==
  LET e == setInitialDOMProperties(Blank, ps) IN IF ChildOf(ps) THEN withChild(e) ELSE e

ElementInit ==
  /\ custom \in BOOLEAN /\ offscreen \in BOOLEAN
  /\ memoizedProps \in PropSets /\ child = ChildOf(memoizedProps)
  /\ node = Created(memoizedProps) /\ fiberProps = memoizedProps
  /\ listensTo = Listens(memoizedProps)
  /\ lost = FALSE

ElementNext == (\E next \in PropSets : UpdateElement(next)) \/ RenderOffscreen

ElementSpec == ElementInit /\ [][ElementNext]_elementVars
-----------------------------------------------------------------------------
(* Left with the names that a new element may have.                        *)
WithoutAutoFocus(f) == [n \in DOMAIN f \ {"autoFocus"} |-> f[n]]

(* autoFocus is written by updates alone, and stays when it is dropped;    *)
(* but where it is given and written, it is right.                         *)
AutoFocusFits(attributes, ps) ==
  "autoFocus" \in DOMAIN attributes /\ Value(ps, "autoFocus") # "null" =>
    /\ ~shouldRemoveAttribute("autoFocus", Value(ps, "autoFocus"))
    /\ attributes["autoFocus"] = attributeValue("autoFocus", Value(ps, "autoFocus"))

(* However the props came to be what they are, the element is as if it had *)
(* been created with them, but for autoFocus: nothing of earlier props,    *)
(* styles, text or HTML is left and its child is there; and the listener   *)
(* that an event finds is the one rendered last, and the document listens. *)
(* (Only offscreen, a text may overwrite a child whose removal is rendered *)
(* later.)                                                                 *)
ElementShowsProps ==
  /\ ~lost /\ child = ChildOf(memoizedProps) =>
       [node EXCEPT !.attributes = WithoutAutoFocus(@)] = Created(memoizedProps)
  /\ AutoFocusFits(node.attributes, memoizedProps)
  /\ lost => offscreen
  /\ Value(fiberProps, "onClick") = Value(memoizedProps, "onClick")
  /\ Listens(memoizedProps) \subseteq listensTo
=============================================================================
