------------------------------- MODULE MC_Dom -------------------------------
(***************************************************************************)
(* The components of the renderers, each of which works alone, in one      *)
(* model: the initial state chooses the one that moves.                    *)
(***************************************************************************)
EXTENDS ControlledInputs, ServerRenderer, Events, Responder, HostChildren, NativeProps, DomProperties,
        Hydration, ClassComponent, LegacyContext, SyncSuspense, TextEvents, SelectEvents

CONSTANTS Parts, R1, R2

VARIABLE part

-----------------------------------------------------------------------------
(* ServerRenderer: two requests with providers, text in a row, a select,   *)
(* components that render another tree to a string, and one that throws.   *)
El(kind, value, context, kids) == [kind |-> kind, value |-> value, context |-> context, kids |-> kids]
TextOf(t) == El("text", t, "none", <<>>)
ConsumerOf(c) == El("consumer", "none", c, <<>>)
Thrower == El("thrower", "none", "none", <<>>)
Component(kid) == El("component", "none", "none", <<kid>>)
Nester(kid) == El("nester", "none", "none", <<kid>>)
ProviderOf(c, v, kids) == El("provider", v, c, kids)
Fragment(kids) == El("fragment", "none", "none", kids)
Option(v) == El("option", v, "none", <<>>)
SelectOf(v, kids) == El("select", v, "none", kids)

MCNested == Fragment(<<ConsumerOf("B"), ProviderOf("A", "v1", <<TextOf("a"), Component(ConsumerOf("A"))>>)>>)
MCRequests ==
  {Fragment(<<ConsumerOf("A"),
     ProviderOf("A", "v1", <<TextOf("a"), TextOf(""), ProviderOf("A", "v2", <<ConsumerOf("A")>>), Nester(ConsumerOf("A"))>>),
     El("void", "br", "none", <<>>), TextOf("b"), ConsumerOf("A")>>),
   Component(El("host", "div", "none",
     <<SelectOf("x", <<Fragment(<<Option("x"), Option("y")>>)>>),
       ProviderOf("B", "v2", <<ConsumerOf("B"), Option("x"), Nester(Thrower)>>)>>))}
MCDefaults == [c \in {"A", "B"} |-> "v0"]

-----------------------------------------------------------------------------
(* Events and Responder: 2 and 3 are in 1, and 4 is the root of another    *)
(* tree in a container that is in 2.                                       *)
MCParent == [n \in Nodes |-> IF n \in {2, 3} THEN 1 ELSE NoNode]
MCAround == [n \in Nodes |-> IF n = 4 THEN 2 ELSE NoNode]
MCListenerSets ==
  {{<<1, "captured">>, <<1, "bubbled">>, <<2, "bubbled">>, <<1, "leave">>, <<2, "leave">>, <<3, "enter">>,
    <<4, "bubbled">>, <<4, "enter">>},
   {<<2, "captured">>, <<1, "enter">>}}

-----------------------------------------------------------------------------
(* NativeProps: styles with up to two keys, nested once.                   *)
Leaves ==
  {NoStyle} \cup {Leaf(f) : f \in {<<>>, "a" :> "1", "a" :> "2", ("a" :> "1") @@ ("b" :> "1"), "b" :> "2"}}
MCStyles ==
  Leaves \cup {Array(s) : s \in {<<>>} \cup (Leaves \X Leaves) \cup
                                (Leaves \X {Leaf("a" :> "1"), NoStyle} \X {Leaf("a" :> "2")})}
MCAttributes == {<<>>, "x" :> "1", "x" :> "u"}

-----------------------------------------------------------------------------
(* DomProperties: each kind of prop with its values.                       *)
Some(ns, vs) == UNION {[d -> vs] : d \in SUBSET ns}
Named ==
  Some({"className"}, {"null", "x"}) \cup Some({"muted"}, {"null", "TRUE", "x"}) \cup Some({"disabled", "download"}, {"TRUE", "x"})
  \cup Some({"rowSpan"}, {"NaN", "1"}) \cup Some({"cols"}, {"0", "1"}) \cup Some({"spellCheck"}, {"TRUE", "FALSE"})
  \cup Some({"title"}, {"fn", "x", "TRUE"}) \cup Some({"onClick"}, {"f", "g", "null"})
  \cup Some({"autoFocus"}, {"TRUE", "FALSE", "null"}) \cup {[n \in {"innerHTML", "onunknown"} |-> "x"]}
  \cup {("children" :> c) @@ p : c \in {"null", "child", "a", ""}, p \in {<<>>, "onClick" :> "f"}}
  \cup Some({"html"}, {"a", "b"})
MCPropSets ==
  {[named |-> n, style |-> NoStyles] : n \in Named} \cup
  {[named |-> <<>>, style |-> f] : f \in Some({"top", "left"}, {"1", ""}) \cup Some({"top"}, {"2"})}
  \cup {[named |-> "className" :> "x", style |-> "top" :> "1"]}

-----------------------------------------------------------------------------
(* Hydration: adjacent, nested and empty texts, components between hosts,  *)
(* a boundary whose child throws below an adopted or an inserted host; and *)
(* documents that fit some of them in part, besides those that fit one.    *)
HostEl(type, text, kids) == [tag |-> "host", type |-> type, text |-> text, kids |-> kids]
OtherEl(tag, text, kids) == [tag |-> tag, type |-> "", text |-> text, kids |-> kids]
TextEl(t) == OtherEl("text", t, <<>>)
Group(kids) == OtherEl("component", NoText, kids)
TextA == <<"a">>
TextB == <<"b">>
MCApps ==
  {HostEl("div", NoText, <<TextEl(TextA), TextEl(TextB), HostEl("p", NoText, <<>>), TextEl(<<>>)>>),
   Group(<<HostEl("p", NoText, <<TextEl(TextA)>>),
           Group(<<HostEl("div", NoText, <<HostEl("p", TextA, <<>>),
                                           HostEl("p", NoText, <<TextEl(TextB), HostEl("div", NoText, <<>>)>>)>>)>>),
           TextEl(TextB)>>),
   Group(<<HostEl("body", NoText, <<TextEl(TextA), HostEl("p", TextB, <<>>)>>)>>),
   HostEl("div", <<>>, <<>>),
   HostEl("div", NoText,
     <<OtherEl("boundary", NoText,
         <<Group(<<HostEl("p", NoText, <<TextEl(TextA), OtherEl("thrower", NoText, <<>>)>>)>>), HostEl("p", TextB, <<>>)>>),
       TextEl(TextB)>>),
   Group(<<HostEl("p", NoText, <<>>), OtherEl("thrower", NoText, <<>>)>>)}

NodeEl(type, kids) == [type |-> type, text |-> <<>>, kids |-> kids]
CommentEl == NodeEl("#comment", <<>>)
MCDocuments ==
  {<<>>,
   <<DocumentText(TextB),
     NodeEl("div", <<NodeEl("p", <<NodeEl("div", <<DocumentText(TextA)>>)>>), DocumentText(TextA), CommentEl, DocumentText(TextA)>>),
     NodeEl("p", <<>>)>>,
   <<NodeEl("p", <<NodeEl("div", <<>>), DocumentText(TextA)>>), CommentEl, DocumentText(TextA),
     NodeEl("div", <<DocumentText(TextA), NodeEl("p", <<>>)>>),
     NodeEl("body", <<NodeEl("p", <<>>), NodeEl("div", <<>>), DocumentText(TextA)>>)>>}

-----------------------------------------------------------------------------
(* ClassComponent and LegacyContext: in the first chain no element of a    *)
(* provider is made anew, in the second a component refuses to update.     *)
Kind(update, derives, snapshot, wills) == [update |-> update, derives |-> derives, snapshot |-> snapshot, wills |-> wills]
MCKinds == {Kind("always", FALSE, FALSE, TRUE), Kind("pure", TRUE, TRUE, TRUE), Kind("never", FALSE, TRUE, FALSE)}
Link(gives, reads, blocks, constant) == [gives |-> gives, reads |-> reads, blocks |-> blocks, constant |-> constant]
MCChains ==
  {<<Link("a", FALSE, FALSE, FALSE), Link("none", FALSE, FALSE, TRUE), Link("b", TRUE, FALSE, TRUE), Link("none", TRUE, FALSE, TRUE)>>,
   <<Link("a", FALSE, FALSE, FALSE), Link("a", TRUE, FALSE, FALSE), Link("b", FALSE, TRUE, TRUE), Link("none", TRUE, FALSE, FALSE)>>}

-----------------------------------------------------------------------------
(* SyncSuspense: each type a component may have, with defaults that the    *)
(* type itself or the type it wraps may have.                              *)
ComponentOf(kind, inner, compares, default, innerDefault, lazily) ==
  [kind |-> kind, inner |-> inner, compares |-> compares, default |-> default, innerDefault |-> innerDefault, lazy |-> lazily]
MCComponents ==
  {ComponentOf(k, k, FALSE, "d", "u", l) : k \in {"function", "class", "pure", "forward"}, l \in BOOLEAN}
  \cup {ComponentOf("factory", "factory", FALSE, "d", "u", FALSE)}
  \cup {ComponentOf("memo", k, c, "d", i, l) : k \in {"function", "pure", "forward"}, c \in BOOLEAN, i \in {"u", "e"}, l \in BOOLEAN}

(* TextEvents: browsers with all events, without textInput, with events    *)
(* whose data are not to be relied on, and without composition events.     *)
Browser(composition, textInput, fallback) == [composition |-> composition, textInput |-> textInput, fallback |-> fallback]
MCBrowsers ==
  {Browser(TRUE, TRUE, FALSE), Browser(TRUE, FALSE, FALSE), Browser(TRUE, FALSE, TRUE), Browser(FALSE, FALSE, TRUE)}

-----------------------------------------------------------------------------
(* One value of the variables that another part leaves alone.              *)
DomInit ==
  /\ part \in Parts
  /\ part # "inputs" => mode = [controlled |-> TRUE, concurrent |-> TRUE]
  /\ part # "events" => listening = CHOOSE ls \in ListenerSets : TRUE
  /\ part # "children" => host = "dom"
  /\ part # "hydration" => document = <<>> /\ app = <<CHOOSE a \in Apps : TRUE>>
  /\ part # "element" => custom = FALSE /\ offscreen = FALSE /\ memoizedProps = CHOOSE ps \in PropSets : TRUE
  /\ part # "class" => component = CHOOSE k \in ComponentKinds : TRUE
  /\ part # "context" => chain = CHOOSE c \in Chains : TRUE
  /\ part # "types" => componentType = CHOOSE c \in Components : TRUE
  /\ part # "text" => browser = (CHOOSE b \in Browsers : TRUE) /\ nested = FALSE
  /\ part # "selection" => hearsSelection = TRUE
  /\ HydrationInit /\ InputsInit /\ ServerInit /\ EventsInit /\ ResponderInit /\ HostInit /\ NativeInit /\ ElementInit
  /\ ClassInit /\ ContextInit /\ SuspenseInit /\ TextInit /\ SelectInit

DomNext ==
  \/ part = "inputs" /\ InputsNext
     /\ UNCHANGED <<part, serverVars, eventVars, responderVars, hostVars, nativeVars,
                   elementVars, hydrationVars, classVars, contextVars, suspenseVars, textVars, selectVars>>
  \/ part = "server" /\ ServerNext
     /\ UNCHANGED <<part, inputVars, eventVars, responderVars, hostVars, nativeVars,
                   elementVars, hydrationVars, classVars, contextVars, suspenseVars, textVars, selectVars>>
  \/ part = "events" /\ EventsNext
     /\ UNCHANGED <<part, inputVars, serverVars, responderVars, hostVars, nativeVars,
                   elementVars, hydrationVars, classVars, contextVars, suspenseVars, textVars, selectVars>>
  \/ part = "responder" /\ ResponderNext
     /\ UNCHANGED <<part, inputVars, serverVars, eventVars, hostVars, nativeVars,
                   elementVars, hydrationVars, classVars, contextVars, suspenseVars, textVars, selectVars>>
  \/ part = "children" /\ HostNext
     /\ UNCHANGED <<part, inputVars, serverVars, eventVars, responderVars, nativeVars,
                   elementVars, hydrationVars, classVars, contextVars, suspenseVars, textVars, selectVars>>
  \/ part = "native" /\ NativeNext
     /\ UNCHANGED <<part, inputVars, serverVars, eventVars, responderVars, hostVars,
                   elementVars, hydrationVars, classVars, contextVars, suspenseVars, textVars, selectVars>>
  \/ part = "element" /\ ElementNext
     /\ UNCHANGED <<part, inputVars, serverVars, eventVars, responderVars, hostVars,
                   nativeVars, hydrationVars, classVars, contextVars, suspenseVars, textVars, selectVars>>
  \/ part = "hydration" /\ HydrationNext
     /\ UNCHANGED <<part, inputVars, serverVars, eventVars, responderVars, hostVars,
                   nativeVars, elementVars, classVars, contextVars, suspenseVars, textVars, selectVars>>
  \/ part = "class" /\ ClassNext
     /\ UNCHANGED <<part, inputVars, serverVars, eventVars, responderVars, hostVars,
                   nativeVars, elementVars, hydrationVars, contextVars, suspenseVars, textVars, selectVars>>
  \/ part = "context" /\ ContextNext
     /\ UNCHANGED <<part, inputVars, serverVars, eventVars, responderVars, hostVars,
                   nativeVars, elementVars, hydrationVars, classVars, suspenseVars, textVars, selectVars>>
  \/ part = "types" /\ SuspenseNext
     /\ UNCHANGED <<part, inputVars, serverVars, eventVars, responderVars, hostVars,
                   nativeVars, elementVars, hydrationVars, classVars, contextVars, textVars, selectVars>>
  \/ part = "text" /\ TextNext
     /\ UNCHANGED <<part, inputVars, serverVars, eventVars, responderVars, hostVars,
                   nativeVars, elementVars, hydrationVars, classVars, contextVars, suspenseVars, selectVars>>
  \/ part = "selection" /\ SelectNext
     /\ UNCHANGED <<part, inputVars, serverVars, eventVars, responderVars, hostVars,
                   nativeVars, elementVars, hydrationVars, classVars, contextVars, suspenseVars, textVars>>

DomVars == <<part, inputVars, serverVars, eventVars, responderVars, hostVars, nativeVars,
             elementVars, hydrationVars, classVars, contextVars, suspenseVars, textVars, selectVars>>

DomSpec == DomInit /\ [][DomNext]_DomVars

(* After each commit every host shows what was rendered: its children in   *)
(* order, the attributes of a native view, those of an element but for     *)
(* autoFocus, and what a component of any type makes of the props it was   *)
(* given. (The parts that do not move stay in their initial states.)       *)
HostsShowWhatWasRendered ==
  /\ part = "children" => HostShowsTree
  /\ part = "native" => NativeShowsProps
  /\ part = "element" => ElementShowsProps
  /\ part = "types" => ComponentShowsItsProps

(* Listeners of all roots are called, in order, and of the events made of  *)
(* others they get those that tell what the user typed and selected.       *)
EventsAreDelivered ==
  /\ part = "events" => EventsReachTheirListeners
  /\ part = "text" => TextIsReported
  /\ part = "selection" => SelectionIsReported
=============================================================================
