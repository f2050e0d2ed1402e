--------------------------- MODULE ServerRenderer ---------------------------
(***************************************************************************)
(* ReactPartialRenderer: streams of markup that are read chunk by chunk,   *)
(* with a stack of frames, while the values of contexts are global.  A     *)
(* component may call renderToString while it is rendered, or throw.       *)
(*                                                                         *)
(* An element is a record [kind, value, context, kids]; markup is a        *)
(* sequence of tokens, each of which counts for one byte.                  *)
(***************************************************************************)
EXTENDS Integers, SequencesExt

CONSTANTS
  Requests,       \* the elements that streams are asked for
  NestedElement,  \* the one that components of the kind "nester" give to renderToString
  ContextDefaults,  \* the default value of each context
  MaxStreams, ChunkSizes   \* bounds

VARIABLES
  streams,        \* every renderer there has been
  currentValue,   \* _currentValue of each context
  reading,        \* the calls of read under way, innermost last
  disturbed       \* history: values of a context were seen or left by a renderer they are not for

serverVars == <<streams, currentValue, reading, disturbed>>

NoValue == "none"

NewFrame(type, children, footer) == [type |-> type, children |-> children, footer |-> footer]

NewRenderer(element, static) ==
  [element |-> element, inherited |-> currentValue, makeStaticMarkup |-> static,
   stack |-> <<NewFrame("root", <<element>>, <<>>)>>, exhausted |-> FALSE, failed |-> FALSE,
   currentSelectValue |-> NoValue, previousWasTextNode |-> FALSE,
   contexts |-> <<>>,    \* contextStack and contextValueStack
   out |-> <<>>]

InnermostRead == Last(reading)
Renderer == streams[InnermostRead.stream]
Frame == Last(Renderer.stack)

(* The renderer goes on, with a new top of its stack and more markup.      *)
Goes(renderer, markup) ==
  /\ streams' = [streams EXCEPT ![InnermostRead.stream] = renderer]
  /\ reading' = [reading EXCEPT ![Len(reading)].chunk = @ \o markup]

WantsMore == InnermostRead.toString \/ Len(InnermostRead.chunk) < InnermostRead.bytes
CanGoOn == reading # <<>> /\ Renderer.stack # <<>> /\ WantsMore

Advanced == [Renderer EXCEPT !.stack[Len(Renderer.stack)].children = Tail(@)]
PushFrame(type, children, footer) == [Advanced EXCEPT !.stack = Append(@, NewFrame(type, children, footer))]

(* resolve: components are called until there is an element of another kind. *)
RECURSIVE Resolve(_)
Resolve(e) == IF e.kind = "component" THEN Resolve(Head(e.kids)) ELSE e

Child == Resolve(Head(Frame.children))
CanRender(kinds) == CanGoOn /\ Frame.children # <<>> /\ Child.kind \in kinds
-----------------------------------------------------------------------------
RenderText ==
  LET separated == Renderer.previousWasTextNode /\ ~Renderer.makeStaticMarkup
  IN  /\ CanRender({"text"})
      /\ IF Child.value = "" THEN Goes(Advanced, <<>>)
         ELSE Goes([Advanced EXCEPT !.previousWasTextNode = ~Renderer.makeStaticMarkup],
                   IF separated THEN <<<<"separator">>, <<"text", Child.value>>>>
                   ELSE <<<<"text", Child.value>>>>)
      /\ UNCHANGED <<currentValue, disturbed>>

(* Arrays, fragments, modes, the fallback of a boundary, forwardRef, memo. *)
RenderFragment ==
  /\ CanRender({"fragment"})
  /\ Goes(PushFrame("fragment", Child.kids, <<>>), <<>>)
  /\ UNCHANGED <<currentValue, disturbed>>

RenderConsumer ==
  LET text == [kind |-> "text", value |-> currentValue[Child.context], context |-> NoValue, kids |-> <<>>]
  IN  /\ CanRender({"consumer"})
      /\ Goes(PushFrame("consumer", <<text>>, <<>>), <<>>)
      /\ UNCHANGED <<currentValue, disturbed>>

(* pushProvider *)
Pushed(context) == [context |-> context, previous |-> currentValue[context]]

RenderProvider ==
  /\ CanRender({"provider"})
  /\ Goes([PushFrame("provider", Child.kids, <<>>) EXCEPT !.contexts = Append(@, Pushed(Child.context))], <<>>)
  /\ currentValue' = [currentValue EXCEPT ![Child.context] = Child.value]
  /\ UNCHANGED disturbed

(* renderDOM: elements, those without a closing tag, and select, whose     *)
(* value its options look for.                                             *)
RenderDOM ==
  LET open == IF Child.kind = "option"
              THEN <<"option", Child.value, Renderer.currentSelectValue = Child.value>>
              ELSE <<"open", Child.value>>
      footer == IF Child.kind = "void" THEN <<>> ELSE <<<<"close", Child.kind>>>>
      frame == PushFrame(Child.kind, IF Child.kind = "option" THEN <<>> ELSE Child.kids, footer)
  IN  /\ CanRender({"host", "void", "select", "option"})
      /\ Goes([frame EXCEPT !.previousWasTextNode = FALSE,
                            !.currentSelectValue = IF Child.kind = "select" THEN Child.value ELSE @],
              <<open>>)
      /\ UNCHANGED <<currentValue, disturbed>>

(* A component calls renderToString and then returns its child.            *)
RenderToString ==
  /\ CanRender({"nester"}) /\ Len(streams) < MaxStreams
  /\ streams' = Append([streams EXCEPT ![InnermostRead.stream].stack[Len(Renderer.stack)].children =
                          <<Head(Child.kids)>> \o Tail(@)],
                       NewRenderer(NestedElement, FALSE))
  /\ reading' = Append(reading, [stream |-> Len(streams) + 1, chunk |-> <<>>, bytes |-> 0, toString |-> TRUE])
  /\ UNCHANGED <<currentValue, disturbed>>

(* An error ends the call of read, whose markup is lost; in renderToString *)
(* the component that called it may catch the error.                       *)
Throw(caught) ==
  LET from == IF caught THEN Len(reading) ELSE 1
      failed == {reading[n].stream : n \in from .. Len(reading)}
  IN  /\ CanRender({"thrower"})
      /\ caught => Len(reading) > 1
      /\ streams' = [s \in DOMAIN streams |-> IF s \in failed THEN [streams[s] EXCEPT !.failed = TRUE] ELSE streams[s]]
      /\ reading' = SubSeq(reading, 1, from - 1)
      /\ disturbed' = (disturbed \/ \E s \in failed : streams[s].contexts # <<>>)
      /\ UNCHANGED currentValue

(* Mutant: the context gets its default back.                              *)
RestoreDefault(value, pushed) == [value EXCEPT ![pushed.context] = ContextDefaults[pushed.context]]

RestorePrevious(value, pushed) == [value EXCEPT ![pushed.context] = pushed.previous]

(* All children of the frame are rendered: its footer, and popProvider.    *)
PopFrame ==
  LET provides == Frame.type = "provider"
      popped == [Renderer EXCEPT
                   !.stack = Front(@),
                   !.previousWasTextNode = @ /\ Frame.footer = <<>>,
                   !.currentSelectValue = IF Frame.type = "select" THEN NoValue ELSE @,
                   !.contexts = IF provides THEN Front(@) ELSE @]
  IN  /\ CanGoOn /\ Frame.children = <<>>
      /\ Goes(popped, Frame.footer)
      /\ currentValue' = IF provides THEN RestorePrevious(currentValue, Last(Renderer.contexts)) ELSE currentValue
      /\ UNCHANGED disturbed

ReadEnd ==
  /\ reading # <<>> /\ ~CanGoOn
  /\ streams' = [streams EXCEPT ![InnermostRead.stream].exhausted = WantsMore /\ Renderer.stack = <<>>,
                                ![InnermostRead.stream].out = @ \o InnermostRead.chunk]
  /\ reading' = Front(reading)
  /\ UNCHANGED <<currentValue, disturbed>>
-----------------------------------------------------------------------------
CreateStream(element, static) ==
  /\ reading = <<>> /\ Len(streams) < MaxStreams
  /\ streams' = Append(streams, [NewRenderer(element, static) EXCEPT !.inherited = ContextDefaults])
  /\ UNCHANGED <<currentValue, reading, disturbed>>

(* The destination of the stream asks for more.                            *)
Read(s, bytes) ==
  /\ reading = <<>> /\ ~streams[s].exhausted /\ ~streams[s].failed
  /\ reading' = <<[stream |-> s, chunk |-> <<>>, bytes |-> bytes, toString |-> FALSE]>>
  /\ disturbed' = (disturbed \/ \E t \in DOMAIN streams \ {s} : streams[t].contexts # <<>>)
  /\ UNCHANGED <<streams, currentValue>>

ServerInit ==
  /\ streams = <<>> /\ currentValue = ContextDefaults /\ reading = <<>> /\ disturbed = FALSE

ServerNext ==
  \/ \E e \in Requests, static \in BOOLEAN : CreateStream(e, static)
  \/ \E s \in DOMAIN streams, bytes \in ChunkSizes : Read(s, bytes)
  \/ RenderText \/ RenderFragment \/ RenderConsumer \/ RenderProvider \/ RenderDOM \/ RenderToString
  \/ \E caught \in BOOLEAN : Throw(caught)
  \/ PopFrame \/ ReadEnd

ServerSpec == ServerInit /\ [][ServerNext]_serverVars
-----------------------------------------------------------------------------
(* The markup of an element, under given values of the contexts.           *)
RECURSIVE Markup(_, _, _)
Markup(e, values, select) ==
  LET Kids(vs, sel) == FoldLeft(LAMBDA ts, kid : ts \o Markup(kid, vs, sel), <<>>, e.kids)
  IN  CASE e.kind = "text"     -> IF e.value = "" THEN <<>> ELSE <<<<"text", e.value>>>>
        [] e.kind = "consumer" -> <<<<"text", values[e.context]>>>>
        [] e.kind = "provider" -> Kids([values EXCEPT ![e.context] = e.value], select)
        [] e.kind = "host"     -> <<<<"open", e.value>>>> \o Kids(values, select) \o <<<<"close", "host">>>>
        [] e.kind = "void"     -> <<<<"open", e.value>>>>
        [] e.kind = "select"   -> <<<<"open", e.value>>>> \o Kids(values, e.value) \o <<<<"close", "select">>>>
        [] e.kind = "option"   -> <<<<"option", e.value, select = e.value>>, <<"close", "option">>>>
        [] e.kind = "thrower"  -> <<<<"error">>>>
        [] OTHER               -> Kids(values, select)

(* Two texts in a row would be one node in the browser.                    *)
Separated(tokens) ==
  FoldLeft(LAMBDA ts, t : IF ts # <<>> /\ Last(ts)[1] = "text" /\ t[1] = "text"
                          THEN ts \o <<<<"separator">>, t>> ELSE Append(ts, t), <<>>, tokens)

MarkupOf(r) ==
  LET tokens == Markup(r.element, r.inherited, NoValue)
  IN  IF r.makeStaticMarkup THEN tokens ELSE Separated(tokens)

(* What a stream has written is the beginning of the markup of its element *)
(* and in the end all of it, however it is cut into chunks and whatever is *)
(* rendered inside it: each consumer shows the value of its nearest        *)
(* provider, "we always know which provider needs to be restored to which  *)
(* value" (ReactPartialRenderer.js:769).                                   *)
StreamsShowTheirElements ==
  \A s \in DOMAIN streams :
    /\ IsPrefix(streams[s].out, MarkupOf(streams[s]))
    /\ streams[s].exhausted => streams[s].out = MarkupOf(streams[s])

(* It is so, and the contexts have their defaults again in the end, unless *)
(* a stream is read while another one is inside a provider or has failed   *)
(* there: the values are global.                                           *)
UndisturbedStreamsAreRight ==
  ~disturbed =>
    /\ StreamsShowTheirElements
    /\ reading = <<>> /\ (\A s \in DOMAIN streams : streams[s].contexts = <<>>) => currentValue = ContextDefaults
=============================================================================
