------------------------------ MODULE Hydration ------------------------------
(***************************************************************************)
(* ReactFiberHydrationContext.js: the first render of a root adopts the    *)
(* nodes that the server rendered.  Host components and texts claim nodes  *)
(* on the way down; on the way up the nodes that are left are given to be  *)
(* deleted and the search goes on behind the adopted node.  A mismatch     *)
(* makes an insertion; the tree below is made new.  A component may throw  *)
(* into an error boundary, and the render may be thrown away and started   *)
(* again, with another element.                                            *)
(*                                                                         *)
(* Fibers are named by their paths in the element, nodes of the server by  *)
(* their paths in its document.  Texts are sequences of letters.           *)
(***************************************************************************)
EXTENDS Integers, SequencesExt, FiniteSets

CONSTANTS
  Apps,          \* elements [tag, type, text, kids]; the kids of a "boundary" are its child and its fallback
  Documents,     \* sequences of nodes [type, text, kids] in the container
  MaxRestarts

VARIABLES
  app, document,
  html,                 \* [kids, text: functions of the nodes]
  fiber, step,         \* the unit of work, and "begin", "complete" or "committed"
  stateNode, placed, updated, deletions,   \* of the fibers that were reached
  hydration,           \* [parent, next, on]: hydrationParentFiber, nextHydratableInstance, isHydrating
  captured,            \* boundaries that show their fallback
  strayed,             \* history: a boundary captured an error during the hydration
  restarts

hydrationVars ==
  <<app, document, html, fiber, step, stateNode, placed, updated, deletions, hydration, captured, strayed, restarts>>

NoInstance == <<"none", <<>>>>
NoText == <<"no text">>
Made(path) == <<"made", path>>          \* the node that a fiber makes
Served(path) == <<"served", path>>
RootFiber == <<>>
NoFiber == <<0>>
ContainerNode == Served(<<>>)

-----------------------------------------------------------------------------
(* The document, and what the server makes of an element: no node for an   *)
(* empty text, a comment between two texts.                                *)
DocumentNode(path) == FoldLeft(LAMBDA n, k : n.kids[k], [type |-> "#root", text |-> <<>>, kids |-> document], path)

RECURSIVE PathsIn(_, _)
PathsIn(kids, path) == {path} \cup UNION {PathsIn(kids[k].kids, Append(path, k)) : k \in DOMAIN kids}

DomOf(kids) ==
  LET At(path) == FoldLeft(LAMBDA n, k : n.kids[k], [text |-> <<>>, kids |-> kids], path)
      nodes == {Served(p) : p \in PathsIn(kids, <<>>)}
  IN  [kids |-> [n \in nodes |-> [k \in DOMAIN At(n[2]).kids |-> Served(Append(n[2], k))]],
       text |-> [n \in nodes |-> At(n[2]).text]]

DocumentText(t) == [type |-> "#text", text |-> t, kids |-> <<>>]

RECURSIVE ServerMarkup(_)
ServerMarkup(elements) ==
  FoldLeft(LAMBDA made, e :
    made \o (CASE e.tag = "text" -> IF e.text = <<>> THEN <<>>
                                    ELSE IF made # <<>> /\ Last(made).type = "#text"
                                    THEN <<[type |-> "#comment", text |-> <<>>, kids |-> <<>>], DocumentText(e.text)>>
                                    ELSE <<DocumentText(e.text)>>
               [] e.tag = "host" -> <<[type |-> e.type, text |-> <<>>,
                                       kids |-> IF e.text = NoText THEN ServerMarkup(e.kids)
                                                ELSE IF e.text = <<>> THEN <<>> ELSE <<DocumentText(e.text)>>]>>
               [] e.tag = "boundary" -> ServerMarkup(<<e.kids[1]>>)
               [] OTHER -> ServerMarkup(e.kids)), <<>>, elements)

TypeOf(node) == IF node[1] = "made" THEN "#made" ELSE DocumentNode(node[2]).type
Hydratable(nodes) == SelectSeq(nodes, LAMBDA n : TypeOf(n) # "#comment")
getFirstHydratableChild(node) ==
  LET kids == Hydratable(html.kids[node]) IN IF kids = <<>> THEN NoInstance ELSE Head(kids)
getNextHydratableSibling(node) ==
  LET all == Hydratable(html.kids[Served(Front(node[2]))])
      k == SelectInSeq(all, LAMBDA n : n = node)
  IN  IF k \in 1 .. Len(all) - 1 THEN all[k + 1] ELSE NoInstance

RECURSIVE TextContent(_, _)
TextContent(d, node) == d.text[node] \o FoldLeft(LAMBDA t, kid : t \o TextContent(d, kid), <<>>, d.kids[node])

-----------------------------------------------------------------------------
(* Fibers.                                                                 *)
Element(path) == FoldLeft(LAMBDA e, k : e.kids[k], [tag |-> "root", type |-> "", text |-> NoText, kids |-> app], path)
IsTextual(path) == Element(path).tag = "host" /\ Element(path).text # NoText   \* shouldSetTextContent
Children(path) ==
  CASE Element(path).tag = "boundary" -> <<Append(path, IF path \in captured THEN 2 ELSE 1)>>
    [] OTHER -> [k \in DOMAIN Element(path).kids |-> Append(path, k)]
IsHost(path) == Element(path).tag \in {"host", "text"}

RECURSIVE HostsOf(_)
HostsOf(path) ==     \* the nearest hosts below
  FoldLeft(LAMBDA hosts, kid : hosts \o (IF IsHost(kid) THEN <<kid>> ELSE HostsOf(kid)), <<>>, Children(path))

HostParent(path) ==   \* of a fiber other than the root: the host component or the root above it
  LET above == {k \in 0 .. Len(path) - 1 : Element(SubSeq(path, 1, k)).tag \in {"root", "host"}}
  IN  SubSeq(path, 1, CHOOSE k \in above : \A j \in above : j <= k)

NodeOf(path) == IF path = RootFiber THEN ContainerNode ELSE stateNode[path]
-----------------------------------------------------------------------------
canHydrate(node, path) ==
  IF Element(path).tag = "text" THEN Element(path).text # <<>> /\ TypeOf(node) = "#text"
  ELSE TypeOf(node) = Element(path).type

tryToClaimNextHydratableInstance(path) ==
  LET first == hydration.next
      second == getNextHydratableSibling(first)
      Adopt(node) == /\ stateNode' = (path :> node) @@ stateNode
                     /\ hydration' = [parent |-> path, next |-> getFirstHydratableChild(node), on |-> TRUE]
                     /\ UNCHANGED placed
  IN  CASE ~hydration.on -> UNCHANGED <<stateNode, placed, deletions, hydration>>
        [] hydration.on /\ first # NoInstance /\ canHydrate(first, path) -> Adopt(first) /\ UNCHANGED deletions
        [] hydration.on /\ first # NoInstance /\ ~canHydrate(first, path) /\ second # NoInstance /\ canHydrate(second, path) ->
             Adopt(second) /\ deletions' = Append(deletions, <<hydration.parent, first>>)
        [] OTHER -> /\ placed' = placed \cup {path}
                    /\ hydration' = [hydration EXCEPT !.on = FALSE, !.parent = path]
                    /\ UNCHANGED <<stateNode, deletions>>

(* Mutant: the nodes that no child claimed are left where they are.        *)
NoneRemain(path) == <<>>

(* The unclaimed children of an adopted node; head and body may have       *)
(* others, a text content is compared as a whole.                          *)
RECURSIVE FromSibling(_)
FromSibling(node) == IF node = NoInstance THEN <<>> ELSE <<node>> \o FromSibling(getNextHydratableSibling(node))
Remaining(path) ==
  IF Element(path).type \in {"head", "body"} \/ IsTextual(path) THEN <<>> ELSE FromSibling(hydration.next)

WasHydrated(path) == path = hydration.parent /\ hydration.on

popHydrationState(path) ==
  LET parent == IF path = RootFiber THEN NoFiber ELSE HostParent(path)
  IN  CASE path # hydration.parent -> UNCHANGED <<hydration, deletions>>
        [] path = hydration.parent /\ ~hydration.on ->
             hydration' = [hydration EXCEPT !.parent = parent, !.on = TRUE] /\ UNCHANGED deletions
        [] WasHydrated(path) ->
             /\ deletions' = deletions \o [k \in DOMAIN Remaining(path) |-> <<path, Remaining(path)[k]>>]
             /\ hydration' = [parent |-> parent, on |-> TRUE,
                              next |-> IF parent = NoFiber THEN NoInstance ELSE getNextHydratableSibling(stateNode[path])]
-----------------------------------------------------------------------------
(* The unit of work.                                                       *)
Below(path) == {p \in DOMAIN stateNode \cup placed : IsStrictPrefix(path, p)}
Start(path) ==
  /\ fiber' = path
  /\ stateNode' = [p \in DOMAIN stateNode \ Below(path) |-> stateNode[p]]
  /\ placed' = placed \ Below(path) /\ updated' = updated \ Below(path)
  /\ deletions' = SelectSeq(deletions, LAMBDA d : ~IsPrefix(path, d[1]))

GoDown(path) ==
  IF Children(path) # <<>> THEN fiber' = Head(Children(path)) /\ UNCHANGED step
  ELSE step' = "complete" /\ UNCHANGED fiber

BeginRoot ==
  /\ step = "begin" /\ fiber = RootFiber
  /\ hydration' = [parent |-> RootFiber, next |-> getFirstHydratableChild(ContainerNode), on |-> TRUE]
  /\ GoDown(fiber)
  /\ UNCHANGED <<app, document, html, stateNode, placed, updated, deletions, captured, strayed, restarts>>

BeginHost ==
  /\ step = "begin" /\ IsHost(fiber)
  /\ tryToClaimNextHydratableInstance(fiber)
  /\ GoDown(fiber)
  /\ UNCHANGED <<app, document, html, updated, captured, strayed, restarts>>

BeginComponent ==
  /\ step = "begin" /\ Element(fiber).tag \in {"component", "boundary"}
  /\ GoDown(fiber)
  /\ UNCHANGED <<app, document, html, stateNode, placed, updated, deletions, hydration, captured, strayed, restarts>>

(* A component throws: the boundary above begins again, with its fallback; *)
(* the hydration goes on where it was.  Without a boundary the root        *)
(* begins again with a null element, which is what it has, and bails out.  *)
ThrowWhileHydrating ==
  LET boundaries == {k \in 1 .. Len(fiber) - 1 : LET p == SubSeq(fiber, 1, k) IN Element(p).tag = "boundary" /\ p \notin captured}
      boundary == SubSeq(fiber, 1, CHOOSE k \in boundaries : \A j \in boundaries : j <= k)
  IN  /\ step = "begin" /\ Element(fiber).tag = "thrower"
      /\ IF boundaries # {}
         THEN /\ Start(boundary)
              /\ captured' = captured \cup {boundary}
              /\ UNCHANGED <<app, hydration, step>>
         ELSE /\ Start(RootFiber)
              /\ app' = <<>> /\ hydration' = [parent |-> NoFiber, next |-> NoInstance, on |-> FALSE]
              /\ step' = "complete"
              /\ UNCHANGED captured
      /\ strayed' = TRUE
      /\ UNCHANGED <<document, html, restarts>>

GoOn ==
  IF fiber = RootFiber THEN step' = "commit" /\ UNCHANGED fiber
  ELSE LET siblings == Children(Front(fiber))
           k == SelectInSeq(siblings, LAMBDA s : s = fiber)
       IN  IF k < Len(siblings) THEN fiber' = siblings[k + 1] /\ step' = "begin"
           ELSE fiber' = Front(fiber) /\ UNCHANGED step

(* A node is taken from where it is, and put before another one or last.   *)
Placed(kids, parent, node, before) ==
  LET rest == [n \in DOMAIN kids |-> SelectSeq(kids[n], LAMBDA kid : kid # node)]
      k == SelectInSeq(rest[parent], LAMBDA kid : kid = before)
  IN  [rest EXCEPT ![parent] = IF k = 0 THEN Append(@, node) ELSE InsertAt(@, k, node)]

IsDifferent(path) ==
  \/ Element(path).tag = "text" /\ html.text[stateNode[path]] # Element(path).text
  \/ IsTextual(path) /\ TextContent(html, stateNode[path]) # Element(path).text

CreateInstance(path) ==      \* and appendAllChildren
  LET kids == HostsOf(path)
      fresh == (Made(path) :> <<>>) @@ html.kids
      text == IF Element(path).text = NoText THEN <<>> ELSE Element(path).text
  IN  /\ stateNode' = (path :> Made(path)) @@ stateNode
      /\ html' = [kids |-> FoldLeft(LAMBDA d, kid : Placed(d, Made(path), stateNode[kid], NoInstance), fresh, kids),
                 text |-> (Made(path) :> text) @@ html.text]

CompleteHost ==
  /\ step = "complete" /\ IsHost(fiber)
  /\ popHydrationState(fiber)
  /\ IF WasHydrated(fiber)
     THEN updated' = updated \cup {p \in {fiber} : IsDifferent(p)} /\ UNCHANGED <<html, stateNode>>
     ELSE CreateInstance(fiber) /\ UNCHANGED updated
  /\ GoOn
  /\ UNCHANGED <<app, document, placed, captured, strayed, restarts>>

CompleteOther ==
  /\ step = "complete" /\ ~IsHost(fiber)
  /\ IF fiber = RootFiber THEN popHydrationState(fiber) ELSE UNCHANGED <<hydration, deletions>>
  /\ GoOn
  /\ UNCHANGED <<app, document, html, stateNode, placed, updated, captured, strayed, restarts>>

(* The render is given up, and the root begins again.                      *)
Restart ==
  /\ step \in {"begin", "complete"} /\ restarts < MaxRestarts
  /\ app' \in {<<a>> : a \in Apps}
  /\ Start(RootFiber) /\ step' = "begin"
  /\ html' = LET served == {n \in DOMAIN html.kids : n[1] = "served"}
            IN  [kids |-> Restrict(html.kids, served), text |-> Restrict(html.text, served)]
  /\ captured' = {} /\ strayed' = FALSE /\ restarts' = restarts + 1
  /\ UNCHANGED <<document, hydration>>

-----------------------------------------------------------------------------
(* The commit: nodes are deleted, texts changed, insertions placed, in the *)
(* order of the fibers.                                                    *)
getHostSibling(path) ==
  LET hosts == HostsOf(HostParent(path))
      k == SelectInSeq(hosts, LAMBDA h : h = path)
      stable == SelectSeq(SubSeq(hosts, k + 1, Len(hosts)), LAMBDA h : h \notin placed)
  IN  IF stable = <<>> THEN NoInstance ELSE stateNode[Head(stable)]

InsertPlaced(kids, path) == Placed(kids, NodeOf(HostParent(path)), stateNode[path], getHostSibling(path))

Impossible ==     \* removeChild and insertBefore throw when the node is not a child
  \/ \E d \in ToSet(deletions) : ~Contains(html.kids[NodeOf(d[1])], d[2])
  \/ \E p \in placed : getHostSibling(p) # NoInstance /\ ~Contains(html.kids[NodeOf(HostParent(p))], getHostSibling(p))

Commit ==
  /\ step = "commit"
  /\ IF Impossible THEN step' = "broken" /\ UNCHANGED html
     ELSE LET gone == {d[2] : d \in ToSet(deletions)}
              kept == [n \in DOMAIN html.kids |-> IF \E p \in updated : stateNode[p] = n THEN <<>>
                                                ELSE SelectSeq(html.kids[n], LAMBDA kid : kid \notin gone)]
              order == SetToSortSeq(placed, LAMBDA p, q : \E k \in DOMAIN p \cap DOMAIN q :
                                       p[k] < q[k] /\ SubSeq(p, 1, k - 1) = SubSeq(q, 1, k - 1))
          IN  /\ step' = "committed"
              /\ html' = [kids |-> FoldLeft(InsertPlaced, kept, order),
                         text |-> [n \in DOMAIN html.text |->
                                     IF \E p \in updated : stateNode[p] = n
                                     THEN Element(CHOOSE p \in updated : stateNode[p] = n).text ELSE html.text[n]]]
  /\ UNCHANGED <<app, document, fiber, stateNode, placed, updated, deletions, hydration, captured, strayed, restarts>>
-----------------------------------------------------------------------------
HydrationInit ==
  /\ app \in {<<a>> : a \in Apps}
  /\ document \in Documents \cup {ServerMarkup(<<a>>) : a \in Apps}
  /\ html = DomOf(document)
  /\ fiber = RootFiber /\ step = "begin"
  /\ stateNode = <<>> /\ placed = {} /\ updated = {} /\ deletions = <<>>
  /\ hydration = [parent |-> NoFiber, next |-> NoInstance, on |-> FALSE]
  /\ captured = {} /\ strayed = FALSE /\ restarts = 0

HydrationNext ==
  BeginRoot \/ BeginHost \/ BeginComponent \/ ThrowWhileHydrating \/ CompleteHost \/ CompleteOther \/ Restart \/ Commit

HydrationSpec == HydrationInit /\ [][HydrationNext]_hydrationVars
-----------------------------------------------------------------------------
RECURSIVE ShowsFiber(_)
ShowsFiber(path) ==
  LET node == NodeOf(path)
      mine == HostsOf(path)
      nodes == [k \in DOMAIN mine |-> stateNode[mine[k]]]
  IN  IF Element(path).tag = "text" \/ IsTextual(path) THEN TextContent(html, node) = Element(path).text
      ELSE /\ IF Element(path).type \in {"head", "body"}
              THEN SelectSeq(html.kids[node], LAMBDA n : n \in ToSet(nodes)) = nodes
              ELSE Hydratable(html.kids[node]) = nodes
           /\ \A k \in DOMAIN mine : ShowsFiber(mine[k])

RECURSIVE HasEmptyText(_)
HasEmptyText(elements) == \E e \in ToSet(elements) : (e.tag = "text" /\ e.text = <<>>) \/ HasEmptyText(e.kids)

(* After the hydration the document shows the element, whatever the server *)
(* had sent: each fiber has its node, in its place, with its text, and no  *)
(* other nodes are left but those that head and body may have.  When the   *)
(* server had rendered the same element, it is adopted as it is.  An error *)
(* that a boundary captures on the way voids both; see README.             *)
HydrationShowsTheElement ==
  /\ step = "committed" /\ ~strayed =>
       /\ ShowsFiber(RootFiber)
       /\ document = ServerMarkup(app) /\ ~HasEmptyText(app) => html = DomOf(document)
  /\ step = "broken" => strayed

(* The stronger claim, for errors too.                                     *)
HydrationSurvivesErrors == step # "broken" /\ (step = "committed" => ShowsFiber(RootFiber))
=============================================================================
