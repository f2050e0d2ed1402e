------------------------------- MODULE Events -------------------------------
(***************************************************************************)
(* The event system: native events are dispatched to the listeners of the  *)
(* fibers around their target, with SyntheticEvents from a pool.  Handlers *)
(* stop the propagation, persist their event, throw, change the listeners  *)
(* (flushSync), and dispatch other events (focus, click) while they run.   *)
(*                                                                         *)
(* A click goes through the two phases; when the mouse goes from one       *)
(* element to another, there are events for leaving and entering as well.  *)
(***************************************************************************)
EXTENDS HostTree

CONSTANTS
  Clickable,       \* what handlers click on
  ListenerSets,    \* sets of <<node, kind>> that may listen
  EVENT_POOL_SIZE,
  MaxDispatches    \* bound: dispatches nested in each other

VARIABLES
  listening,
  objects,       \* SyntheticEvents by number
  eventPool,
  dispatches,    \* the calls of dispatchEvent under way, innermost last
  rethrowError   \* whether an error of a listener waits to be thrown

eventVars == <<listening, objects, eventPool, dispatches, rethrowError>>

Listeners(path, kind) ==
  LET all == [k \in DOMAIN path |-> <<path[k][1], kind>>]
  IN  SelectSeq(all, LAMBDA l : l \in listening)

traverseTwoPhase(i, side) ==
  LET path == Paths[side][i]
  IN  Listeners(Reverse(path), "captured") \o Listeners(path, "bubbled")

(* The part of the path below the common ancestor.                         *)
PathBelow(path, common) ==
  LET at == {k \in DOMAIN path : IsSame(path[k], common)}
  IN  IF at = {} THEN path ELSE SubSeq(path, 1, Min(at) - 1)

traverseEnterLeave(from, to, side) ==
  LET a == Paths[side][from]
      b == Paths[side][to]
      common == getLowestCommonAncestor(a, b)
  IN  [leave |-> Listeners(PathBelow(a, common), "leave"),
       enter |-> Listeners(Reverse(PathBelow(b, common)), "enter")]
-----------------------------------------------------------------------------
(* What is meant: the elements around an element, in the document.         *)
Within[n \in Nodes \cup {NoNode}] ==
  IF n = NoNode THEN {} ELSE {n} \cup Within[IF Parent[n] # NoNode THEN Parent[n] ELSE Around[n]]
InRoot(n) == {m \in Within[n] : Around[m] = Around[n]}
Inwards(nodes, kind) ==
  LET heard == {n \in nodes : <<n, kind>> \in listening}
  IN  [k \in 1 .. Cardinality(heard) |-> <<CHOOSE n \in heard : Cardinality(Within[n] \cap heard) = k, kind>>]

Meant(kind, from, to) ==
  CASE kind = "click" -> Inwards(InRoot(from), "captured") \o Reverse(Inwards(InRoot(from), "bubbled"))
    [] kind = "leave" -> Reverse(Inwards(Within[from] \ Within[to], "leave"))
    [] kind = "enter" -> Inwards(Within[to] \ Within[from], "enter")
    [] OTHER          -> <<>>
-----------------------------------------------------------------------------
Innermost == Last(dispatches)
Executing == Head(Innermost.queue)
Event == objects[Executing.object]
SetInnermost(d) == dispatches' = [dispatches EXCEPT ![Len(dispatches)] = d]

IsRunning == dispatches # <<>> /\ Innermost.running

RECURSIVE Ancestors(_)
Ancestors(n) ==
  IF n = NoNode THEN <<>> ELSE <<n>> \o Ancestors(Around[n])

(* dispatchEvent and the first half of handleTopLevel: the instances that  *)
(* the event is for, one in each root.                                     *)
DispatchEvent(type, target, related) ==
  /\ dispatches = <<>> \/ (IsRunning /\ Len(dispatches) < MaxDispatches /\ type = "click" /\ target \in Clickable)
  /\ type = "click" => related = NoNode
  /\ dispatches' = Append(dispatches,
       [type |-> type, target |-> target, related |-> related,
        ancestors |-> IF target = NoNode THEN <<NoNode>> ELSE Ancestors(target),
        queue |-> <<>>, extracted |-> FALSE, at |-> 1, running |-> FALSE])
  /\ UNCHANGED <<listening, objects, eventPool, rethrowError>>

(* The events of the plugins: [kind, target, listeners].                   *)
SimpleEvents(from, side) ==
  IF Innermost.type = "click"
  THEN <<[kind |-> "click", target |-> from, listeners |-> traverseTwoPhase(Known(from, side), side)]>>
  ELSE <<[kind |-> "out", target |-> from, listeners |-> <<>>]>>

EnterLeaveEvents(from, to, side) ==
  LET entered == traverseEnterLeave(Known(from, side), Known(to, side), side)
  IN  IF Innermost.type = "click" \/ from = to THEN <<>>
      ELSE <<[kind |-> "leave", target |-> from, listeners |-> entered.leave],
             [kind |-> "enter", target |-> to, listeners |-> entered.enter]>>

(* The objects for so many events: what is in the pool, then new ones.     *)
FromPool(count) == Min({count, Len(eventPool)})
GetPooled(count) ==
  LET used == DOMAIN objects
      created == SelectSeq([o \in 1 .. count + Cardinality(used) |-> o], LAMBDA o : o \notin used)
  IN  SubSeq(Reverse(eventPool), 1, FromPool(count)) \o SubSeq(created, 1, count - FromPool(count))

(* extractEvents, for one root; the listeners are collected at once.       *)
Extract(side) ==
  LET from == Head(Innermost.ancestors)
      to == Innermost.related
      events == SimpleEvents(from, side) \o EnterLeaveEvents(from, to, side)
      taken == GetPooled(Len(events))
  IN  /\ dispatches # <<>> /\ Innermost.ancestors # <<>> /\ ~Innermost.extracted
      /\ eventPool' = SubSeq(eventPool, 1, Len(eventPool) - FromPool(Len(events)))
      /\ objects' = [o \in DOMAIN objects \cup ToSet(taken) |->
           IF o \notin ToSet(taken) THEN objects[o]
           ELSE LET e == events[CHOOSE k \in DOMAIN taken : taken[k] = o]
                IN  [target |-> e.target, listeners |-> e.listeners, stopped |-> FALSE, persistent |-> FALSE]]
      /\ SetInnermost([Innermost EXCEPT
           !.extracted = TRUE, !.at = 1,
           !.queue = [k \in DOMAIN events |->
              [object |-> taken[k], target |-> events[k].target, kind |-> events[k].kind,
               meant |-> Meant(events[k].kind, from, to), calls |-> <<>>]]])
      /\ UNCHANGED <<listening, rethrowError>>

HasListeners == Innermost.at <= Len(Event.listeners) /\ ~Event.stopped
CanExecute == dispatches # <<>> /\ Innermost.queue # <<>> /\ ~Innermost.running
IsOver == CanExecute /\ ~HasListeners

executeDispatch ==
  /\ CanExecute /\ HasListeners
  /\ SetInnermost([Innermost EXCEPT !.running = TRUE, !.at = @ + 1,
                                    !.queue[1].calls = Append(@, [listener |-> Event.listeners[Innermost.at], stops |-> FALSE])])
  /\ UNCHANGED <<listening, objects, eventPool, rethrowError>>

(* What a handler may do: stopPropagation, persist, return, throw.         *)
HandlerEnds(stops, persists, throws) ==
  /\ IsRunning
  /\ objects' = [objects EXCEPT ![Executing.object].stopped = @ \/ stops,
                                ![Executing.object].persistent = @ \/ persists]
  /\ SetInnermost([Innermost EXCEPT !.running = FALSE, !.queue[1].calls[Len(Executing.calls)].stops = stops])
  /\ rethrowError' = (rethrowError \/ throws)
  /\ UNCHANGED <<listening, eventPool>>

ListenersChange(listeners) ==
  /\ dispatches = <<>> \/ IsRunning
  /\ listening' = listeners
  /\ UNCHANGED <<objects, eventPool, dispatches, rethrowError>>

(* Mutant: the pool takes every event.                                     *)
AnyEvent(o) == TRUE

MayBeReleased(o) == ~objects[o].persistent

(* executeDispatchesAndRelease: the event is over; one that was persisted  *)
(* is left to its handlers.                                                *)
ReleaseEvent ==
  LET o == Executing.object
      pooled == MayBeReleased(o) /\ Len(eventPool) < EVENT_POOL_SIZE
      cleared == [objects[o] EXCEPT !.target = NoNode, !.listeners = <<>>, !.stopped = FALSE]
  IN  /\ IsOver
      /\ eventPool' = IF pooled THEN Append(eventPool, o) ELSE eventPool
      /\ objects' = [x \in IF pooled THEN DOMAIN objects ELSE DOMAIN objects \ {o} |->
                       IF x = o THEN cleared ELSE objects[x]]
      /\ SetInnermost([Innermost EXCEPT !.queue = Tail(@), !.at = 1])
      /\ UNCHANGED <<listening, rethrowError>>

(* The end of runEventsInBatch: the first error of a listener, if any, is  *)
(* thrown out of dispatchEvent; otherwise it is the turn of the next root. *)
BatchEnd ==
  /\ dispatches # <<>> /\ Innermost.extracted /\ Innermost.queue = <<>>
  /\ IF rethrowError THEN dispatches' = Front(dispatches)
     ELSE SetInnermost([Innermost EXCEPT !.extracted = FALSE, !.ancestors = Tail(@)])
  /\ rethrowError' = FALSE
  /\ UNCHANGED <<listening, objects, eventPool>>

DispatchEnd ==
  /\ dispatches # <<>> /\ Innermost.ancestors = <<>>
  /\ dispatches' = Front(dispatches)
  /\ UNCHANGED <<listening, objects, eventPool, rethrowError>>

EventsInit ==
  /\ listening \in ListenerSets /\ objects = <<>> /\ eventPool = <<>>
  /\ dispatches = <<>> /\ rethrowError = FALSE

EventsNext ==
  \/ \E type \in {"click", "mouse"}, target, related \in Nodes \cup {NoNode} : DispatchEvent(type, target, related)
  \/ \E side \in Sides : Extract(side)
  \/ executeDispatch
  \/ \E stops, persists, throws \in BOOLEAN : HandlerEnds(stops, persists, throws)
  \/ \E listeners \in ListenerSets : ListenersChange(listeners)
  \/ ReleaseEvent \/ BatchEnd \/ DispatchEnd

EventsSpec == EventsInit /\ [][EventsNext]_eventVars
-----------------------------------------------------------------------------
(* The listeners that were called for an event that is over: the ones that *)
(* were there when it was extracted, in order, up to the one that stopped  *)
(* it, if any.                                                             *)
IsRight(e) ==
  LET stops == {k \in DOMAIN e.calls : e.calls[k].stops}
  IN  [k \in DOMAIN e.calls |-> e.calls[k].listener] =
        IF stops = {} THEN e.meant ELSE SubSeq(e.meant, 1, Min(stops))

(* Whether the mouse enters or leaves an element that is in the container  *)
(* of a root inside another one.                                           *)
IsNested(e) ==
  /\ e.kind \in {"leave", "enter"}
  /\ \E n \in {Innermost.target, Innermost.related} \ {NoNode} : Around[n] # NoNode

(* Each listener on the way of an event is called once, in the order of    *)
(* the phases, whatever other listeners do; a handler sees its own event   *)
(* until it returns, or for good if it persists it, though the objects are *)
(* used again; and no error of a listener is left for a later event.       *)
EventsReachTheirListeners ==
  /\ IsOver /\ ~IsNested(Executing) => IsRight(Executing)
  /\ \A d \in ToSet(dispatches) : \A e \in ToSet(d.queue) :
       objects[e.object].target = e.target /\ e.object \notin ToSet(eventPool)
  /\ \A o \in ToSet(eventPool) : ~objects[o].persistent
  /\ IsInjective(eventPool)
  /\ dispatches = <<>> => ~rethrowError

(* "Does not invoke the callback on the nearest common ancestor because    *)
(* nothing "entered" or "left" that element" (ReactTreeTraversal.js:107):  *)
(* nor on any other element that the mouse stays in.                       *)
StayedInIsNotLeft ==
  IsOver /\ Executing.kind \in {"leave", "enter"} =>
    \A call \in ToSet(Executing.calls) :
      call.listener[1] \notin Within[Innermost.target] \cap Within[Innermost.related]
=============================================================================
