---------------------------- MODULE ClassComponent ----------------------------
(***************************************************************************)
(* One class component through renders that are interrupted, repeated      *)
(* after an error in its children, and committed: ReactFiberClassComponent *)
(* with the lifecycles of the commit phase.  The instance is shared by the *)
(* attempts; the effects of a commit must not depend on those given up.    *)
(* Props and states are objects [v, id]: v stands for the content that     *)
(* shallowEqual compares, id for the identity.                             *)
(***************************************************************************)
EXTENDS Integers, SequencesExt, FiniteSets

CONSTANTS
  ComponentKinds,    \* [update: "always", "pure" or "never", derives, snapshot, wills: BOOLEAN]
  ClassLevels,       \* of updates and renders
  SetContents,       \* of the states that updates set
  MaxSets, MaxAttempts

VARIABLES
  component,      \* the kind
  instance,       \* [props, state, snapshot], or NoInstanceYet
  shown,          \* the current fiber: [props, state, base, queue], or NotMounted
  wip,            \* the work in progress, of the same form and [level, effects, again, captured, rendered], or NotMounted
  sets, attempts,
  heard           \* history: what the commit that was the last step called, and about what

classVars == <<component, instance, shown, wip, sets, attempts, heard>>

Contents == 0 .. 1
ErrorContent == 2
NotMounted == [props |-> <<>>]
NoInstanceYet == [props |-> <<>>]
Silence == [called |-> "nothing"]

(* A new object, which is none of those that are in use.                   *)
InUse == UNION {{f.props, f.state, f.base} : f \in {shown, wip} \ {NotMounted}}
Fresh(v, others) ==
  [v |-> v, id |-> CHOOSE i \in 0 .. Cardinality(others) : /\ [v |-> v, id |-> i] \notin others
                                                           /\ \A j \in 0 .. i - 1 : [v |-> v, id |-> j] \in others]

Update(level, v, force) == [level |-> level, v |-> v, force |-> force]
Keeps == -1       \* the payload of an update that leaves the state as it is

-----------------------------------------------------------------------------
DueUpdates(queue, level) == SelectSeq(queue, LAMBDA u : u.level <= level)
FirstSkipped(queue, level) == SelectInSeq(queue, LAMBDA u : u.level > level)
Applied(base, us) == FoldLeft(LAMBDA state, u : IF u.v = Keeps THEN state ELSE Fresh(u.v, InUse \cup {state}), base, us)

(* processUpdateQueue, with the update of a captured error as the last     *)
(* one: what was skipped is left with all that follows.                    *)
Process(fiber, level) ==
  LET due == DueUpdates(fiber.queue, level)
      applied == Applied(fiber.base, due)
      state == IF fiber.again THEN Fresh(ErrorContent, InUse \cup {applied}) ELSE applied
      skipped == FirstSkipped(fiber.queue, level)
  IN  [state |-> state,
       forced |-> \E u \in ToSet(due) : u.force,
       base  |-> IF skipped = 0 THEN state ELSE Applied(fiber.base, SubSeq(fiber.queue, 1, skipped - 1)),
       queue |-> IF skipped = 0 THEN <<>> ELSE SubSeq(fiber.queue, skipped, Len(fiber.queue))]

(* getDerivedStateFromProps of the component.                              *)
Derived(props, state) ==
  IF component.derives /\ state.v \notin {props.v, ErrorContent} THEN Fresh(props.v, InUse \cup {state}) ELSE state

(* applyDerivedStateFromProps: also the base, once the queue is empty.     *)
applyDerived(p, props) ==
  LET state == Derived(props, p.state)
  IN  [p EXCEPT !.state = state, !.base = IF component.derives /\ p.queue = <<>> THEN state ELSE p.base]

checkShouldComponentUpdate(oldProps, newProps, oldState, newState) ==
  CASE component.update = "never"  -> FALSE
    [] component.update = "pure"   -> oldProps.v # newProps.v \/ oldState.v # newState.v
    [] component.update = "always" -> TRUE

Wills == component.wills /\ ~component.derives /\ ~component.snapshot
Effects == {"Update"} \cup (IF component.snapshot THEN {"Snapshot"} ELSE {})

-----------------------------------------------------------------------------
(* constructClassInstance and mountClassInstance, whose componentWillMount *)
(* sets the state to the content of the props.                             *)
BeginMount(level) ==
  LET props == [v |-> 1, id |-> 0]
      initial == [v |-> 0, id |-> 0]
      fiber == [props |-> props, state |-> initial, base |-> initial, queue |-> <<>>, level |-> level,
                effects |-> {"Update"}, again |-> FALSE, captured |-> FALSE, rendered |-> TRUE]
      p == applyDerived([state |-> initial, base |-> initial, queue |-> <<>>], props)
      q == IF Wills THEN Process([fiber EXCEPT !.queue = <<Update(level, props.v, FALSE)>>], level) ELSE p
  IN  /\ shown = NotMounted /\ wip = NotMounted /\ level = Max(ClassLevels)     \* all levels are the same here
      /\ wip' = [fiber EXCEPT !.state = q.state, !.base = q.base]
      /\ instance' = [props |-> props, state |-> q.state, snapshot |-> <<>>]
      /\ attempts' = attempts + 1
      /\ heard' = Silence /\ UNCHANGED <<component, shown, sets>>

(* resumeMountClassInstance: the children threw, and the instance is there *)
(* without a current fiber.  What componentWillMount sets this time stays  *)
(* in the queue.                                                           *)
ResumeMount ==
  LET p == Process(wip, wip.level)
      same == wip.state = p.state /\ ~p.forced
      q == IF same THEN p ELSE applyDerived(p, wip.props)
      should == ~same /\ (p.forced \/ checkShouldComponentUpdate(wip.props, wip.props, wip.state, q.state))
      set == IF Wills /\ should THEN <<Update(wip.level, wip.props.v, FALSE)>> ELSE <<>>
  IN  /\ shown = NotMounted /\ wip # NotMounted /\ wip.again
      /\ wip' = [wip EXCEPT !.state = q.state, !.base = q.base, !.queue = q.queue \o set, !.again = FALSE, !.rendered = TRUE,
                            !.effects = @ \cup {"Update"}]
      /\ instance' = [instance EXCEPT !.props = wip.props, !.state = q.state]
      /\ heard' = Silence /\ UNCHANGED <<component, shown, sets, attempts>>

(* Mutant: what an attempt before has changed is not looked at.            *)
AsInTheLast(fiber) == {}

(* An update was already in progress: its effects are due all the same.    *)
EffectsUnderWay(fiber) == IF fiber.props # shown.props \/ fiber.state # shown.state THEN Effects ELSE {}

(* updateClassInstance and finishClassComponent.  The parent renders with  *)
(* the same props or with new ones; componentWillReceiveProps sets the     *)
(* state, in both queues.                                                  *)
UpdateInstance(fiber, props, contextChanged) ==
  LET received == IF Wills /\ fiber.props # props THEN <<Update(fiber.level, props.v, FALSE)>> ELSE <<>>
      old == [fiber EXCEPT !.queue = @ \o received]
      p == Process(old, fiber.level)
      same == old.props = props /\ old.state = p.state /\ ~contextChanged /\ ~p.forced
      q == IF same THEN p ELSE applyDerived(p, props)
      should == ~same /\ (p.forced \/ checkShouldComponentUpdate(old.props, props, old.state, q.state))
  IN  /\ wip' = [old EXCEPT !.props = props, !.state = q.state, !.base = q.base, !.queue = q.queue, !.again = FALSE,
                            !.rendered = @ \/ should \/ fiber.again,
                            !.effects = @ \cup (IF should THEN Effects ELSE EffectsUnderWay(old))]
      /\ instance' = [instance EXCEPT !.props = props, !.state = q.state]
      /\ shown' = [shown EXCEPT !.queue = @ \o received]

BeginUpdate(level, props, contextChanged) ==
  /\ shown # NotMounted /\ wip = NotMounted
  /\ props # shown.props \/ contextChanged \/ \E u \in ToSet(shown.queue) : u.level <= level
  /\ UpdateInstance([props |-> shown.props, state |-> shown.state, base |-> shown.base, queue |-> shown.queue,
                     level |-> level, effects |-> {}, again |-> FALSE, captured |-> FALSE, rendered |-> FALSE],
                    props, contextChanged)
  /\ attempts' = attempts + 1
  /\ heard' = Silence /\ UNCHANGED <<component, sets>>

UpdateAgain ==
  /\ shown # NotMounted /\ wip # NotMounted /\ wip.again
  /\ UpdateInstance(wip, wip.props, FALSE)
  /\ heard' = Silence /\ UNCHANGED <<component, sets, attempts>>

(* The component bails out, and only its children have work, which may     *)
(* throw.                                                                  *)
BeginChildren(level) ==
  /\ shown # NotMounted /\ wip = NotMounted
  /\ ~\E u \in ToSet(shown.queue) : u.level <= level
  /\ wip' = [props |-> shown.props, state |-> shown.state, base |-> shown.base, queue |-> shown.queue,
             level |-> level, effects |-> {}, again |-> TRUE, captured |-> TRUE, rendered |-> FALSE]
  /\ attempts' = attempts + 1
  /\ heard' = Silence /\ UNCHANGED <<component, instance, shown, sets>>

ChildThrows ==
  /\ wip # NotMounted /\ ~wip.captured
  /\ wip' = [wip EXCEPT !.again = TRUE, !.captured = TRUE]
  /\ heard' = Silence /\ UNCHANGED <<component, instance, shown, sets, attempts>>

(* The render is given up; a new instance is lost with its fiber.          *)
Interrupt ==
  /\ wip # NotMounted
  /\ wip' = NotMounted
  /\ instance' = IF shown = NotMounted THEN NoInstanceYet ELSE instance
  /\ heard' = Silence /\ UNCHANGED <<component, shown, sets, attempts>>

(* classComponentUpdater, at any time once it is mounted.                  *)
EnqueueSetState(u) ==
  LET Queued(f) == IF f = NotMounted THEN f ELSE [f EXCEPT !.queue = Append(@, u)]
  IN  /\ shown # NotMounted /\ sets < MaxSets
      /\ shown' = Queued(shown) /\ wip' = Queued(wip)
      /\ sets' = sets + 1
      /\ heard' = Silence /\ UNCHANGED <<component, instance, attempts>>

-----------------------------------------------------------------------------
(* commitBeforeMutationLifeCycles and commitLifeCycles of the component.   *)
CommitClass ==
  LET was == IF shown = NotMounted THEN <<>> ELSE <<shown.props, shown.state>>
      snapshot == IF "Snapshot" \in wip.effects /\ shown # NotMounted THEN was ELSE instance.snapshot
      calls == IF "Update" \notin wip.effects THEN "none" ELSE IF shown = NotMounted THEN "didMount" ELSE "didUpdate"
  IN  /\ wip # NotMounted /\ ~wip.again
      /\ shown' = [props |-> wip.props, state |-> wip.state, base |-> wip.base, queue |-> wip.queue]
      /\ wip' = NotMounted
      /\ instance' = IF wip.effects # {} \/ sets > 0
                     THEN [props |-> wip.props, state |-> wip.state, snapshot |-> snapshot] ELSE instance
      /\ heard' = [called |-> calls, was |-> was, snapshot |-> snapshot, changed |-> was # <<>> /\ wip.props # was[1],
                   rendered |-> wip.rendered, captured |-> wip.captured]
      /\ UNCHANGED <<component, sets, attempts>>
-----------------------------------------------------------------------------
ClassInit ==
  /\ component \in ComponentKinds
  /\ instance = NoInstanceYet /\ shown = NotMounted /\ wip = NotMounted
  /\ sets = 0 /\ attempts = 0
  /\ heard = Silence

ClassNext ==
  \/ /\ attempts < MaxAttempts
     /\ \E level \in ClassLevels :
          \/ BeginMount(level)
          \/ BeginChildren(level)
          \/ BeginUpdate(level, shown.props, TRUE)
          \/ \E props \in {shown.props} \cup {Fresh(v, {shown.props}) : v \in Contents} : BeginUpdate(level, props, FALSE)
  \/ ResumeMount \/ UpdateAgain \/ ChildThrows \/ Interrupt \/ CommitClass
  \/ \E level \in ClassLevels, v \in SetContents \cup {Keeps} : EnqueueSetState(Update(level, v, v = Keeps))

ClassSpec == ClassInit /\ [][ClassNext]_classVars
-----------------------------------------------------------------------------
(* A commit calls componentDidMount when it is the first, whatever was     *)
(* attempted before; componentDidUpdate when the component rendered anew   *)
(* or, after an error in its children, when its props changed, and never   *)
(* when it was left as it was; with the snapshot of the same commit.  And  *)
(* the state that is shown is derived from the props that are shown.       *)
CommitsAreHeard ==
  /\ heard.called # "nothing" =>
       /\ heard.called = "didMount" <=> heard.was = <<>>
       /\ heard.called = "none" => ~heard.changed \/ ~heard.rendered
       /\ heard.called = "none" /\ heard.rendered => heard.captured /\ component.update # "always"
       /\ heard.called = "didUpdate" => heard.rendered /\ (component.snapshot => heard.snapshot = heard.was)
  /\ shown # NotMounted /\ component.derives => shown.state.v \in {shown.props.v, ErrorContent}
=============================================================================
