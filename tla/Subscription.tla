---------------------------- MODULE Subscription ----------------------------
(***************************************************************************)
(* The component of create-subscription: it shows the value of a source    *)
(* that changes on its own, while renders are asynchronous, thrown away,   *)
(* and repeated by priority.  Some sources (promises) cannot be            *)
(* unsubscribed from and go on calling.                                    *)
(***************************************************************************)
EXTENDS Integers, SequencesExt

CONSTANTS Sources, Stubborn, NoSource, MaxChanges, MaxPendingUpdates

ASSUME SubscriptionAssumption == NoSource \notin Sources /\ MaxChanges \in Nat

VARIABLES
  external,     \* the current value of each source
  life,         \* of the component: "new", "mounted", "gone"
  shownState,   \* this.state of the tree on the screen; its source is that of this.props too
  baseState,    \* of the update queue
  updates,      \* the queue: [kind, source, value, urgent]
  rendered,     \* a render that is complete and not committed yet: a sequence of at most one
  listeners,    \* the sources that call back
  switchedOver  \* history: the source changed while updates were left out of the render

subscriptionVars == <<external, life, shownState, baseState, updates, rendered, listeners,
                      switchedOver>>

CurrentValue(s) == IF s = NoSource THEN 0 ELSE external[s]
FromSource(s) == [source |-> s, value |-> CurrentValue(s)]

(* The function given to setState by a callback checks its source; the     *)
(* plain value of subscribe always applies.  Either replaces the value     *)
(* only: of the updates at some places of a queue the last one counts.     *)
AppliesTo(state, u) == u.kind = "set" \/ u.source = state.source

ApplyAll(state, us, places) ==
  LET those == {i \in places : AppliesTo(state, us[i])}
  IN  IF those = {} THEN state ELSE [state EXCEPT !.value = us[Max(those)].value]

getDerivedStateFromProps(s, state) == IF s # state.source THEN FromSource(s) ELSE state

(* A render with the source s of all updates, or of the urgent ones: the   *)
(* first one left out and those behind it are applied again later.         *)
RenderSubscription(s, all) ==
  LET late == {i \in DOMAIN updates : ~all /\ ~updates[i].urgent}
      before == IF late = {} THEN Len(updates) ELSE Min(late) - 1    \* those before the first one left out
      applied == {i \in DOMAIN updates : all \/ updates[i].urgent}
      state == IF life = "new" THEN FromSource(s)
               ELSE getDerivedStateFromProps(s, ApplyAll(baseState, updates, applied))
  IN  /\ life # "gone"
      /\ rendered' = <<[state |-> state, seen |-> Len(updates), rest |-> SubSeq(updates, before + 1, Len(updates)),
                        base |-> IF late = {} THEN state
                                 ELSE ApplyAll(baseState, updates, 1 .. before)]>>
      /\ UNCHANGED <<external, life, shownState, baseState, updates, listeners, switchedOver>>

ThrowAway == /\ rendered # <<>> /\ rendered' = <<>>
             /\ UNCHANGED <<external, life, shownState, baseState, updates, listeners, switchedOver>>

Unsubscribed(ls, s) == IF s \in Stubborn THEN ls ELSE ls \ {s}

(* Mutant: what changed before the subscription is not noticed.            *)
SubscribedOnly(state) == <<>>

(* subscribe: a change between the render and the commit called nobody.    *)
CatchUp(state) ==
  IF state.source = NoSource \/ state.value = CurrentValue(state.source) THEN <<>>
  ELSE <<[kind |-> "set", source |-> state.source, value |-> CurrentValue(state.source), urgent |-> TRUE]>>

(* componentDidMount, componentDidUpdate                                   *)
CommitSubscription ==
  LET r == rendered[1]
      left == r.rest \o SubSeq(updates, r.seen + 1, Len(updates))
      subscribes == life = "new" \/ r.state.source # shownState.source
      freed == IF life = "new" THEN listeners ELSE Unsubscribed(listeners, shownState.source)
  IN  /\ rendered # <<>> /\ rendered' = <<>>
      /\ life' = "mounted" /\ shownState' = r.state /\ baseState' = r.base
      /\ listeners' = IF subscribes THEN freed \cup ({r.state.source} \ {NoSource}) ELSE listeners
      /\ updates' = IF subscribes THEN left \o CatchUp(r.state) ELSE left
      /\ switchedOver' = (switchedOver \/ (r.rest # <<>> /\ subscribes))
      /\ UNCHANGED external

Unmount ==
  /\ life = "mounted" /\ life' = "gone"
  /\ listeners' = Unsubscribed(listeners, shownState.source)
  /\ updates' = <<>> /\ rendered' = <<>>
  /\ UNCHANGED <<external, shownState, baseState, switchedOver>>

(* The source changes and calls back, with updates of some priority.       *)
SourceChanges(s, v, urgent) ==
  /\ v # external[s] /\ Len(updates) < MaxPendingUpdates
  /\ external' = [external EXCEPT ![s] = v]
  /\ updates' = IF s \in listeners /\ life # "gone"
                THEN Append(updates, [kind |-> "event", source |-> s, value |-> v, urgent |-> urgent])
                ELSE updates
  /\ UNCHANGED <<life, shownState, baseState, rendered, listeners, switchedOver>>
-----------------------------------------------------------------------------
SubscriptionInit ==
  /\ external = [s \in Sources |-> 1] /\ life = "new" /\ updates = <<>> /\ rendered = <<>>
  /\ shownState = [source |-> NoSource, value |-> 0] /\ baseState = shownState /\ listeners = {}
  /\ switchedOver = FALSE

SubscriptionNext ==
  \/ \E s \in Sources \cup {NoSource}, all \in BOOLEAN : RenderSubscription(s, all)
  \/ ThrowAway \/ CommitSubscription \/ Unmount
  \/ \E s \in Sources, v \in 1 .. MaxChanges, urgent \in BOOLEAN : SourceChanges(s, v, urgent)

SubscriptionSpec == SubscriptionInit /\ [][SubscriptionNext]_subscriptionVars
-----------------------------------------------------------------------------
(* The component on the screen listens to the source it shows and to no    *)
(* other it could have left; once its updates are rendered it shows the    *)
(* current value, whatever changed between a render and its commit; and    *)
(* after it is gone nothing updates it.  If the source changes in a render *)
(* that leaves updates out, they are applied again to a base state of the  *)
(* old source, and a value of that source may be shown for good.           *)
ShowsItsSource ==
  /\ life = "mounted" => listeners \ Stubborn = {shownState.source} \ (Stubborn \cup {NoSource})
  /\ life = "mounted" /\ updates = <<>> /\ ~switchedOver => shownState = FromSource(shownState.source)
  /\ life = "gone" => updates = <<>> /\ listeners \subseteq Stubborn
=============================================================================
