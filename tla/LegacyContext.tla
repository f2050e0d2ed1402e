---------------------------- MODULE LegacyContext ----------------------------
(***************************************************************************)
(* ReactFiberContext.js: childContextTypes and contextTypes of class       *)
(* components, one inside the other.  A provider keeps the context it last *)
(* merged on its instance, which all attempts at a render share; a flag on *)
(* the stack tells those below that a provider rendered.  The root's own   *)
(* context comes from the component that renderSubtreeIntoContainer names. *)
(***************************************************************************)
EXTENDS Integers, SequencesExt, FiniteSets

CONSTANTS
  Chains,           \* sequences of [gives, reads, blocks, constant]: a key or NoKeyGiven; BOOLEANs
  ContextKeys, NoKeyGiven,
  ContextLevels, MaxContextUpdates

ASSUME ContextAssumption ==
  /\ NoKeyGiven \notin ContextKeys
  /\ \A c \in Chains :
       /\ c # <<>>
       /\ c \in Seq([gives : ContextKeys \cup {NoKeyGiven}, reads : BOOLEAN, blocks : BOOLEAN, constant : BOOLEAN])

VARIABLES
  chain,            \* the components, each the only child of the one before
  values, given, seen,   \* committed: state, the state that getChildContext last used, this.context
  due,              \* levels of the updates that are pending, for each component, and at 0 for the root
  merged,           \* __reactInternalMemoizedMergedChildContext of the instances
  root,             \* [context, pending]: of the container
  pass,             \* the render under way, or NoPass
  tainted,          \* history: an attempt was given up that had changed an instance or the container
  made              \* updates so far

contextVars == <<chain, values, given, seen, due, merged, root, pass, tainted, made>>

NoPass == [at |-> 0]
EmptyContext == [key \in ContextKeys |-> 0]
NoContext == [key \in {} |-> 0]
Places == DOMAIN chain
IsContextProvider(k) == chain[k].gives # NoKeyGiven
Top == Last(pass.stack)

-----------------------------------------------------------------------------
(* Mutant: each provider starts with an unchanged context.                 *)
StartsUnchanged(changed) == FALSE

(* "Inherit the parent's did-perform-work value."                          *)
InheritedChange(changed) == changed

pushContextProvider(k, stack) ==
  IF IsContextProvider(k)
  THEN Append(stack, [context |-> merged[k], changed |-> InheritedChange(Last(stack).changed)])
  ELSE stack

(* After the render of a provider, or after its shouldComponentUpdate has  *)
(* said no.                                                                *)
invalidateContextProvider(k, stack, value, didChange) ==
  IF ~IsContextProvider(k) THEN stack
  ELSE Append(Front(stack),
         [context |-> IF didChange THEN [Last(Front(stack)).context EXCEPT ![chain[k].gives] = value] ELSE Last(stack).context,
          changed |-> didChange])

(* this.context is the context of the parent: previousContext for a        *)
(* provider, which has pushed its own.                                     *)
getUnmaskedContext(k, stack) == (IF IsContextProvider(k) THEN Last(Front(stack)) ELSE Last(stack)).context

DueAt(k, level) == \E l \in due[k] : l <= level
DueBelow(k, level) == \E j \in Places : j > k /\ DueAt(j, level)
Finished == Len(chain) + 1

-----------------------------------------------------------------------------
(* updateHostRoot: pushHostRootContext, and the element.                   *)
BeginRender(level) ==
  LET changed == root.pending # NoContext /\ root.pending # root.context
      context == IF root.pending = NoContext THEN root.context ELSE root.pending
      fresh == DueAt(0, level) /\ ~chain[1].constant
  IN  /\ pass = NoPass
      /\ DueAt(0, level) \/ DueBelow(0, level)
      /\ pass' = [level |-> level, stack |-> <<[context |-> context, changed |-> changed]>>,
                  at |-> IF fresh \/ DueBelow(0, level) THEN 1 ELSE Finished,
                  fresh |-> fresh,
                  before |-> <<merged, root>>, values |-> values, given |-> given, seen |-> seen]
      /\ UNCHANGED <<chain, values, given, seen, due, merged, root, tainted, made>>

(* beginWork: bailout of a component whose props and context are the same. *)
Bailout ==
  /\ pass.at \in Places /\ ~pass.fresh /\ ~Top.changed /\ ~DueAt(pass.at, pass.level)
  /\ pass' = [pass EXCEPT !.stack = pushContextProvider(pass.at, @),
                          !.at = IF DueBelow(pass.at, pass.level) THEN @ + 1 ELSE Finished]
  /\ UNCHANGED <<chain, values, given, seen, due, merged, root, tainted, made>>

(* updateClassComponent and finishClassComponent.                          *)
Render ==
  LET k == pass.at
      stack == pushContextProvider(k, pass.stack)
      value == pass.values[k] + Cardinality({l \in due[k] : l <= pass.level})
      context == getUnmaskedContext(k, stack)
      same == ~pass.fresh /\ value = pass.values[k] /\ ~Last(stack).changed
      should == ~same /\ ~chain[k].blocks
      newStack == invalidateContextProvider(k, stack, value, should)
  IN  /\ k \in Places
      /\ pass.fresh \/ Top.changed \/ DueAt(k, pass.level)
      /\ pass' = [pass EXCEPT !.stack = newStack, !.values[k] = value,
                              !.seen[k] = IF should /\ chain[k].reads THEN context ELSE @,
                              !.given[k] = IF should THEN value ELSE @,
                              !.fresh = should /\ k < Len(chain) /\ ~chain[k + 1].constant,
                              !.at = IF should \/ DueBelow(k, pass.level) THEN @ + 1 ELSE Finished]
      /\ merged' = IF should /\ IsContextProvider(k) THEN [merged EXCEPT ![k] = Last(newStack).context] ELSE merged
      /\ UNCHANGED <<chain, values, given, seen, due, root, tainted, made>>

(* completeWork of the root takes the pending context over.                *)
CompleteRender ==
  /\ pass # NoPass /\ pass.at = Finished
  /\ pass' = [pass EXCEPT !.at = Finished + 1]
  /\ root' = IF root.pending = NoContext THEN root ELSE [context |-> root.pending, pending |-> NoContext]
  /\ UNCHANGED <<chain, values, given, seen, due, merged, tainted, made>>

CommitRender ==
  /\ pass # NoPass /\ pass.at = Finished + 1
  /\ values' = pass.values /\ given' = pass.given /\ seen' = pass.seen
  /\ due' = [k \in DOMAIN due |-> {l \in due[k] : l > pass.level}]
  /\ pass' = NoPass
  /\ UNCHANGED <<chain, merged, root, tainted, made>>

(* An update of another level comes first: nothing is undone on the        *)
(* instances and the container.                                            *)
GiveUp ==
  /\ pass # NoPass
  /\ pass' = NoPass
  /\ tainted' = (tainted \/ pass.before # <<merged, root>>)
  /\ UNCHANGED <<chain, values, given, seen, due, merged, root, made>>

-----------------------------------------------------------------------------
(* setState, while nothing renders: between slices another update gives    *)
(* the render up.                                                          *)
SetContextState(k, level) ==
  /\ pass = NoPass /\ made < MaxContextUpdates /\ level \notin due[k]
  /\ due' = [due EXCEPT ![k] = @ \cup {level}]
  /\ made' = made + 1
  /\ UNCHANGED <<chain, values, given, seen, merged, root, pass, tainted>>

(* updateContainer with the context of a parent component.                 *)
UpdateContainerContext(context, level) ==
  /\ pass = NoPass /\ made < MaxContextUpdates /\ level \notin due[0]
  /\ root' = [root EXCEPT !.pending = context]
  /\ due' = [due EXCEPT ![0] = @ \cup {level}]
  /\ made' = made + 1
  /\ UNCHANGED <<chain, values, given, seen, merged, pass, tainted>>

-----------------------------------------------------------------------------
(* The context before the component k, below a root with some context: of  *)
(* each key the value that the nearest provider last gave.                 *)
ContextFrom(links, context, gave, k) ==
  [key \in ContextKeys |->
     LET providers == {j \in DOMAIN links : j < k /\ links[j].gives = key}
     IN  IF providers = {} THEN context[key] ELSE gave[Max(providers)]]

ContextAt(k) == ContextFrom(chain, root.context, given, k)

(* Mounted, by a first render that is over.                                *)
ContextInit ==
  /\ chain \in Chains
  /\ values = [k \in Places |-> 0] /\ given = values
  /\ seen = [k \in Places |-> EmptyContext]
  /\ due = [k \in 0 .. Len(chain) |-> {}]
  /\ merged = [k \in Places |-> EmptyContext]
  /\ root = [context |-> EmptyContext, pending |-> NoContext]
  /\ pass = NoPass /\ tainted = FALSE /\ made = 0

ContextNext ==
  \/ Bailout \/ Render \/ CompleteRender \/ CommitRender \/ GiveUp
  \/ \E level \in ContextLevels :
       \/ BeginRender(level)
       \/ \E k \in Places : SetContextState(k, level)
       \/ \E key \in ContextKeys : UpdateContainerContext([EmptyContext EXCEPT ![key] = 1], level)

ContextSpec == ContextInit /\ [][ContextNext]_contextVars
-----------------------------------------------------------------------------
(* Between renders each consumer has the context that the providers before *)
(* it last gave, the nearest one of each key, even if those between were   *)
(* left alone; unless a component between them refuses to update.  A       *)
(* render that is given up after a provider has rendered voids this, and   *)
(* so does an update of the root with the element it has: see README.      *)
ConsumersSeeTheirContext ==
  pass = NoPass /\ ~tainted /\ root.pending = NoContext /\ ~chain[1].constant =>
    \A k \in Places : chain[k].reads /\ ~(\E j \in 1 .. k : chain[j].blocks) => seen[k] = ContextAt(k)
=============================================================================
