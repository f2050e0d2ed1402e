------------------------------ MODULE Responder ------------------------------
(***************************************************************************)
(* ResponderEventPlugin: the views negotiate which of them responds to the *)
(* touches on the screen; and the touch history that the handlers see.     *)
(* Touches come in groups and are dispatched one by one; views may be      *)
(* removed in between.  What handlers answer is left open; none throws.    *)
(***************************************************************************)
EXTENDS HostTree

CONSTANTS
  Views,                 \* the nodes there are at first
  Identifiers, NoTouch   \* of touches

ASSUME ResponderAssumption == Views \subseteq Nodes /\ Identifiers \subseteq Int /\ IsFiniteSet(Identifiers)

VARIABLES
  touches,         \* [identifiers of the fingers on the screen -> node they were put on]
  mounted,         \* the nodes that are there
  received,        \* what is left to dispatch of a call of receiveTouches: [type, changed, next]
  responderInst, trackedTouchCount,
  touchBank,       \* [identifier -> touchActive], as far as there is a record
  numberActiveTouches, indexOfSingleActiveTouch,
  told,            \* history: the nodes that were granted the touches and neither rejected nor ended
  wrong,           \* history: a handler was called out of turn
  grabbed          \* history: the responder was set by scrolling without a touch

responderVars == <<touches, mounted, received, responderInst, trackedTouchCount, touchBank,
                   numberActiveTouches, indexOfSingleActiveTouch, told, wrong, grabbed>>

isStartish(type) == type = "start"
isMoveish(type) == type = "move"
isEndish(type) == type \in {"end", "cancel"}

Instance(n) == IF n \in mounted THEN n ELSE NoNode   \* getInstanceFromNode
PathOf(n, side) == Paths[side][Known(n, side)]

canTriggerTransfer(type, target, count) ==
  /\ target # NoNode
  /\ type = "scroll" \/ (type = "selection" /\ count > 0) \/ isStartish(type) \/ isMoveish(type)

(* Mutant: the negotiation begins at the target, whoever responds.         *)
FromTarget(target, side) == target

BubbleShouldSetFrom(target, side) ==
  IF responderInst = NoNode THEN target
  ELSE getLowestCommonAncestor(PathOf(responderInst, side), PathOf(target, side))[1]

(* The nodes that are asked whether they want to respond.                  *)
Asked(target, side) ==
  LET from == BubbleShouldSetFrom(target, side)
      path == PathOf(from, side)
  IN  {i[1] : i \in ToSet(IF from = responderInst /\ path # <<>> THEN Tail(path) ELSE path)}

noResponderTouches(inst, side) ==
  ~\E t \in DOMAIN touches : isAncestor(<<inst, 0>>, PathOf(Instance(touches[t]), side))

-----------------------------------------------------------------------------
(* History: whether a call fits the ones before it.                        *)
NoCall == <<"none", NoNode>>

InTurn(h, call) == call = NoCall \/ (call[1] = "grant" <=> call[2] \notin h.told)

Follow(h, call) ==
  [told  |-> IF call[1] = "grant" THEN h.told \cup {call[2]}
             ELSE IF call[1] \in {"reject", "terminate", "release"} THEN h.told \ {call[2]} ELSE h.told,
   wrong |-> h.wrong \/ ~InTurn(h, call)]

(* setResponderAndExtractTransfer: the calls it makes and the events it    *)
(* leaves for later, with what wants and switches stand for as answers.    *)
Transfer(wants, switches) ==
  [grant     |-> IF wants = NoNode THEN NoCall ELSE <<"grant", wants>>,
   answer    |-> IF NoNode \in {wants, responderInst} THEN NoCall
                 ELSE IF switches THEN <<"terminate", responderInst>> ELSE <<"reject", wants>>,
   responder |-> IF wants # NoNode /\ (responderInst = NoNode \/ switches) THEN wants ELSE responderInst]

(* extractEvents, and the dispatch of the events it returns.               *)
ExtractedTouch(type, target, side, wants, switches) ==
  LET count == trackedTouchCount + (IF isStartish(type) THEN 1 ELSE IF isEndish(type) THEN -1 ELSE 0)
      transfer == Transfer(wants, switches)
      r == transfer.responder
      gesture == IF r # NoNode /\ (isStartish(type) \/ isMoveish(type) \/ isEndish(type)) THEN <<type, r>> ELSE NoCall
      terminates == r # NoNode /\ type = "cancel"
      releases == r # NoNode /\ type = "end" /\ noResponderTouches(r, side)
      final == IF terminates THEN <<"terminate", r>> ELSE IF releases THEN <<"release", r>> ELSE NoCall
      transferred == Follow(Follow([told |-> told, wrong |-> wrong], transfer.grant), transfer.answer)
      heard == Follow(Follow(transferred, gesture), final)
  IN  IF isEndish(type) /\ trackedTouchCount < 0
      THEN wants = NoNode /\ UNCHANGED <<responderInst, trackedTouchCount, told, wrong, grabbed>>
      ELSE /\ wants \in {NoNode} \cup (IF canTriggerTransfer(type, target, count) THEN Asked(target, side) ELSE {})
           /\ trackedTouchCount' = count
           /\ responderInst' = IF final = NoCall THEN r ELSE NoNode
           /\ told' = heard.told
           /\ wrong' = (heard.wrong \/ (responderInst # NoNode /\ r \notin {i[1] : i \in ToSet(PathOf(responderInst, side))}))
           /\ grabbed' = (responderInst' # NoNode /\ (grabbed \/ DOMAIN touches = {}))

(* recordTouchStart, recordTouchMove and recordTouchEnd; moves and ends    *)
(* need a record.                                                          *)
TouchRecords(type, changed) ==
  [t \in DOMAIN touchBank \cup (IF isStartish(type) THEN changed ELSE {}) |->
     IF t \in changed THEN ~isEndish(type) ELSE touchBank[t]]

(* recordTouchTrack *)
Recorded(type, changed) ==
  /\ touchBank' = TouchRecords(type, changed)
  /\ IF isStartish(type) \/ isEndish(type)
     THEN /\ numberActiveTouches' = Cardinality(DOMAIN touches)
          /\ indexOfSingleActiveTouch' =
               IF Cardinality(DOMAIN touches) # 1 THEN indexOfSingleActiveTouch
               ELSE IF isStartish(type) THEN CHOOSE t \in DOMAIN touches : TRUE
               ELSE Min({t \in DOMAIN touchBank' : touchBank'[t]})
     ELSE UNCHANGED <<numberActiveTouches, indexOfSingleActiveTouch>>
-----------------------------------------------------------------------------
(* receiveTouches: fingers are put down, move, or go away together.        *)
receiveTouches(type, changed, on) ==
  /\ received.next = <<>> /\ changed # {}
  /\ IF isStartish(type) THEN changed \cap DOMAIN touches = {} ELSE changed \subseteq DOMAIN touches
  /\ touches' = [t \in IF isEndish(type) THEN DOMAIN touches \ changed ELSE DOMAIN touches \cup changed |->
                   IF t \in DOMAIN touches THEN touches[t] ELSE on]
  /\ received' = [type |-> type, changed |-> changed,
                  next |-> [k \in 1 .. Cardinality(changed) |->
                              LET t == CHOOSE t \in changed : Cardinality({u \in changed : u <= t}) = k
                              IN  IF t \in DOMAIN touches THEN touches[t] ELSE on]]
  /\ UNCHANGED <<mounted, responderInst, trackedTouchCount, touchBank, numberActiveTouches,
                 indexOfSingleActiveTouch, told, wrong, grabbed>>

DispatchTouch(side, wants, switches) ==
  /\ received.next # <<>>
  /\ Recorded(received.type, received.changed)
  /\ ExtractedTouch(received.type, Instance(Head(received.next)), side, wants, switches)
  /\ received' = [received EXCEPT !.next = Tail(@)]
  /\ UNCHANGED <<touches, mounted>>

(* A scroll view has begun to scroll, or the selection of a text changed.  *)
DispatchOther(type, target, side, wants, switches) ==
  /\ received.next = <<>>
  /\ ExtractedTouch(type, target, side, wants, switches)
  /\ UNCHANGED <<touches, mounted, received, touchBank, numberActiveTouches, indexOfSingleActiveTouch>>

(* A view is removed, with the views inside it.                            *)
RemoveView(n) ==
  /\ Parent[n] # NoNode
  /\ mounted' = {m \in mounted : \A i \in ToSet(PathOf(m, 0)) : i[1] # n}
  /\ UNCHANGED <<touches, received, responderInst, trackedTouchCount, touchBank, numberActiveTouches,
                 indexOfSingleActiveTouch, told, wrong, grabbed>>

ResponderInit ==
  /\ touches = <<>> /\ mounted = Views
  /\ received = [type |-> "start", changed |-> {}, next |-> <<>>]
  /\ responderInst = NoNode /\ trackedTouchCount = 0
  /\ touchBank = <<>> /\ numberActiveTouches = 0 /\ indexOfSingleActiveTouch = NoTouch
  /\ told = {} /\ wrong = FALSE /\ grabbed = FALSE

ResponderNext ==
  \/ \E type \in {"start", "move", "end", "cancel"}, changed \in SUBSET Identifiers, n \in mounted :
       receiveTouches(type, changed, n)
  \/ \E side \in Sides, wants \in Views \cup {NoNode}, switches \in BOOLEAN :
       \/ DispatchTouch(side, wants, switches)
       \/ \E type \in {"scroll", "selection"}, target \in mounted : DispatchOther(type, target, side, wants, switches)
  \/ \E n \in mounted : RemoveView(n)

ResponderSpec == ResponderInit /\ [][ResponderNext]_responderVars
-----------------------------------------------------------------------------
(* Only the responder, and each one from the moment it was granted the     *)
(* touches to the moment it is told that they ended or went to a view      *)
(* around it, hears of touches: the calls "are always bookended"           *)
(* (ResponderEventPlugin.js:541); when the last finger is gone nobody      *)
(* responds, unless a scroll began without touches; and the touch history  *)
(* knows how many fingers there are, and which if there is one.            *)
RespondersAreBookended ==
  /\ ~wrong /\ told = {responderInst} \ {NoNode}
  /\ received.next = <<>> =>
       /\ touches = <<>> => responderInst = NoNode \/ grabbed
       /\ trackedTouchCount = Cardinality(DOMAIN touches)
       /\ numberActiveTouches = Cardinality(DOMAIN touches)
       /\ numberActiveTouches = 1 => indexOfSingleActiveTouch \in DOMAIN touches
=============================================================================
