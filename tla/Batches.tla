------------------------------ MODULE Batches ------------------------------
(***************************************************************************)
(* The batches of a ReactDOM root: createBatch, render and commit, a list  *)
(* by expiration time, and what performWorkOnRoot, completeRoot and        *)
(* flushRoot of ReactFiberScheduler do for a root with batches.  A render  *)
(* is one step, and of an update only its children are kept, 0 for none;   *)
(* every update of the root brings children of its own.                    *)
(***************************************************************************)
EXTENDS PendingPriority, SequencesExt

CONSTANTS MaxBatches, MaxChildren, MaxLevel, MaxQueue   \* bounds

VARIABLES
  broot,       \* the root: levels, queue, base, finished, firstBatch, completedBatches, ...
  batches,     \* every batch ever made
  ownerOf,     \* history: the batch each children value was given to, 0: the root
  lastUniqueAsyncExpiration

batchVars == <<broot, batches, ownerOf, lastUniqueAsyncExpiration>>

NoFinished == [children |-> -1, seen |-> 0, left |-> <<>>, base |-> 0, works |-> {}, time |-> NoWork]

NewBatchRoot ==
  [levels |-> NewLevels,
   queue |-> <<>>, base |-> 0,       \* the update queue of the HostRoot: [children, time]
   shown |-> 0,                      \* the children on the screen
   works |-> {},                     \* the works, named by their children, whose _onCommit was called
   finished |-> NoFinished,          \* finishedWork
   first |-> 0,                      \* firstBatch
   completed |-> <<>>,               \* completedBatches
   broken |-> FALSE]                 \* an invariant has thrown while rendering

(* renderRoot, of the level to work on next.                               *)
RenderTree(r) ==
  LET t == r.levels.nextExpirationTimeToWorkOn
      due == {i \in DOMAIN r.queue : r.queue[i].time <= t}
      skipped == DOMAIN r.queue \ due
      from == IF skipped = {} THEN Len(r.queue) + 1 ELSE Min(skipped)
      LastOf(places) == IF places = {} THEN r.base ELSE r.queue[Max(places)].children
  IN  [r EXCEPT !.finished =
        [children |-> LastOf(due), seen |-> Len(r.queue),
         left |-> SubSeq(r.queue, from, Len(r.queue)), base |-> LastOf(1 .. from - 1),
         works |-> {r.queue[i].children : i \in due}, time |-> t]]

(* commitRoot.  Updates that were applied behind one left out stay in the  *)
(* queue, but do not count as pending.                                     *)
CommitTree(r) ==
  LET f == r.finished
      new == SubSeq(r.queue, f.seen + 1, Len(r.queue))
      times == {u.time : u \in ToSet(new) \cup {u \in ToSet(f.left) : u.time > f.time}}
      remaining == IF times = {} THEN NoWork ELSE Min(times)
  IN  IF f.time = NoWork THEN [r EXCEPT !.broken = TRUE, !.finished = NoFinished]
      ELSE [r EXCEPT !.levels = [MarkCommitted(@, remaining) EXCEPT !.expirationTime = remaining],
                     !.queue = f.left \o new, !.base = f.base, !.shown = f.children,
                     !.works = @ \cup f.works, !.finished = NoFinished]

IsBlocked(r, bs, time) == r.first # 0 /\ bs[r.first].time <= time

completeRoot(r, bs, time) ==
  LET s == IF IsBlocked(r, bs, time) THEN [r EXCEPT !.completed = Append(@, r.first)] ELSE r
  IN  IF IsBlocked(r, bs, time) /\ bs[r.first].defer
      THEN [s EXCEPT !.levels.expirationTime = NoWork] ELSE CommitTree(s)

performWorkOnRoot(r, bs, time) ==
  completeRoot(IF r.finished # NoFinished THEN r ELSE RenderTree(r), bs, time)

(* One round of the loop of performWork.                                   *)
Round(r, bs, min) ==
  IF r.broken \/ r.levels.expirationTime = NoWork \/ (min # NoWork /\ r.levels.expirationTime > min)
  THEN r ELSE performWorkOnRoot(r, bs, r.levels.expirationTime)

performWork(r, bs, min) ==
  LET last == Len(r.queue) + 2
      after[n \in 0 .. last] == IF n = 0 THEN r ELSE Round(after[n - 1], bs, min)
  IN  after[last]

(* Mutant: the work is left to the synchronous flush.                      *)
FlushSyncOnly(r, bs, time) == performWork(r, bs, Sync)

flushRoot(r, bs, time) == performWork(performWorkOnRoot(r, bs, time), bs, Sync)

(* updateContainerAtExpirationTime                                         *)
UpdateContainer(r, bs, children, time) ==
  LET s == [r EXCEPT !.queue = Append(@, [children |-> children, time |-> time]),
                     !.levels = MarkPending(@, time)]
  IN  IF s.levels.expirationTime = Sync THEN performWork(s, bs, Sync) ELSE s

(* The list of batches: the first one and those behind it, then 0.         *)
BatchAt[n \in 0 .. Len(batches)] ==
  IF n = 0 THEN broot.first ELSE IF BatchAt[n - 1] = 0 THEN 0 ELSE batches[BatchAt[n - 1]].next

Listed == {BatchAt[n] : n \in 0 .. Len(batches)} \ {0}

HostMayCall == ~broot.broken /\ broot.completed = <<>>    \* the host may call back
-----------------------------------------------------------------------------
(* A batch goes behind those that are as early; a batch before the first   *)
(* one would not become the first.                                         *)
createBatch(gap) ==
  LET b == Len(batches) + 1
      time == lastUniqueAsyncExpiration + gap
      IsEarlier(n) == BatchAt[n] # 0 /\ batches[BatchAt[n]].time <= time
      passed == {n \in 0 .. Len(batches) : \A m \in 0 .. n : IsEarlier(m)}
      after == IF passed = {} THEN 0 ELSE BatchAt[Max(passed)]
      before == IF passed = {} THEN broot.first ELSE batches[after].next
      made == [time |-> time, next |-> before, children |-> 0, defer |-> TRUE, didComplete |-> FALSE]
  IN  /\ ~broot.broken /\ b <= MaxBatches /\ time <= MaxLevel
      /\ lastUniqueAsyncExpiration' = time
      /\ batches' = Append(IF passed = {} THEN batches ELSE [batches EXCEPT ![after].next = b], made)
      /\ broot' = IF broot.first = 0 THEN [broot EXCEPT !.first = b] ELSE broot
      /\ UNCHANGED ownerOf

NewChildren(b) == /\ ~broot.broken /\ Len(ownerOf) < MaxChildren
                  /\ ownerOf' = Append(ownerOf, b)

BatchRender(b) ==
  LET c == Len(ownerOf) + 1
      bs == [batches EXCEPT ![b].children = c]
  IN  /\ NewChildren(b) /\ batches[b].defer
      /\ batches' = bs
      /\ broot' = UpdateContainer(broot, bs, c, batches[b].time)
      /\ UNCHANGED lastUniqueAsyncExpiration

(* render of the root itself, at any level.                                *)
RootRender(time) ==
  /\ NewChildren(0)
  /\ broot' = UpdateContainer(broot, batches, Len(ownerOf) + 1, time)
  /\ UNCHANGED <<batches, lastUniqueAsyncExpiration>>

CommitEmpty(b) ==
  /\ ~broot.broken /\ batches[b].defer /\ broot.first # 0 /\ batches[b].children = 0
  /\ batches' = [batches EXCEPT ![b].next = 0, ![b].defer = FALSE]
  /\ UNCHANGED <<broot, ownerOf, lastUniqueAsyncExpiration>>

(* commit: a batch that is not first takes the place and the time of the   *)
(* first one, and its children are rendered again; so are those of the     *)
(* batch that is first afterwards.                                         *)
BatchCommit(b) ==
  LET time == batches[broot.first].time
      before == CHOOSE c \in DOMAIN batches : batches[c].next = b
      isFirst == broot.first = b
      bs == IF isFirst THEN [batches EXCEPT ![b].defer = FALSE]
            ELSE [batches EXCEPT ![before].next = batches[b].next, ![b].time = time,
                                 ![b].next = broot.first, ![b].defer = FALSE]
      r == IF isFirst THEN broot
           ELSE [UpdateContainer(broot, bs, bs[b].children, time) EXCEPT !.first = b]
      flushed == flushRoot(r, bs, time)
      next == bs[b].next
      popped == [flushed EXCEPT !.first = next]
  IN  /\ ~broot.broken /\ batches[b].defer /\ batches[b].children # 0
      /\ broot.first # 0 /\ b \in Listed
      /\ batches' = IF flushed.broken THEN bs ELSE [bs EXCEPT ![b].next = 0]
      /\ broot' = IF flushed.broken THEN flushed
                  ELSE IF next # 0 /\ bs[next].children # 0
                       THEN UpdateContainer(popped, bs, bs[next].children, bs[next].time)
                       ELSE popped
      /\ UNCHANGED <<ownerOf, lastUniqueAsyncExpiration>>

(* A batch that an empty one has cut off: its children are rendered again  *)
(* before the walk over the list throws.  With an empty list commit throws *)
(* at once.                                                                *)
BatchCommitLost(b) ==
  LET bs == [batches EXCEPT ![b].time = batches[broot.first].time]
  IN  /\ ~broot.broken /\ batches[b].defer /\ batches[b].children # 0
      /\ broot.first # 0 /\ b \notin Listed
      /\ batches' = bs
      /\ broot' = UpdateContainer(broot, bs, bs[b].children, bs[b].time)
      /\ Len(broot.queue) < MaxQueue
      /\ UNCHANGED <<ownerOf, lastUniqueAsyncExpiration>>

(* The host calls back: the tree is completed, or there is no time left    *)
(* to commit it.                                                           *)
AsyncWork ==
  /\ HostMayCall /\ broot.levels.expirationTime # NoWork
  /\ broot' \in {performWorkOnRoot(broot, batches, broot.levels.expirationTime),
                 IF broot.finished # NoFinished THEN broot ELSE RenderTree(broot)}
  /\ UNCHANGED <<batches, ownerOf, lastUniqueAsyncExpiration>>

(* ... after a timeout: everything up to now is rendered.                  *)
ExpiredWork(now) ==
  /\ HostMayCall /\ broot.levels.expirationTime # NoWork /\ now >= broot.levels.expirationTime
  /\ broot' = performWorkOnRoot([broot EXCEPT !.levels = DidExpireAt(@, now)], batches,
                                broot.levels.expirationTime)
  /\ UNCHANGED <<batches, ownerOf, lastUniqueAsyncExpiration>>

(* finishRendering calls those that wait for a batch; they may do anything *)
(* that the other actions do, between them.                                *)
Complete ==
  /\ broot.completed # <<>>
  /\ batches' = [batches EXCEPT ![Head(broot.completed)].didComplete = TRUE]
  /\ broot' = [broot EXCEPT !.completed = Tail(@)]
  /\ UNCHANGED <<ownerOf, lastUniqueAsyncExpiration>>
-----------------------------------------------------------------------------
BatchesInit ==
  /\ broot = NewBatchRoot /\ batches = <<>> /\ ownerOf = <<>>
  /\ lastUniqueAsyncExpiration = Sync

BatchesNext ==
  \/ \E gap \in {1, 2} : createBatch(gap)
  \/ \E b \in DOMAIN batches : BatchRender(b) \/ CommitEmpty(b) \/ BatchCommit(b) \/ BatchCommitLost(b)
  \/ \E t \in Sync .. MaxLevel : RootRender(t) \/ ExpiredWork(t)
  \/ AsyncWork \/ Complete

BatchesSpec == BatchesInit /\ [][BatchesNext]_batchVars
-----------------------------------------------------------------------------
(* A root that a batch has unscheduled forgets nothing: children whose     *)
(* work is not done are in its queue, and either it is scheduled or it     *)
(* keeps its finished tree, and a batch that is responsible for it.  (This *)
(* ends with a commit() of a batch that has nothing left to render: the    *)
(* invariant of commitRoot throws and leaves isRendering set.)             *)
Unresolved == {c \in DOMAIN ownerOf : c \notin broot.works}

WorkIsKept ==
  broot.broken \/ Unresolved = {} \/
  /\ Unresolved \subseteq {u.children : u \in ToSet(broot.queue)}
  /\ \/ broot.levels.expirationTime # NoWork
     \/ broot.finished # NoFinished /\ broot.first # 0
=============================================================================
