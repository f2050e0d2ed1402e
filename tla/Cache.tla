------------------------------- MODULE Cache -------------------------------
(***************************************************************************)
(* react-cache: the results of one resource, in a map by key and in a      *)
(* circular list in order of their last use (LRU.js), whose end is deleted *)
(* by a callback of the scheduler.  recent is the list one would write     *)
(* down: the pointers are checked against it.                              *)
(***************************************************************************)
EXTENDS Integers, SequencesExt

CONSTANTS Keys, Limits, MaxResults

VARIABLES
  result,              \* every result ever made: [key, status, next, previous]; next is 0 when deleted
  first, size, LIMIT,  \* of the list: an index of result, or 0
  cleanUpIsScheduled, cleaning,  \* cleaning: the loop of a clean-up is under way
  entries,             \* [Keys -> 0 or an index of result]
  recent,              \* history: the keys by their last use
  seen                 \* history: the status a read has had, by result

cacheVars == <<result, first, size, LIMIT, cleanUpIsScheduled, cleaning, entries, recent, seen>>

(* The entry e becomes the head of the list whose head was f.              *)
LinkedIn(R, f, e) ==
  LET last == R[f].previous
  IN  IF f = 0 THEN [R EXCEPT ![e].next = e, ![e].previous = e]
      ELSE [R EXCEPT ![last].next = e, ![e].previous = last, ![f].previous = e, ![e].next = f]

LinkedOut(R, e) == [R EXCEPT ![R[e].previous].next = R[e].next, ![R[e].next].previous = R[e].previous]

CleanUpNeeded(s, limit) == cleanUpIsScheduled \/ s > limit

-----------------------------------------------------------------------------
(* accessResult: read and preload.  Only an access looks at the limit.     *)
add(k) ==
  LET e == Len(result) + 1
      new == [key |-> k, status |-> "Pending", next |-> 0, previous |-> 0]
  IN  /\ entries[k] = 0 /\ e <= MaxResults
      /\ result' = LinkedIn(Append(result, new), first, e)
      /\ first' = e /\ size' = size + 1 /\ entries' = [entries EXCEPT ![k] = e]
      /\ recent' = <<k>> \o recent
      /\ seen' = Append(seen, "Pending")
      /\ UNCHANGED cleanUpIsScheduled

(* Mutant: an entry that is used again stays where it is.                  *)
Kept(e) == UNCHANGED <<result, first>>

Moved(e) ==
  IF result[e].next # 0 /\ first # e
  THEN result' = LinkedIn(LinkedOut(result, e), first, e) /\ first' = e
  ELSE UNCHANGED <<result, first>>

access(k) ==
  LET e == entries[k]
      place == CHOOSE i \in DOMAIN recent : recent[i] = k
  IN  /\ e # 0
      /\ Moved(e)
      /\ cleanUpIsScheduled' = CleanUpNeeded(size, LIMIT)
      /\ recent' = <<k>> \o RemoveAt(recent, place)
      /\ seen' = [seen EXCEPT ![e] = result[e].status]
      /\ UNCHANGED <<size, entries>>

AccessResult(k) == /\ ~cleaning
                   /\ add(k) \/ access(k)
                   /\ UNCHANGED <<LIMIT, cleaning>>

Settle(e, status) ==
  /\ ~cleaning /\ result[e].status = "Pending"
  /\ result' = [result EXCEPT ![e].status = status]
  /\ UNCHANGED <<first, size, LIMIT, cleanUpIsScheduled, cleaning, entries, recent, seen>>

SetLimit(n) ==
  /\ ~cleaning
  /\ LIMIT' = n /\ cleanUpIsScheduled' = CleanUpNeeded(size, n)
  /\ UNCHANGED <<result, first, size, cleaning, entries, recent, seen>>

-----------------------------------------------------------------------------
(* cleanUp, one step for each entry that it deletes: onDelete could throw, *)
(* and has to leave a valid list.                                          *)
CleanUp ==
  /\ cleanUpIsScheduled /\ ~cleaning
  /\ cleanUpIsScheduled' = FALSE /\ cleaning' = TRUE
  /\ UNCHANGED <<result, first, size, LIMIT, entries, recent, seen>>

Deleted(last) ==
  LET R == [result EXCEPT ![last].next = 0, ![last].previous = 0]
      previous == result[last].previous
  IN  IF last = first THEN R ELSE [R EXCEPT ![first].previous = previous, ![previous].next = first]

deleteLast ==
  LET last == result[first].previous
  IN  /\ cleaning /\ size > LIMIT /\ first # 0
      /\ result' = Deleted(last)
      /\ first' = IF last = first THEN 0 ELSE first
      /\ size' = size - 1
      /\ entries' = [entries EXCEPT ![result[last].key] = 0]
      /\ recent' = Front(recent)
      /\ UNCHANGED <<LIMIT, cleanUpIsScheduled, cleaning, seen>>

CleanUpEnds ==
  /\ cleaning /\ (size <= LIMIT \/ first = 0)
  /\ cleaning' = FALSE
  /\ UNCHANGED <<result, first, size, LIMIT, cleanUpIsScheduled, entries, recent, seen>>
-----------------------------------------------------------------------------
CacheInit ==
  /\ result = <<>> /\ first = 0 /\ size = 0 /\ LIMIT \in Limits /\ cleanUpIsScheduled = FALSE /\ cleaning = FALSE
  /\ entries = [k \in Keys |-> 0] /\ recent = <<>> /\ seen = <<>>

CacheNext ==
  \/ \E k \in Keys : AccessResult(k)
  \/ \E e \in DOMAIN result, status \in {"Resolved", "Rejected"} : Settle(e, status)
  \/ \E n \in Limits : SetLimit(n)
  \/ CleanUp \/ deleteLast \/ CleanUpEnds

CacheSpec == CacheInit /\ [][CacheNext]_cacheVars
-----------------------------------------------------------------------------
(* The circular list has the keys in the order of their last use, in both  *)
(* directions, and so it does between two deletions of a clean-up; the map *)
(* has exactly these results, the ones that are still linked; and a status *)
(* that a read has had stays, unless it was pending.                       *)
At(i) == entries[recent[i]]
Following(i) == IF i = Len(recent) THEN 1 ELSE i + 1

UsedEntriesAreKept ==
  /\ size = Len(recent) /\ IsInjective(recent)
  /\ first = IF recent = <<>> THEN 0 ELSE At(1)
  /\ \A i \in DOMAIN recent : /\ At(i) \in DOMAIN result /\ result[At(i)].key = recent[i]
                              /\ result[At(i)].next = At(Following(i))
                              /\ result[At(Following(i))].previous = At(i)
  /\ \A k \in Keys : entries[k] # 0 <=> k \in ToSet(recent)
  /\ \A e \in DOMAIN result : /\ result[e].next # 0 <=> entries[result[e].key] = e
                             /\ seen[e] # "Pending" => seen[e] = result[e].status
=============================================================================
