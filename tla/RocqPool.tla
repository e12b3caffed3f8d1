------------------------------- MODULE RocqPool -------------------------------
(***************************************************************************)
(* The connections of the Rocq clients (clients/coq/rocq.py).  A check     *)
(* cuts its proofs into groups and gives each group a connection.          *)
(* RocqClient runs the groups on the workers of a thread pool and waits    *)
(* for all of them; AsyncRocqClient starts all groups at once, each proof  *)
(* in a thread, several checks may run at a time, and gather does not wait *)
(* for the other groups when one raises.  A connection is made when a slot *)
(* of the pool is first used.                                              *)
(***************************************************************************)
EXTENDS Naturals, FiniteSets

CONSTANTS
  PoolSize,  \* batch_size of the client: connections in the pool
  GroupSize, \* batch_size of a check: proofs in a group
  MaxSnips,  \* bound: proofs in one check
  MaxCalls   \* bound: checks in a run

ASSUME RocqPoolAssumption ==
  /\ PoolSize \in Nat \ {0} /\ GroupSize \in Nat \ {0}
  /\ MaxSnips \in Nat /\ MaxCalls \in Nat

VARIABLES
  variant, \* "threads": RocqClient; "tasks": AsyncRocqClient
  snips,   \* the number of proofs of each check
  status,  \* the state of each check
  job,     \* where the thread of each group of each check is
  verified, \* the proofs of each group that are done
  slot,    \* each connection of the pool
  lost     \* history: whether a connection was replaced by another

vars == <<variant, snips, status, job, verified, slot, lost>>

Call  == 1..MaxCalls
Group == IF MaxSnips = 0 THEN {} ELSE 0..(MaxSnips - 1)
Slot  == 0..(PoolSize - 1)

Init ==
  /\ variant \in {"threads", "tasks"}
  /\ snips = [c \in Call |-> 0]
  /\ status = [c \in Call |-> "none"]
  /\ job = [c \in Call |-> [g \in Group |-> "none"]]
  /\ verified = [c \in Call |-> [g \in Group |-> 0]]
  /\ slot = [k \in Slot |-> "none"]
  /\ lost = FALSE

-----------------------------------------------------------------------------
(* Faulty variant: two neighbouring groups get one connection.             *)
SlotOf_Halved(g) == (g \div 2) % PoolSize

SlotOf(g) == g % PoolSize

(* The groups of a check of n proofs, and the length of each.              *)
Groups(n) == {g \in Group : g * GroupSize < n}

Length_OffByOne(n, g) ==  \* faulty variant: groups overlap
  IF (g + 1) * GroupSize < n THEN GroupSize + 1 ELSE n - g * GroupSize

Length(n, g) ==
  IF (g + 1) * GroupSize <= n THEN GroupSize ELSE n - g * GroupSize

(* A thread is at work from taking up its group or proof to the verdict.   *)
Busy(c, g) == job[c][g] \in {"ready", "opening", "connecting", "working"}

Ended(c, g) == job[c][g] \in {"finished", "raised"}

(* Faulty variant: one worker too few.                                     *)
Workers_OffByOne(n) ==
  IF Cardinality(Groups(n)) < PoolSize THEN Cardinality(Groups(n)) - 1 ELSE PoolSize

Workers(n) ==
  IF Cardinality(Groups(n)) < PoolSize THEN Cardinality(Groups(n)) ELSE PoolSize

-----------------------------------------------------------------------------
(* The caller.  An empty check returns at once and changes nothing.  The   *)
(* groups of an asynchronous check need no worker.                         *)
Begin(c, n) ==
  /\ status[c] = "none"
  /\ \A d \in Call : d < c => status[d] # "none"
  /\ variant = "threads" => \A d \in Call : status[d] # "open"
  /\ snips' = [snips EXCEPT ![c] = n]
  /\ status' = [status EXCEPT ![c] = "open"]
  /\ job' = [job EXCEPT ![c] =
       [g \in Group |-> IF g \notin Groups(n) THEN "none"
                       ELSE IF variant = "threads" THEN "queued" ELSE "ready"]]
  /\ UNCHANGED <<variant, verified, slot, lost>>

(* What is left of a check that ends: the groups that have not ended.      *)
Leaves(c, outcome) ==
  /\ status[c] = "open"
  /\ status' = [status EXCEPT ![c] = outcome]
  /\ job' = [job EXCEPT ![c] = [g \in Group |-> IF Ended(c, g) THEN "none" ELSE @[g]]]
  /\ verified' = [verified EXCEPT ![c] = [g \in Group |-> IF Ended(c, g) THEN 0 ELSE @[g]]]
  /\ UNCHANGED <<variant, snips, slot, lost>>

Return(c) ==
  /\ \A g \in Groups(snips[c]) : job[c][g] = "finished"
  /\ Leaves(c, "returned")

(* Faulty variant: the exception leaves before the executor has shut down. *)
Raise_NoWait(c) ==
  /\ \E g \in Groups(snips[c]) : job[c][g] = "raised"
  /\ Leaves(c, "raised")

(* The executor finishes what is queued before the exception leaves it.    *)
Raise(c) ==
  /\ \E g \in Groups(snips[c]) : job[c][g] = "raised"
  /\ variant = "threads" => \A g \in Groups(snips[c]) : Ended(c, g)
  /\ Leaves(c, "raised")

-----------------------------------------------------------------------------
(* The thread of a group.                                                  *)

Goes(c, g, to) == job' = [job EXCEPT ![c][g] = to]

(* A worker takes the next group of the queue.                             *)
Take(c, g) ==
  /\ job[c][g] = "queued"
  /\ \A h \in Group : h < g => job[c][h] # "queued"
  /\ Cardinality({h \in Group : Busy(c, h)}) < Workers(snips[c])
  /\ Goes(c, g, "ready")
  /\ UNCHANGED <<variant, snips, status, verified, slot, lost>>

(* Faulty variant: an unconnected client is replaced and not closed.       *)
Ensure_TestsConnected(c, g) ==
  /\ job[c][g] = "ready"
  /\ Goes(c, g, IF slot[SlotOf(g)] # "connected" THEN "opening" ELSE "working")
  /\ UNCHANGED <<variant, snips, status, verified, slot, lost>>

(* _ensure_client: the slot is tested, then filled, then connected.        *)
Ensure(c, g) ==
  /\ job[c][g] = "ready"
  /\ Goes(c, g, IF slot[SlotOf(g)] = "none" THEN "opening" ELSE "working")
  /\ UNCHANGED <<variant, snips, status, verified, slot, lost>>

Open(c, g) ==
  /\ job[c][g] = "opening"
  /\ Goes(c, g, "connecting")
  /\ slot' = [slot EXCEPT ![SlotOf(g)] = "made"]
  /\ lost' = (lost \/ slot[SlotOf(g)] # "none")
  /\ UNCHANGED <<variant, snips, status, verified>>

Connect(c, g) ==
  /\ job[c][g] = "connecting"
  /\ Goes(c, g, "working")
  /\ slot' = [slot EXCEPT ![SlotOf(g)] = "connected"]
  /\ UNCHANGED <<variant, snips, status, verified, lost>>

(* The verdict on a proof, which may be that the connection failed.        *)
Verify(c, g) ==
  /\ job[c][g] = "working"
  /\ verified' = [verified EXCEPT ![c][g] = @ + 1]
  /\ Goes(c, g, IF verified'[c][g] = Length(snips[c], g) THEN "finished" ELSE "ready")
  /\ UNCHANGED <<variant, snips, status, slot, lost>>

(* The client cannot be imported or made and the slot stays empty, or the  *)
(* server refuses the connection, which stays in the slot unconnected, or  *)
(* the temporary file cannot be made: all outside verify's try block.      *)
ThreadRaises(c, g) ==
  /\ job[c][g] \in {"opening", "connecting", "working"}
  /\ Goes(c, g, "raised")
  /\ UNCHANGED <<variant, snips, status, verified, slot, lost>>

-----------------------------------------------------------------------------
ThreadStep(c, g) ==
  \/ Take(c, g) \/ Ensure(c, g) \/ Open(c, g) \/ Connect(c, g)
  \/ Verify(c, g) \/ ThreadRaises(c, g)

End(c) == Return(c) \/ Raise(c)

Next ==
  \E c \in Call :
    \/ \E n \in 1..MaxSnips : Begin(c, n)
    \/ End(c)
    \/ \E g \in Group : ThreadStep(c, g)

(* Threads are scheduled, and the server answers each command or the       *)
(* command's timeout passes.                                               *)
Fairness ==
  \A c \in Call :
    /\ WF_vars(End(c))
    /\ \A g \in Group : WF_vars(ThreadStep(c, g))

Spec == Init /\ [][Next]_vars /\ Fairness

-----------------------------------------------------------------------------
(* Properties.                                                             *)

TypeOK ==
  /\ variant \in {"threads", "tasks"}
  /\ snips \in [Call -> 0..MaxSnips]
  /\ status \in [Call -> {"none", "open", "returned", "raised"}]
  /\ job \in [Call -> [Group -> {"none", "queued", "ready", "opening", "connecting",
                                 "working", "finished", "raised"}]]
  /\ verified \in [Call -> [Group -> 0..GroupSize]]
  /\ slot \in [Slot -> {"none", "made", "connected"}]
  /\ lost \in BOOLEAN

(* Two threads never work on one connection at a time.                     *)
Exclusive ==
  \A c, d \in Call : \A g, h \in Group :
    Busy(c, g) /\ Busy(d, h) /\ SlotOf(g) = SlotOf(h) => c = d /\ g = h

(* No check so far had more groups than there are connections.             *)
FitsPool == \A c \in Call : Groups(snips[c]) \subseteq Slot

(* RocqClient keeps its promise of no REPL state shared across threads as  *)
(* long as the groups of each check fit the pool, through failures and     *)
(* from one check to the next.                                             *)
ThreadsDoNotShare == variant = "threads" /\ FitsPool => Exclusive

(* And then no slot is filled twice, so no open connection is lost.        *)
NoConnectionLost == variant = "threads" /\ FitsPool => ~lost

(* A check that has ended left no thread behind on a connection, except    *)
(* that an asynchronous check which raised does not wait for its groups.   *)
NothingLeftBehind ==
  \A c \in Call : \A g \in Group :
    Busy(c, g) => status[c] = "open" \/ (status[c] = "raised" /\ variant = "tasks")

(* Every check ends, also with more groups than workers and when some      *)
(* groups raise.                                                           *)
EveryCheckEnds ==
  \A c \in Call : status[c] = "open" ~> status[c] \in {"returned", "raised"}

(* "so that check can verify multiple proofs concurrently without sharing  *)
(* mutable REPL state across threads", "concurrent asyncio.to_thread calls *)
(* do not corrupt shared proof state" (docstrings of the clients): no two  *)
(* threads step proofs on one connection.  The code does not keep this.    *)
NoSharedProofState ==
  \A c, d \in Call : \A g, h \in Group :
    /\ job[c][g] = "working" /\ job[d][h] = "working" /\ SlotOf(g) = SlotOf(h)
    => c = d /\ g = h
=============================================================================
