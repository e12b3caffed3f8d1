------------------------------ MODULE ProofCache ------------------------------
(***************************************************************************)
(* Checks of proofs through the LRU cache (clients/cache.py).  Tasks of    *)
(* one event loop share the cache: looking a list of snippets up is one    *)
(* step, and so is storing and merging the reply, but the service answers  *)
(* in between, while other tasks look up and store.  The synchronous       *)
(* client is the same code with one check at a time (~concurrent).         *)
(***************************************************************************)
EXTENDS Naturals, Sequences, FiniteSets, SequencesExt

CONSTANTS
  Task,       \* the tasks that use one client
  Snippet,    \* the proofs they check
  MaxLimit,   \* bound: the cache's limit is at most this
  MaxSnips,   \* bound: snippets in one check
  MaxChecks   \* bound: checks in a run

ASSUME ProofCacheAssumption ==
  MaxLimit \in Nat /\ MaxSnips \in Nat /\ MaxChecks \in Nat

VARIABLES
  concurrent, \* whether the client is the asynchronous one
  maxsize,    \* the limit of the cache
  data,       \* the OrderedDict, least recently used entry first
  call,       \* the present or last check of each task
  checks,     \* checks begun so far
  recent      \* history: the snippets ever used, last used last

vars == <<concurrent, maxsize, data, call, checks, recent>>

(* An answer of the service is about a snippet: its verdict, always the    *)
(* same, or that it failed.  The cache files an answer under a key.        *)
Answer == [about : Snippet, says : {"verdict", "failed"}]
Entry  == [key : Snippet, answer : Answer]

(* No check so far, or one that raised.                                    *)
NoCall == [status |-> "idle", snips |-> << >>, hits |-> << >>, out |-> << >>]

Init ==
  /\ concurrent \in BOOLEAN
  /\ maxsize \in 0..MaxLimit
  /\ data = << >> /\ recent = << >>
  /\ call = [t \in Task |-> NoCall]
  /\ checks = 0

-----------------------------------------------------------------------------
(* The store.                                                              *)

Keys(d) == {d[i].key : i \in DOMAIN d}

Place(d, s) == CHOOSE i \in DOMAIN d : d[i].key = s
Filed(d, s) == d[Place(d, s)]

Without(d, s) == IF s \in Keys(d) THEN RemoveAt(d, Place(d, s)) ELSE d

(* Faulty variant: a hit does not refresh the entry.                       *)
Get_NoRefresh(d, s) == d

Get(d, s) == IF s \in Keys(d) THEN Append(Without(d, s), Filed(d, s)) ELSE d

Put(d, e) ==
  LET new == Append(Without(d, e.key), e)
  IN  IF Len(new) > maxsize THEN Tail(new) ELSE new

(* The order of last use, which the store has to follow.                   *)
Use(r, s) ==
  Append(IF \E i \in DOMAIN r : r[i] = s
         THEN RemoveAt(r, CHOOSE i \in DOMAIN r : r[i] = s) ELSE r, s)

(* The store and the order of last use after the first i of some snippets  *)
(* were looked up one by one, and after the first i of some entries were   *)
(* stored.                                                                 *)
Now == [data |-> data, recent |-> recent]

LookedUp(snips) ==
  LET after[i \in 0..Len(snips)] ==
        IF i = 0 THEN Now
        ELSE IF snips[i] \in Keys(after[i - 1].data)
             THEN [data   |-> Get(after[i - 1].data, snips[i]),
                   recent |-> Use(after[i - 1].recent, snips[i])]
             ELSE after[i - 1]
  IN  after

Stored(entries) ==
  LET after[i \in 0..Len(entries)] ==
        IF i = 0 THEN Now
        ELSE [data   |-> Put(after[i - 1].data, entries[i]),
              recent |-> Use(after[i - 1].recent, entries[i].key)]
  IN  after

-----------------------------------------------------------------------------
(* A check.                                                                *)

(* Faulty variant: a list that is not known as a whole is sent as a whole. *)
Hits_AllOrNothing(snips) ==
  IF ToSet(snips) \subseteq Keys(data) THEN DOMAIN snips ELSE {}

Hits(snips) == {i \in DOMAIN snips : snips[i] \in Keys(data)}

(* The positions that are sent, in order; a snippet that occurs twice is   *)
(* sent twice.                                                             *)
MissesUpTo(c) ==
  LET misses[i \in 0..Len(c.snips)] ==
        IF i = 0 THEN << >>
        ELSE IF i \in DOMAIN c.hits THEN misses[i - 1]
        ELSE Append(misses[i - 1], i)
  IN  misses

Misses(c) == MissesUpTo(c)[Len(c.snips)]

Sent(c) == [j \in DOMAIN Misses(c) |-> c.snips[Misses(c)[j]]]

(* The replies to a check: an answer for each snippet in order, or fewer   *)
(* (none at all is also what an empty response object amounts to).         *)
Replies(c) ==
  UNION {{r \in [1..k -> Answer] :
            \A j \in 1..k : r[j].about = Sent(c)[j]} : k \in 0..Len(Sent(c))}

(* The answers in the order of the snippets: the hits as they were when    *)
(* they were looked up, the others from the reply.                         *)
Merged_Concatenated(c, r) ==  \* faulty variant: the order is not restored
  LET hits == SetToSortSeq(DOMAIN c.hits, <)
  IN  [k \in DOMAIN hits |-> c.hits[hits[k]]] \o r

Merged(c, r) ==
  [i \in DOMAIN c.snips |->
     IF i \in DOMAIN c.hits THEN c.hits[i]
     ELSE r[CHOOSE j \in DOMAIN r : Misses(c)[j] = i]]

LookUp(t, snips) ==
  /\ checks < MaxChecks /\ checks' = checks + 1
  /\ call[t].status # "waiting"
  /\ concurrent \/ \A u \in Task : call[u].status # "waiting"
  /\ data' = LookedUp(snips)[Len(snips)].data
  /\ recent' = LookedUp(snips)[Len(snips)].recent
  /\ UNCHANGED <<concurrent, maxsize>>

Found(snips) == [i \in Hits(snips) |-> Filed(data, snips[i]).answer]

FullHit(t, snips) ==
  /\ LookUp(t, snips)
  /\ Hits(snips) = DOMAIN snips
  /\ call' = [call EXCEPT ![t] =
       [status |-> "returned", snips |-> snips, hits |-> << >>,
        out |-> [i \in DOMAIN snips |-> Found(snips)[i]]]]

Ask(t, snips) ==
  /\ LookUp(t, snips)
  /\ Hits(snips) # DOMAIN snips
  /\ call' = [call EXCEPT ![t] =
       [status |-> "waiting", snips |-> snips, hits |-> Found(snips), out |-> << >>]]

(* The answers are stored one by one as far as the reply goes.             *)
Entries(t, r) ==
  [j \in 1..Len(r) |-> [key |-> Sent(call[t])[j], answer |-> r[j]]]

Store(t, r) ==
  /\ call[t].status = "waiting"
  /\ data' = Stored(Entries(t, r))[Len(r)].data
  /\ recent' = Stored(Entries(t, r))[Len(r)].recent
  /\ UNCHANGED <<concurrent, maxsize, checks>>

Receive(t) ==
  \E r \in Replies(call[t]) :
    /\ Store(t, r)
    /\ Len(r) = Len(Sent(call[t]))
    /\ call' = [call EXCEPT ![t] =
         [status |-> "returned", snips |-> call[t].snips, hits |-> << >>,
          out |-> Merged(call[t], r)]]

(* Faulty variant: what is missing is filled up instead of raising.        *)
ReceiveShort_Pads(t) ==
  \E r \in Replies(call[t]) :
    /\ Store(t, r)
    /\ Len(r) < Len(Sent(call[t]))
    /\ call' = [call EXCEPT ![t] =
         [status |-> "returned", snips |-> call[t].snips, hits |-> << >>,
          out |-> [i \in DOMAIN call[t].snips |->
                     IF i \in DOMAIN call[t].hits THEN call[t].hits[i]
                     ELSE [about |-> call[t].snips[i], says |-> "nothing"]]]]

(* A reply that is too short: what came is kept, then IndexError; with no  *)
(* reply object at all, KeyError in the merge, whatever hits there were.   *)
ReceiveShort(t) ==
  \E r \in Replies(call[t]) :
    /\ Store(t, r)
    /\ Len(r) < Len(Sent(call[t]))
    /\ call' = [call EXCEPT ![t] = NoCall]

(* The inner client raises.                                                *)
InnerRaises(t) ==
  /\ call[t].status = "waiting"
  /\ call' = [call EXCEPT ![t] = NoCall]
  /\ UNCHANGED <<concurrent, maxsize, data, checks, recent>>

Next ==
  \E t \in Task :
    \/ \E snips \in BoundedSeq(Snippet, MaxSnips) : FullHit(t, snips) \/ Ask(t, snips)
    \/ Receive(t) \/ ReceiveShort(t) \/ InnerRaises(t)

Spec == Init /\ [][Next]_vars

-----------------------------------------------------------------------------
(* Properties.                                                             *)

TypeOK ==
  /\ concurrent \in BOOLEAN /\ maxsize \in 0..MaxLimit /\ checks \in 0..MaxChecks
  /\ data \in Seq(Entry) /\ recent \in Seq(Snippet)
  /\ call \in [Task -> [status : {"idle", "waiting", "returned"},
                       snips  : Seq(Snippet), out : Seq(Answer),
                       hits   : UNION {[D -> Answer] : D \in SUBSET (1..MaxSnips)}]]
  /\ \A t \in Task : DOMAIN call[t].hits \subseteq DOMAIN call[t].snips

(* A check that returns has an answer for each snippet it was given, in    *)
(* that order, about that snippet, though hits and misses are mixed, a     *)
(* snippet may occur twice, and other tasks may have evicted or replaced   *)
(* the hits while the reply was awaited.                                   *)
AnswersAreAbout ==
  \A t \in Task :
    LET c == call[t] IN
    c.status = "returned" =>
      /\ Len(c.out) = Len(c.snips)
      /\ \A i \in DOMAIN c.snips : c.out[i].about = c.snips[i]

(* "Fixed-size LRU cache": whatever tasks interleave and fail, it holds    *)
(* the snippets used last, in that order, as many as the limit allows, and *)
(* evicts nothing else; with limit 0 nothing.                              *)
CacheIsRecent ==
  LET kept == IF Len(recent) < maxsize THEN Len(recent) ELSE maxsize
  IN  [i \in DOMAIN data |-> data[i].key]
        = SubSeq(recent, Len(recent) - kept + 1, Len(recent))

(* With one check at a time, what the cache says of a snippet does not     *)
(* change as long as it is kept (failures of the service included).        *)
SerialVerdictsStay ==
  [][~concurrent =>
       \A e \in ToSet(data), f \in ToSet(data') : e.key = f.key => e = f]_vars
=============================================================================
