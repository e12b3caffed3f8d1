---------------------------- MODULE RocqPoolProofs ----------------------------
(***************************************************************************)
(* What holds of the connections of the Rocq clients for every size of the *)
(* pool and of the groups and for any number of checks.                    *)
(***************************************************************************)
EXTENDS RocqPool, TLAPS

(* A check that has not begun has neither proofs nor threads.              *)
Untouched(c) ==
  status[c] = "none" =>
    snips[c] = 0 /\ \A g \in Group : job[c][g] = "none" /\ verified[c][g] = 0

(* A thread that has not ended has a group of its check, and proofs of it  *)
(* are left.                                                               *)
Alive(c, g) == job[c][g] = "queued" \/ Busy(c, g)

HasWork(c, g) ==
  Alive(c, g) => g \in Groups(snips[c]) /\ verified[c][g] < Length(snips[c], g)

(* Threads of the synchronous client belong to the one check that is open. *)
OneCheck ==
  variant = "threads" =>
    \A c, d \in Call : status[c] = "open" /\ status[d] = "open" => c = d

(* Who fills a slot found it empty, and nobody has filled it since.        *)
OpensEmpty ==
  variant = "threads" /\ FitsPool =>
    \A c \in Call : \A g \in Group : job[c][g] = "opening" => slot[SlotOf(g)] = "none"

IInv ==
  /\ TypeOK
  /\ \A c \in Call : Untouched(c) /\ \A g \in Group : HasWork(c, g)
  /\ \A c \in Call : \A g \in Group :
       Alive(c, g) => status[c] = "open" \/ (status[c] = "raised" /\ variant = "tasks")
  /\ OneCheck
  /\ OpensEmpty
  /\ NoConnectionLost

-----------------------------------------------------------------------------
(* The groups.                                                             *)

(* A group has at least one proof and at most GroupSize.                   *)
LEMMA LengthBounds ==
  ASSUME NEW n \in 0..MaxSnips, NEW g \in Groups(n)
  PROVE  g \in Nat /\ Length(n, g) \in 1..GroupSize
<1>1. g \in Nat /\ g * GroupSize \in Nat /\ g * GroupSize < n /\ n \in Nat
  BY RocqPoolAssumption DEF Groups, Group
<1>2. (g + 1) * GroupSize = g * GroupSize + GroupSize
  BY <1>1, RocqPoolAssumption
<1> QED BY <1>1, <1>2, RocqPoolAssumption DEF Length

(* A group of a check that fits the pool has a connection of its own.      *)
LEMMA OwnSlot ==
  ASSUME FitsPool, NEW c \in Call, NEW g \in Groups(snips[c])
  PROVE  SlotOf(g) = g
<1>1. g \in 0..(PoolSize - 1)
  BY DEF FitsPool, Slot
<1> QED BY <1>1, RocqPoolAssumption DEF SlotOf

LEMMA SlotInPool == ASSUME NEW g \in Group PROVE SlotOf(g) \in Slot
<1>1. g \in Nat
  BY DEF Group
<1> QED BY <1>1, RocqPoolAssumption DEF SlotOf, Slot

(* No two threads share a connection, by the invariant.                    *)
LEMMA KeepsApart == IInv => ThreadsDoNotShare
<1> SUFFICES ASSUME IInv, variant = "threads", FitsPool,
                    NEW c \in Call, NEW d \in Call, NEW g \in Group, NEW h \in Group,
                    Busy(c, g), Busy(d, h), SlotOf(g) = SlotOf(h)
             PROVE  c = d /\ g = h
  BY DEF ThreadsDoNotShare, Exclusive
<1>1. Alive(c, g) /\ Alive(d, h)
  BY DEF Alive
<1>2. status[c] = "open" /\ status[d] = "open"
  BY <1>1 DEF IInv
<1>3. c = d
  BY <1>2 DEF IInv, OneCheck
<1>4. g \in Groups(snips[c]) /\ h \in Groups(snips[d])
  BY <1>1 DEF IInv, HasWork
<1> QED BY <1>3, <1>4, OwnSlot

-----------------------------------------------------------------------------
(* The steps.                                                              *)

LEMMA InitInv == Init => IInv
<1> SUFFICES ASSUME Init PROVE IInv
  OBVIOUS
<1>1. TypeOK
  <2>1. 0 \in 0..MaxSnips /\ 0 \in 0..GroupSize
    BY RocqPoolAssumption
  <2>2. /\ snips \in [Call -> 0..MaxSnips]
        /\ verified \in [Call -> [Group -> 0..GroupSize]]
    BY <2>1 DEF Init
  <2>3. /\ status \in [Call -> {"none", "open", "returned", "raised"}]
        /\ job \in [Call -> [Group -> {"none", "queued", "ready", "opening", "connecting",
                                       "working", "finished", "raised"}]]
        /\ slot \in [Slot -> {"none", "made", "connected"}]
    BY DEF Init
  <2> QED BY <2>2, <2>3 DEF Init, TypeOK
<1>2. \A c \in Call, g \in Group : ~Alive(c, g)
  BY DEF Init, Alive, Busy
<1>3. \A c \in Call : Untouched(c)
  BY DEF Init, Untouched
<1> QED BY <1>1, <1>2, <1>3
        DEF Init, IInv, HasWork, OneCheck, OpensEmpty, NoConnectionLost

LEMMA BeginStep ==
  ASSUME IInv, NEW c \in Call, NEW n \in 1..MaxSnips, Begin(c, n)
  PROVE  IInv'
<1>1. TypeOK'
  BY DEF IInv, TypeOK, Begin
<1>2. \A d \in Call \ {c} : /\ snips'[d] = snips[d] /\ status'[d] = status[d]
                            /\ job'[d] = job[d] /\ verified'[d] = verified[d]
  BY DEF IInv, TypeOK, Begin
<1>3. /\ snips'[c] = n /\ status'[c] = "open" /\ verified'[c] = verified[c]
      /\ variant' = variant /\ slot' = slot /\ lost' = lost
      /\ \A g \in Group : /\ job'[c][g] \in {"none", "queued", "ready"}
                          /\ job'[c][g] # "none" => g \in Groups(n)
  BY DEF IInv, TypeOK, Begin
<1>4. status[c] = "none" /\ snips[c] = 0 /\ \A g \in Group : verified[c][g] = 0
  BY DEF IInv, Untouched, Begin
<1>5. \A d \in Call : Untouched(d)'
  BY <1>2, <1>3 DEF IInv, Untouched
<1>6. ASSUME NEW d \in Call, NEW g \in Group PROVE HasWork(d, g)'
  <2>1. CASE d = c
    <3>1. g \in Groups(n) => Length(n, g) \in 1..GroupSize
      BY LengthBounds
    <3> QED BY <2>1, <3>1, <1>3, <1>4, RocqPoolAssumption DEF HasWork, Alive, Busy
  <2>2. CASE d # c
    BY <2>2, <1>2 DEF IInv, HasWork, Alive, Busy
  <2> QED BY <2>1, <2>2
<1>7. \A d \in Call : \A g \in Group :
        Alive(d, g)' => status'[d] = "open" \/ (status'[d] = "raised" /\ variant' = "tasks")
  BY <1>2, <1>3 DEF IInv, Alive, Busy
<1>8. OneCheck'
  BY <1>2, <1>3 DEF IInv, OneCheck, Begin
<1>9. FitsPool' => FitsPool
  <2>1. Groups(0) = {}
    BY RocqPoolAssumption DEF Groups, Group
  <2> QED BY <2>1, <1>2, <1>4 DEF FitsPool
<1>10. OpensEmpty' /\ NoConnectionLost'
  BY <1>2, <1>3, <1>9 DEF IInv, OpensEmpty, NoConnectionLost
<1> QED BY <1>1, <1>5, <1>6, <1>7, <1>8, <1>10 DEF IInv

LEMMA EndStep == ASSUME IInv, NEW c \in Call, End(c) PROVE IInv'
<1>1. PICK outcome \in {"returned", "raised"} :
        /\ Leaves(c, outcome)
        /\ \/ outcome = "returned" /\ \A g \in Groups(snips[c]) : Ended(c, g)
           \/ outcome = "raised" /\ (variant = "threads" =>
                                       \A g \in Groups(snips[c]) : Ended(c, g))
  BY DEF End, Return, Raise, Ended
<1>2. TypeOK'
  <2>1. \A g \in Group : 0 \in 0..GroupSize
    BY RocqPoolAssumption
  <2> QED BY <1>1, <2>1 DEF IInv, TypeOK, Leaves
<1>3. \A d \in Call \ {c} : /\ status'[d] = status[d]
                            /\ job'[d] = job[d] /\ verified'[d] = verified[d]
  BY <1>1 DEF IInv, TypeOK, Leaves
<1>4. /\ status[c] = "open" /\ status'[c] = outcome
      /\ \A g \in Group : \/ job'[c][g] = "none"
                          \/ ~Ended(c, g) /\ job'[c][g] = job[c][g]
                             /\ verified'[c][g] = verified[c][g]
      /\ variant' = variant /\ slot' = slot /\ lost' = lost /\ snips' = snips
  BY <1>1 DEF IInv, TypeOK, Leaves
<1>5. \A d \in Call : Untouched(d)'
  BY <1>1, <1>3, <1>4 DEF IInv, Untouched
<1>6. \A g \in Group : Alive(c, g)' => Alive(c, g) /\ ~Ended(c, g)
                                       /\ verified'[c][g] = verified[c][g]
  BY <1>4 DEF Alive, Busy, Ended
<1>7. \A d \in Call \ {c} : \A g \in Group : Alive(d, g)' => Alive(d, g)
  BY <1>3 DEF Alive, Busy
<1>8. \A d \in Call, g \in Group : HasWork(d, g)'
  BY <1>3, <1>4, <1>6, <1>7 DEF IInv, HasWork
<1>9. \A d \in Call : \A g \in Group :
        Alive(d, g)' => status'[d] = "open" \/ (status'[d] = "raised" /\ variant' = "tasks")
  <2>1. ASSUME NEW g \in Group, Alive(c, g)'
        PROVE  outcome = "raised" /\ variant = "tasks"
    <3>1. g \in Groups(snips[c])
      BY <1>6, <2>1 DEF IInv, HasWork
    <3> QED BY <1>1, <1>6, <2>1, <3>1 DEF IInv, TypeOK
  <2> QED BY <2>1, <1>3, <1>4, <1>7 DEF IInv
<1>10. OneCheck'
  BY <1>1, <1>3, <1>4 DEF IInv, OneCheck
<1>11. FitsPool' <=> FitsPool
  BY <1>4 DEF FitsPool
<1>12. \A d \in Call, g \in Group : job'[d][g] = "opening" => job[d][g] = "opening"
  BY <1>3, <1>4
<1>13. OpensEmpty' /\ NoConnectionLost'
  BY <1>4, <1>11, <1>12 DEF IInv, OpensEmpty, NoConnectionLost
<1> QED BY <1>2, <1>5, <1>8, <1>9, <1>10, <1>13 DEF IInv

LEMMA ThreadKeepsInv ==
  ASSUME IInv, NEW c \in Call, NEW g \in Group, ThreadStep(c, g)
  PROVE  IInv'
<1>1. /\ Alive(c, g)
      /\ variant' = variant /\ snips' = snips /\ status' = status
      /\ \A d \in Call, h \in Group : ~(d = c /\ h = g) =>
           job'[d][h] = job[d][h] /\ verified'[d][h] = verified[d][h]
  BY DEF IInv, TypeOK, ThreadStep, Take, Ensure, Open, Connect, Verify, ThreadRaises,
         Goes, Alive, Busy
<1>2. /\ g \in Groups(snips[c]) /\ snips[c] \in 0..MaxSnips
      /\ verified[c][g] < Length(snips[c], g) /\ verified[c][g] \in Nat
      /\ Length(snips[c], g) \in 1..GroupSize
      /\ status[c] # "none"
  <2>1. g \in Groups(snips[c]) /\ verified[c][g] < Length(snips[c], g)
    BY <1>1 DEF IInv, HasWork
  <2>2. snips[c] \in 0..MaxSnips /\ verified[c][g] \in Nat
    BY DEF IInv, TypeOK
  <2> QED BY <1>1, <2>1, <2>2, LengthBounds DEF IInv
<1>3. /\ TypeOK'
      /\ verified'[c][g] = verified[c][g] \/
           (verified'[c][g] = verified[c][g] + 1 /\
            (job'[c][g] = "finished" \/ verified'[c][g] # Length(snips[c], g)))
  <2>1. CASE Verify(c, g)
    <3>1. verified[c][g] + 1 \in 0..GroupSize
      BY <1>2, RocqPoolAssumption
    <3>2. verified' = [verified EXCEPT ![c][g] = verified[c][g] + 1]
      BY <2>1 DEF Verify
    <3>3. verified' \in [Call -> [Group -> 0..GroupSize]]
          /\ verified'[c][g] = verified[c][g] + 1
      BY <3>1, <3>2 DEF IInv, TypeOK
    <3>4. job' \in [Call -> [Group -> {"none", "queued", "ready", "opening", "connecting",
                                       "working", "finished", "raised"}]]
          /\ (job'[c][g] = "finished" \/ verified'[c][g] # Length(snips[c], g))
      BY <2>1 DEF IInv, TypeOK, Verify, Goes
    <3> QED BY <2>1, <3>3, <3>4 DEF IInv, TypeOK, Verify
  <2>2. CASE Take(c, g) \/ Ensure(c, g) \/ ThreadRaises(c, g)
    <3>1. PICK to \in {"ready", "opening", "working", "raised"} : Goes(c, g, to)
      BY <2>2 DEF Take, Ensure, ThreadRaises
    <3>2. UNCHANGED <<variant, snips, status, verified, slot, lost>>
      BY <2>2 DEF Take, Ensure, ThreadRaises
    <3> QED BY <3>1, <3>2 DEF IInv, TypeOK, Goes
  <2>3. CASE Open(c, g) \/ Connect(c, g)
    <3>1. PICK to \in {"connecting", "working"} : Goes(c, g, to)
      BY <2>3 DEF Open, Connect
    <3>2. /\ UNCHANGED <<variant, snips, status, verified>>
          /\ lost' \in BOOLEAN
          /\ slot' \in [Slot -> {"none", "made", "connected"}]
      BY <2>3 DEF IInv, TypeOK, Open, Connect
    <3> QED BY <3>1, <3>2 DEF IInv, TypeOK, Goes
  <2> QED BY <2>1, <2>2, <2>3 DEF ThreadStep
<1>4. \A d \in Call : Untouched(d)'
  BY <1>1, <1>2 DEF IInv, Untouched
<1>5. ASSUME NEW d \in Call, NEW h \in Group PROVE HasWork(d, h)'
  <2>1. CASE d = c /\ h = g
    BY <2>1, <1>1, <1>2, <1>3, RocqPoolAssumption DEF HasWork, Alive, Busy
  <2>2. CASE ~(d = c /\ h = g)
    BY <2>2, <1>1 DEF IInv, HasWork, Alive, Busy
  <2> QED BY <2>1, <2>2
<1>6. \A d \in Call : \A h \in Group :
        Alive(d, h)' => status'[d] = "open" \/ (status'[d] = "raised" /\ variant' = "tasks")
  <2>1. \A d \in Call, h \in Group : Alive(d, h)' => Alive(d, h)
    BY <1>1 DEF Alive, Busy
  <2> QED BY <2>1, <1>1 DEF IInv
<1>7. OneCheck'
  BY <1>1 DEF IInv, OneCheck
<1>8. FitsPool' <=> FitsPool
  BY <1>1 DEF FitsPool
<1>9. ASSUME variant = "threads", FitsPool,
             NEW d \in Call, NEW h \in Group, job'[d][h] = "opening"
      PROVE  slot'[SlotOf(h)] = "none"
  <2>1. CASE d = c /\ h = g
    BY <2>1, <1>9 DEF IInv, TypeOK, ThreadStep, Take, Ensure, Open, Connect, Verify,
                      ThreadRaises, Goes
  <2>2. CASE ~(d = c /\ h = g)
    <3>1. job[d][h] = "opening" /\ slot[SlotOf(h)] = "none"
      BY <2>2, <1>1, <1>9 DEF IInv, OpensEmpty
    <3>2. CASE slot' = slot
      BY <3>1, <3>2
    <3>3. CASE slot' # slot
      <4>1. Busy(c, g) /\ \A k \in Slot : k # SlotOf(g) => slot'[k] = slot[k]
        BY <3>3 DEF IInv, TypeOK, ThreadStep, Take, Ensure, Open, Connect, Verify,
                    ThreadRaises, Busy
      <4>2. SlotOf(h) # SlotOf(g)
        BY <2>2, <3>1, <4>1, <1>9, KeepsApart DEF ThreadsDoNotShare, Exclusive, Busy
      <4> QED BY <3>1, <4>1, <4>2, SlotInPool
    <3> QED BY <3>2, <3>3
  <2> QED BY <2>1, <2>2
<1>10. NoConnectionLost'
  <2>1. CASE Open(c, g)
    <3>1. variant = "threads" /\ FitsPool => slot[SlotOf(g)] = "none"
      BY <2>1 DEF IInv, OpensEmpty, Open
    <3> QED BY <2>1, <3>1, <1>8 DEF IInv, NoConnectionLost, Open
  <2>2. CASE ~Open(c, g)
    <3>1. lost' = lost
      BY <2>2 DEF ThreadStep, Take, Ensure, Connect, Verify, ThreadRaises
    <3> QED BY <3>1, <1>1, <1>8 DEF IInv, NoConnectionLost
  <2> QED BY <2>1, <2>2
<1>11. OpensEmpty'
  BY <1>1, <1>8, <1>9 DEF OpensEmpty
<1> QED BY <1>3, <1>4, <1>5, <1>6, <1>7, <1>10, <1>11 DEF IInv

LEMMA StutterKeepsInv == IInv /\ UNCHANGED vars => IInv'
BY DEF IInv, vars, TypeOK, Untouched, HasWork, Alive, Busy, OneCheck, OpensEmpty,
       NoConnectionLost, FitsPool

LEMMA Invariance == Spec => []IInv
<1>1. IInv /\ [Next]_vars => IInv'
  BY BeginStep, EndStep, ThreadKeepsInv, StutterKeepsInv DEF Next
<1> QED BY <1>1, InitInv, PTL DEF Spec

-----------------------------------------------------------------------------
(* The variables keep their types.                                         *)
THEOREM TypeCorrect == Spec => []TypeOK
<1>1. IInv => TypeOK
  BY DEF IInv
<1> QED BY <1>1, Invariance, PTL

(* RocqClient keeps the connections of its threads apart for every pool    *)
(* and every sequence of checks whose groups fit the pool.                 *)
THEOREM ThreadsStayApart == Spec => []ThreadsDoNotShare
BY KeepsApart, Invariance, PTL

(* And fills no slot twice.                                                *)
THEOREM NoConnectionGetsLost == Spec => []NoConnectionLost
<1>1. IInv => NoConnectionLost
  BY DEF IInv
<1> QED BY <1>1, Invariance, PTL

(* Only an asynchronous check that raised leaves threads behind.           *)
THEOREM ChecksCleanUp == Spec => []NothingLeftBehind
<1>1. IInv => NothingLeftBehind
  BY DEF IInv, NothingLeftBehind, Alive
<1> QED BY <1>1, Invariance, PTL
=============================================================================
