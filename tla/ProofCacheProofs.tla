-------------------------- MODULE ProofCacheProofs --------------------------
(***************************************************************************)
(* What holds of the proof cache for every number of tasks, every limit    *)
(* and lists of every length.                                              *)
(*                                                                         *)
(* A check walks through its list one snippet at a time, so the proofs go  *)
(* by induction on the number of snippets done.  Induction is stated for a *)
(* set of numbers and rests on the well-foundedness of the numbers.        *)
(***************************************************************************)
EXTENDS ProofCache, SequenceTheorems, WellFoundedInduction, TLAPS

Smaller == {p \in Nat \X Nat : p[1] < p[2]}

LEMMA SmallerWellFounded == IsWellFoundedOn(Smaller, Nat)
BY NatLessThanWellFounded DEF Smaller, OpToRel

LEMMA SetInduction ==
  ASSUME NEW S, 0 \in S, \A n \in Nat : n \in S => n + 1 \in S
  PROVE  \A n \in Nat : n \in S
<1> SUFFICES ASSUME NEW m \in Nat, m \notin S PROVE FALSE
  OBVIOUS
<1> DEFINE T == {n \in Nat : n \notin S}
<1>1. T \subseteq Nat /\ T # {}
  OBVIOUS
<1>2. PICK k \in T : \A n \in T : <<n, k>> \notin Smaller
  BY <1>1, WFMin, SmallerWellFounded
<1>3. k \in Nat /\ k \notin S /\ k # 0
  OBVIOUS
<1>4. k - 1 \in Nat /\ (k - 1) + 1 = k /\ <<k - 1, k>> \in Smaller
  BY <1>3 DEF Smaller
<1>5. k - 1 \in S
  BY <1>2, <1>4
<1> QED BY <1>3, <1>4, <1>5

-----------------------------------------------------------------------------
(* The walks through a list satisfy their recursion equations.             *)

LookedUpStep(c, s) ==
  IF s \in Keys(c.data)
  THEN [data |-> Get(c.data, s), recent |-> Use(c.recent, s)]
  ELSE c

StoredStep(c, e) == [data |-> Put(c.data, e), recent |-> Use(c.recent, e.key)]

LEMMA LookedUpIs ==
  ASSUME NEW snips, Len(snips) \in Nat
  PROVE  LookedUp(snips) =
           [i \in 0..Len(snips) |->
              IF i = 0 THEN Now ELSE LookedUpStep(LookedUp(snips)[i - 1], snips[i])]
<1> DEFINE Walk(g, n) ==
      g = [i \in 0..n |-> IF i = 0 THEN Now ELSE LookedUpStep(g[i - 1], snips[i])]
    S == {n \in Nat : \E g : Walk(g, n)}
<1>1. 0 \in S
  <2>1. Walk([i \in 0..0 |-> Now], 0)
    OBVIOUS
  <2> QED BY <2>1
<1>2. ASSUME NEW n \in Nat, n \in S PROVE n + 1 \in S
  <2>1. PICK g : Walk(g, n)
    BY <1>2
  <2> DEFINE h == [i \in 0..(n + 1) |-> IF i <= n THEN g[i]
                                       ELSE LookedUpStep(g[n], snips[n + 1])]
  <2>2. \A i \in 0..(n + 1) : h[i] = IF i = 0 THEN Now ELSE LookedUpStep(h[i - 1], snips[i])
    BY <2>1
  <2>3. Walk(h, n + 1)
    BY <2>2
  <2> HIDE DEF Walk, h
  <2>4. \E w : Walk(w, n + 1)
    BY <2>3
  <2> QED BY <2>4
<1> HIDE DEF S
<1>3. Len(snips) \in S
  BY <1>1, <1>2, SetInduction
<1>4. \E g : Walk(g, Len(snips))
  BY <1>3 DEF S
<1>5. LookedUp(snips) = CHOOSE g : Walk(g, Len(snips))
  BY DEF LookedUp, LookedUpStep
<1> QED BY <1>4, <1>5

LEMMA StoredIs ==
  ASSUME NEW entries, Len(entries) \in Nat
  PROVE  Stored(entries) =
           [i \in 0..Len(entries) |->
              IF i = 0 THEN Now ELSE StoredStep(Stored(entries)[i - 1], entries[i])]
<1> DEFINE Walk(g, n) ==
      g = [i \in 0..n |-> IF i = 0 THEN Now ELSE StoredStep(g[i - 1], entries[i])]
    S == {n \in Nat : \E g : Walk(g, n)}
<1>1. 0 \in S
  <2>1. Walk([i \in 0..0 |-> Now], 0)
    OBVIOUS
  <2> QED BY <2>1
<1>2. ASSUME NEW n \in Nat, n \in S PROVE n + 1 \in S
  <2>1. PICK g : Walk(g, n)
    BY <1>2
  <2> DEFINE h == [i \in 0..(n + 1) |-> IF i <= n THEN g[i]
                                       ELSE StoredStep(g[n], entries[n + 1])]
  <2>2. \A i \in 0..(n + 1) : h[i] = IF i = 0 THEN Now ELSE StoredStep(h[i - 1], entries[i])
    BY <2>1
  <2>3. Walk(h, n + 1)
    BY <2>2
  <2> HIDE DEF Walk, h
  <2>4. \E w : Walk(w, n + 1)
    BY <2>3
  <2> QED BY <2>4
<1> HIDE DEF S
<1>3. Len(entries) \in S
  BY <1>1, <1>2, SetInduction
<1>4. \E g : Walk(g, Len(entries))
  BY <1>3 DEF S
<1>5. Stored(entries) = CHOOSE g : Walk(g, Len(entries))
  BY DEF Stored, StoredStep
<1> QED BY <1>4, <1>5

MissesStep(c, m, i) == IF i \in DOMAIN c.hits THEN m ELSE Append(m, i)

LEMMA MissesUpToIs ==
  ASSUME NEW c, Len(c.snips) \in Nat
  PROVE  MissesUpTo(c) =
           [i \in 0..Len(c.snips) |->
              IF i = 0 THEN << >> ELSE MissesStep(c, MissesUpTo(c)[i - 1], i)]
<1> DEFINE Walk(g, n) ==
      g = [i \in 0..n |-> IF i = 0 THEN << >> ELSE MissesStep(c, g[i - 1], i)]
    S == {n \in Nat : \E g : Walk(g, n)}
<1>1. 0 \in S
  <2>1. Walk([i \in 0..0 |-> << >>], 0)
    OBVIOUS
  <2> QED BY <2>1
<1>2. ASSUME NEW n \in Nat, n \in S PROVE n + 1 \in S
  <2>1. PICK g : Walk(g, n)
    BY <1>2
  <2> DEFINE h == [i \in 0..(n + 1) |-> IF i <= n THEN g[i]
                                       ELSE MissesStep(c, g[n], n + 1)]
  <2>2. \A i \in 0..(n + 1) : h[i] = IF i = 0 THEN << >> ELSE MissesStep(c, h[i - 1], i)
    BY <2>1
  <2>3. Walk(h, n + 1)
    BY <2>2
  <2> HIDE DEF Walk, h
  <2>4. \E w : Walk(w, n + 1)
    BY <2>3
  <2> QED BY <2>4
<1> HIDE DEF S
<1>3. Len(c.snips) \in S
  BY <1>1, <1>2, SetInduction
<1>4. \E g : Walk(g, Len(c.snips))
  BY <1>3 DEF S
<1>5. MissesUpTo(c) = CHOOSE g : Walk(g, Len(c.snips))
  BY DEF MissesUpTo, MissesStep
<1> QED BY <1>4, <1>5

-----------------------------------------------------------------------------
(* Taking an element out and putting it, or another one, at the end.       *)

LEMMA Moved ==
  ASSUME NEW S, NEW s \in Seq(S), NEW p \in 1..Len(s), NEW x \in S
  PROVE  /\ Append(RemoveAt(s, p), x) \in Seq(S)
         /\ Len(Append(RemoveAt(s, p), x)) = Len(s)
         /\ \A i \in 1..Len(s) : Append(RemoveAt(s, p), x)[i] =
              IF i = Len(s) THEN x ELSE IF i < p THEN s[i] ELSE s[i + 1]
<1> DEFINE a == SubSeq(s, 1, p - 1)
           b == SubSeq(s, p + 1, Len(s))
<1>1. Len(s) \in Nat /\ \A i \in 1..Len(s) : s[i] \in S
  BY LenProperties
<1>2. /\ a \in Seq(S) /\ Len(a) = p - 1
      /\ \A i \in 1..(p - 1) : a[i] = s[i]
  <2>1. \A i \in 1..(p - 1) : s[i] \in S
    BY <1>1
  <2>2. /\ a \in Seq(S) /\ Len(a) = IF 1 <= p - 1 THEN (p - 1) - 1 + 1 ELSE 0
        /\ \A i \in 1..((p - 1) - 1 + 1) : a[i] = s[1 + i - 1]
    BY <2>1, SubSeqProperties
  <2> HIDE DEF a
  <2> QED BY <1>1, <2>2
<1>3. /\ b \in Seq(S) /\ Len(b) = Len(s) - p
      /\ \A i \in 1..(Len(s) - p) : b[i] = s[p + i]
  <2>1. \A i \in (p + 1)..Len(s) : s[i] \in S
    BY <1>1
  <2>2. /\ b \in Seq(S) /\ Len(b) = IF p + 1 <= Len(s) THEN Len(s) - (p + 1) + 1 ELSE 0
        /\ \A i \in 1..(Len(s) - (p + 1) + 1) : b[i] = s[(p + 1) + i - 1]
    BY <1>1, <2>1, SubSeqProperties
  <2> HIDE DEF b
  <2> QED BY <1>1, <2>2
<1> HIDE DEF a, b
<1>4. RemoveAt(s, p) = a \o b
  BY DEF RemoveAt, a, b
<1>5. /\ a \o b \in Seq(S) /\ Len(a \o b) = Len(s) - 1
      /\ \A i \in 1..(Len(s) - 1) : (a \o b)[i] = IF i < p THEN s[i] ELSE s[i + 1]
  <2>1. /\ a \o b \in Seq(S) /\ Len(a \o b) = Len(a) + Len(b)
        /\ \A i \in 1..(Len(a) + Len(b)) :
             (a \o b)[i] = IF i <= Len(a) THEN a[i] ELSE b[i - Len(a)]
    BY <1>2, <1>3, ConcatProperties
  <2> QED BY <1>1, <1>2, <1>3, <2>1
<1> DEFINE r == a \o b
<1> HIDE DEF r
<1>6. r \in Seq(S) /\ Len(r) = Len(s) - 1 /\ Len(r) \in Nat
  BY <1>1, <1>5 DEF r
<1>7. /\ Append(r, x) \in Seq(S) /\ Len(Append(r, x)) = Len(s)
      /\ \A i \in 1..Len(s) : Append(r, x)[i] = IF i = Len(s) THEN x ELSE r[i]
  BY <1>1, <1>6
<1>8. RemoveAt(s, p) = r
  BY <1>4 DEF r
<1>9. \A i \in 1..(Len(s) - 1) : r[i] = IF i < p THEN s[i] ELSE s[i + 1]
  BY <1>5 DEF r
<1>10. \A i \in 1..Len(s) : i # Len(s) => i \in 1..(Len(s) - 1)
  BY <1>1
<1> QED BY <1>7, <1>8, <1>9, <1>10

-----------------------------------------------------------------------------
(* One use of the cache.                                                   *)

(* The store d follows the order r of last use: it holds the snippets used *)
(* last, each with an answer about it, and as many as the limit allows.    *)
Follows(d, r) ==
  /\ d \in Seq(Entry) /\ r \in Seq(Snippet)
  /\ \A i, j \in 1..Len(r) : r[i] = r[j] => i = j
  /\ \A i \in 1..Len(d) : d[i].answer.about = d[i].key
  /\ Len(d) = IF Len(r) < maxsize THEN Len(r) ELSE maxsize
  /\ \A i \in 1..Len(d) : d[i].key = r[Len(r) - Len(d) + i]

LEMMA FollowsFacts ==
  ASSUME maxsize \in Nat, NEW d, NEW r, Follows(d, r)
  PROVE  /\ Len(d) \in Nat /\ Len(r) \in Nat /\ Len(d) <= Len(r) /\ Len(d) <= maxsize
         /\ DOMAIN d = 1..Len(d) /\ DOMAIN r = 1..Len(r)
         /\ Len(d) < maxsize => Len(d) = Len(r)
         /\ \A i \in 1..Len(d) : d[i] \in Entry /\ d[i].key \in Snippet
         /\ \A i \in 1..Len(r) : r[i] \in Snippet
<1>1. d \in Seq(Entry) /\ r \in Seq(Snippet)
  BY DEF Follows
<1>2. Len(d) \in Nat /\ Len(r) \in Nat /\ DOMAIN d = 1..Len(d) /\ DOMAIN r = 1..Len(r)
  BY <1>1, LenProperties
<1>3. \A i \in 1..Len(d) : d[i] \in Entry
  BY <1>1, ElementOfSeq
<1>4. \A i \in 1..Len(r) : r[i] \in Snippet
  BY <1>1, ElementOfSeq
<1>5. Len(d) = IF Len(r) < maxsize THEN Len(r) ELSE maxsize
  BY DEF Follows
<1>6. /\ Len(d) <= Len(r) /\ Len(d) <= maxsize
      /\ Len(d) < maxsize => Len(d) = Len(r)
  <2>1. \A a, b, c \in Nat : a = (IF b < c THEN b ELSE c) =>
          a <= b /\ a <= c /\ (a < c => a = b)
    OBVIOUS
  <2>2. Len(d) \in Nat /\ Len(r) \in Nat
    BY <1>2
  <2> QED BY <1>5, <2>1, <2>2, Zenon
<1>7. \A e \in Entry : e.key \in Snippet
  BY DEF Entry
<1> QED BY <1>2, <1>3, <1>4, <1>6, <1>7

(* An entry is where Place says, and no other has its key.                 *)
LEMMA PlaceOfKey ==
  ASSUME maxsize \in Nat, NEW d, NEW r, Follows(d, r), NEW s \in Keys(d)
  PROVE  /\ Place(d, s) \in 1..Len(d) /\ d[Place(d, s)].key = s
         /\ \A i \in 1..Len(d) : d[i].key = s => i = Place(d, s)
<1>1. \E i \in DOMAIN d : d[i].key = s
  BY DEF Keys
<1>2. Place(d, s) \in DOMAIN d /\ d[Place(d, s)].key = s
  BY <1>1 DEF Place
<1>3. \A i, j \in 1..Len(d) : d[i].key = d[j].key => i = j
  <2> TAKE i, j \in 1..Len(d)
  <2>1. d[i].key = r[Len(r) - Len(d) + i] /\ d[j].key = r[Len(r) - Len(d) + j]
    BY DEF Follows
  <2>2. Len(r) - Len(d) + i \in 1..Len(r) /\ Len(r) - Len(d) + j \in 1..Len(r)
    BY FollowsFacts
  <2>3. d[i].key = d[j].key => Len(r) - Len(d) + i = Len(r) - Len(d) + j
    BY <2>1, <2>2 DEF Follows
  <2> QED BY <2>3, FollowsFacts
<1> QED BY <1>2, <1>3, FollowsFacts

(* The end of the order of last use when s was used before, and when not.  *)
LEMMA UseAgain ==
  ASSUME NEW r \in Seq(Snippet), \A i, j \in 1..Len(r) : r[i] = r[j] => i = j,
         NEW q \in 1..Len(r)
  PROVE  /\ Use(r, r[q]) \in Seq(Snippet) /\ Len(Use(r, r[q])) = Len(r)
         /\ \A i \in 1..Len(r) : Use(r, r[q])[i] =
              IF i = Len(r) THEN r[q] ELSE IF i < q THEN r[i] ELSE r[i + 1]
         /\ \A i, j \in 1..Len(r) : Use(r, r[q])[i] = Use(r, r[q])[j] => i = j
<1>1. DOMAIN r = 1..Len(r) /\ Len(r) \in Nat /\ r[q] \in Snippet
  BY LenProperties, ElementOfSeq
<1>2. (CHOOSE i \in DOMAIN r : r[i] = r[q]) = q
  BY <1>1
<1>3. Use(r, r[q]) = Append(RemoveAt(r, q), r[q])
  BY <1>1, <1>2 DEF Use
<1>4. /\ Use(r, r[q]) \in Seq(Snippet) /\ Len(Use(r, r[q])) = Len(r)
      /\ \A i \in 1..Len(r) : Use(r, r[q])[i] =
           IF i = Len(r) THEN r[q] ELSE IF i < q THEN r[i] ELSE r[i + 1]
  <2>1. /\ Append(RemoveAt(r, q), r[q]) \in Seq(Snippet)
        /\ Len(Append(RemoveAt(r, q), r[q])) = Len(r)
        /\ \A i \in 1..Len(r) : Append(RemoveAt(r, q), r[q])[i] =
             IF i = Len(r) THEN r[q] ELSE IF i < q THEN r[i] ELSE r[i + 1]
    <3>1. \A x \in Snippet :
            /\ Append(RemoveAt(r, q), x) \in Seq(Snippet)
            /\ Len(Append(RemoveAt(r, q), x)) = Len(r)
            /\ \A i \in 1..Len(r) : Append(RemoveAt(r, q), x)[i] =
                 IF i = Len(r) THEN x ELSE IF i < q THEN r[i] ELSE r[i + 1]
      BY Moved
    <3> QED BY <1>1, <3>1, Zenon
  <2> QED BY <1>3, <2>1, Zenon
<1>5. \A i, j \in 1..Len(r) : Use(r, r[q])[i] = Use(r, r[q])[j] => i = j
  <2> TAKE i, j \in 1..Len(r)
  <2> DEFINE o(k) == IF k = Len(r) THEN q ELSE IF k < q THEN k ELSE k + 1
  <2>4. Len(r) \in Nat
    BY <1>1
  <2>1. o(i) \in 1..Len(r) /\ o(j) \in 1..Len(r)
    BY <2>4
  <2>2. Use(r, r[q])[i] = r[o(i)] /\ Use(r, r[q])[j] = r[o(j)]
    BY <1>4
  <2>3. o(i) = o(j) => i = j
    BY <2>4
  <2> HIDE DEF o
  <2> QED BY <2>1, <2>2, <2>3
<1> QED BY <1>4, <1>5

LEMMA UseFirst ==
  ASSUME NEW r \in Seq(Snippet), \A i, j \in 1..Len(r) : r[i] = r[j] => i = j,
         NEW s \in Snippet, \A i \in 1..Len(r) : r[i] # s
  PROVE  /\ Use(r, s) \in Seq(Snippet) /\ Len(Use(r, s)) = Len(r) + 1
         /\ \A i \in 1..(Len(r) + 1) : Use(r, s)[i] = IF i = Len(r) + 1 THEN s ELSE r[i]
         /\ \A i, j \in 1..(Len(r) + 1) : Use(r, s)[i] = Use(r, s)[j] => i = j
<1>1. DOMAIN r = 1..Len(r) /\ Len(r) \in Nat
  BY LenProperties
<1>2. Use(r, s) = Append(r, s)
  BY <1>1 DEF Use
<1>3. /\ Append(r, s) \in Seq(Snippet) /\ Len(Append(r, s)) = Len(r) + 1
      /\ \A i \in 1..(Len(r) + 1) : Append(r, s)[i] = IF i = Len(r) + 1 THEN s ELSE r[i]
  BY <1>1
<1>4. \A i \in 1..(Len(r) + 1) : i # Len(r) + 1 => i \in 1..Len(r)
  BY <1>1
<1> QED BY <1>1, <1>2, <1>3, <1>4

(* A kept snippet is used: its entry, or a new one, moves to the end.      *)
LEMMA FollowsWhenKept ==
  ASSUME maxsize \in Nat, NEW d, NEW r, Follows(d, r),
         NEW e \in Entry, e.answer.about = e.key, e.key \in Keys(d)
  PROVE  LET new == Append(Without(d, e.key), e) IN
         /\ Follows(new, Use(r, e.key)) /\ Len(new) = Len(d)
         /\ \A f \in ToSet(new) : f = e \/ f \in ToSet(d)
<1> DEFINE p == Place(d, e.key)
           k == Len(r) - Len(d)
           new == Append(RemoveAt(d, p), e)
           u == Use(r, e.key)
<1>1. /\ Len(d) \in Nat /\ Len(r) \in Nat /\ Len(d) <= Len(r) /\ Len(d) <= maxsize
      /\ k \in Nat /\ DOMAIN d = 1..Len(d)
  BY FollowsFacts
<1>2. p \in 1..Len(d) /\ d[p].key = e.key
  BY PlaceOfKey
<1>3. /\ new \in Seq(Entry) /\ Len(new) = Len(d)
      /\ \A i \in 1..Len(d) : new[i] =
           IF i = Len(d) THEN e ELSE IF i < p THEN d[i] ELSE d[i + 1]
  <2>1. d \in Seq(Entry)
    BY DEF Follows
  <2> HIDE DEF p
  <2> QED BY <1>2, <2>1, Moved
<1>4. k + p \in 1..Len(r) /\ r[k + p] = e.key
  <2>1. \A i \in 1..Len(d) : d[i].key = r[k + i]
    BY DEF Follows
  <2> HIDE DEF p
  <2>2. r[k + p] = e.key
    BY <1>2, <2>1
  <2> QED BY <1>1, <1>2, <2>2
<1>5. /\ u \in Seq(Snippet) /\ Len(u) = Len(r)
      /\ \A i \in 1..Len(r) : u[i] =
           IF i = Len(r) THEN e.key ELSE IF i < k + p THEN r[i] ELSE r[i + 1]
      /\ \A i, j \in 1..Len(r) : u[i] = u[j] => i = j
  BY <1>4, UseAgain DEF Follows
<1> HIDE DEF p, new, u
<1>6. ASSUME NEW i \in 1..Len(d)
      PROVE  new[i].key = u[k + i] /\ new[i].answer.about = new[i].key
             /\ (new[i] = e \/ new[i] \in ToSet(d))
  <2>1. k + i \in 1..Len(r) /\ (k + i = Len(r) <=> i = Len(d)) /\ (k + i < k + p <=> i < p)
        /\ (i # Len(d) => i + 1 \in 1..Len(d)) /\ k + i + 1 = k + (i + 1)
    BY <1>1, <1>2
  <2>2. \A j \in 1..Len(d) : d[j].key = r[k + j] /\ d[j].answer.about = d[j].key
                             /\ d[j] \in ToSet(d)
    BY <1>1 DEF Follows, ToSet
  <2>3. CASE i = Len(d)
    BY <1>3, <1>5, <2>1, <2>3
  <2>4. CASE i # Len(d) /\ i < p
    BY <1>3, <1>5, <2>1, <2>2, <2>4
  <2>5. CASE i # Len(d) /\ ~(i < p)
    <3>1. new[i] = d[i + 1] /\ u[k + i] = r[k + i + 1]
      BY <1>3, <1>5, <2>1, <2>5
    <3>2. i + 1 \in 1..Len(d)
      BY <2>1, <2>5
    <3>3. d[i + 1].key = r[k + i + 1]
      BY <2>1, <2>2, <3>2
    <3> QED BY <2>2, <3>1, <3>2, <3>3
  <2> QED BY <2>3, <2>4, <2>5
<1>7. Follows(new, u)
  BY <1>3, <1>5, <1>6 DEF Follows
<1>8. DOMAIN new = 1..Len(d)
  BY <1>3, LenProperties
<1>9. \A f \in ToSet(new) : f = e \/ f \in ToSet(d)
  BY <1>6, <1>8 DEF ToSet
<1>10. Append(Without(d, e.key), e) = new
  BY DEF Without, new, p
<1> QED BY <1>3, <1>7, <1>9, <1>10 DEF u

(* The least recently used entry makes room.                               *)
LEMMA TailProperties ==
  ASSUME NEW S, NEW s \in Seq(S), NEW x \in S
  PROVE  /\ Append(s, x) \in Seq(S) /\ Len(Append(s, x)) = Len(s) + 1
         /\ \A i \in 1..(Len(s) + 1) : Append(s, x)[i] = IF i = Len(s) + 1 THEN x ELSE s[i]
         /\ Tail(Append(s, x)) \in Seq(S) /\ Len(Tail(Append(s, x))) = Len(s)
         /\ \A i \in 1..Len(s) : Tail(Append(s, x))[i] = IF i = Len(s) THEN x ELSE s[i + 1]
<1>1. Len(s) \in Nat
  BY LenProperties
<1>2. /\ Append(s, x) \in Seq(S) /\ Len(Append(s, x)) = Len(s) + 1
      /\ \A i \in 1..(Len(s) + 1) : Append(s, x)[i] = IF i = Len(s) + 1 THEN x ELSE s[i]
  BY <1>1
<1> DEFINE a == Append(s, x)
<1> HIDE DEF a
<1>3. a \in Seq(S) /\ Len(a) = Len(s) + 1 /\ a # << >>
  BY <1>1, <1>2 DEF a
<1>4. /\ Tail(a) \in Seq(S) /\ Len(Tail(a)) = Len(a) - 1
      /\ \A i \in 1..Len(Tail(a)) : Tail(a)[i] = a[i + 1]
  BY <1>3, HeadTailProperties
<1>5. Len(Tail(a)) = Len(s)
  BY <1>1, <1>3, <1>4
<1>6. \A i \in 1..Len(s) : Tail(a)[i] = IF i = Len(s) THEN x ELSE s[i + 1]
  <2>1. \A i \in 1..(Len(s) + 1) : a[i] = IF i = Len(s) + 1 THEN x ELSE s[i]
    BY <1>2 DEF a
  <2>2. \A i \in 1..Len(s) : i + 1 \in 1..(Len(s) + 1) /\ (i + 1 = Len(s) + 1 <=> i = Len(s))
    BY <1>1
  <2> QED BY <1>4, <1>5, <2>1, <2>2
<1> QED BY <1>2, <1>4, <1>5, <1>6 DEF a

(* A snippet is put that is not kept: it never was used or was evicted.    *)
LEMMA FollowsWhenNew ==
  ASSUME maxsize \in Nat, NEW d, NEW r, Follows(d, r),
         NEW e \in Entry, e.answer.about = e.key, e.key \notin Keys(d)
  PROVE  /\ Follows(Put(d, e), Use(r, e.key))
         /\ \A f \in ToSet(Put(d, e)) : f = e \/ f \in ToSet(d)
<1> DEFINE new == Put(d, e)
           u == Use(r, e.key)
<1>1. PICK n \in Nat, m \in Nat, k \in Nat :
        /\ n = Len(d) /\ m = Len(r) /\ m = n + k /\ n <= maxsize
        /\ n < maxsize => k = 0
  <2>1. /\ Len(d) \in Nat /\ Len(r) \in Nat /\ Len(d) <= Len(r) /\ Len(d) <= maxsize
        /\ Len(d) < maxsize => Len(d) = Len(r)
    BY FollowsFacts
  <2>2. \A a, b \in Nat : a <= b => b - a \in Nat /\ b = a + (b - a) /\ (a = b => b - a = 0)
    OBVIOUS
  <2> QED BY <2>1, <2>2
<1>2. /\ d \in Seq(Entry) /\ r \in Seq(Snippet) /\ e.key \in Snippet
      /\ \A i, j \in 1..m : r[i] = r[j] => i = j
      /\ \A i \in 1..n : d[i].key = r[k + i] /\ d[i].answer.about = d[i].key
      /\ DOMAIN d = 1..n
  <2>1. m - n = k
    BY <1>1
  <2>2. DOMAIN d = 1..Len(d)
    BY FollowsFacts
  <2> QED BY <1>1, <2>1, <2>2 DEF Follows, Entry
<1>3. \A i \in 1..n : d[i].key # e.key /\ d[i] \in ToSet(d)
  BY <1>2 DEF Keys, ToSet
<1>4. /\ Append(d, e) \in Seq(Entry) /\ Len(Append(d, e)) = n + 1
      /\ \A i \in 1..(n + 1) : Append(d, e)[i] = IF i = n + 1 THEN e ELSE d[i]
      /\ Tail(Append(d, e)) \in Seq(Entry) /\ Len(Tail(Append(d, e))) = n
      /\ \A i \in 1..n : Tail(Append(d, e))[i] = IF i = n THEN e ELSE d[i + 1]
  BY <1>1, <1>2, TailProperties
<1>5. new = IF n + 1 > maxsize THEN Tail(Append(d, e)) ELSE Append(d, e)
  BY <1>4 DEF Put, Without
<1>first. (\A i \in 1..m : r[i] # e.key) =>
            /\ u \in Seq(Snippet) /\ Len(u) = m + 1
            /\ \A i \in 1..(m + 1) : u[i] = IF i = m + 1 THEN e.key ELSE r[i]
            /\ \A i, j \in 1..(m + 1) : u[i] = u[j] => i = j
  <2>1. SUFFICES ASSUME \A i \in 1..Len(r) : r[i] # e.key
                 PROVE  /\ u \in Seq(Snippet) /\ Len(u) = Len(r) + 1
                        /\ \A i \in 1..(Len(r) + 1) : u[i] =
                             IF i = Len(r) + 1 THEN e.key ELSE r[i]
                        /\ \A i, j \in 1..(Len(r) + 1) : u[i] = u[j] => i = j
    BY <1>1
  <2>2. \A i, j \in 1..Len(r) : r[i] = r[j] => i = j
    BY DEF Follows
  <2> QED BY <1>2, <2>1, <2>2, UseFirst
<1>again. \A q \in 1..m : r[q] = e.key =>
            /\ u \in Seq(Snippet) /\ Len(u) = m
            /\ \A i \in 1..m : u[i] = IF i = m THEN e.key ELSE IF i < q THEN r[i] ELSE r[i + 1]
            /\ \A i, j \in 1..m : u[i] = u[j] => i = j
  <2>1. SUFFICES ASSUME NEW q \in 1..Len(r), r[q] = e.key
                 PROVE  /\ u \in Seq(Snippet) /\ Len(u) = Len(r)
                        /\ \A i \in 1..Len(r) : u[i] =
                             IF i = Len(r) THEN e.key ELSE IF i < q THEN r[i] ELSE r[i + 1]
                        /\ \A i, j \in 1..Len(r) : u[i] = u[j] => i = j
    BY <1>1
  <2>2. \A i, j \in 1..Len(r) : r[i] = r[j] => i = j
    BY DEF Follows
  <2> QED BY <1>2, <2>1, <2>2, UseAgain
<1> HIDE DEF new, u
<1>6. CASE n < maxsize
  <2>1. /\ new \in Seq(Entry) /\ Len(new) = n + 1
        /\ \A i \in 1..(n + 1) : new[i] = IF i = n + 1 THEN e ELSE d[i]
    <3>1. new = Append(d, e)
      BY <1>1, <1>5, <1>6
    <3> QED BY <1>4, <3>1
  <2>2. n = m /\ k = 0
    BY <1>1, <1>6
  <2>3. \A i \in 1..m : r[i] # e.key
    BY <1>2, <1>3, <2>2
  <2>4. /\ u \in Seq(Snippet) /\ Len(u) = n + 1
        /\ \A i \in 1..(n + 1) : u[i] = IF i = n + 1 THEN e.key ELSE r[i]
        /\ \A i, j \in 1..(n + 1) : u[i] = u[j] => i = j
    BY <1>first, <2>2, <2>3
  <2>5. ASSUME NEW i \in 1..(n + 1)
        PROVE  /\ new[i].key = u[i] /\ new[i].answer.about = new[i].key
               /\ new[i] = e \/ new[i] \in ToSet(d)
    <3>1. i # n + 1 => i \in 1..n /\ k + i = i
      BY <1>1, <2>2
    <3> QED BY <1>2, <1>3, <2>1, <2>4, <3>1
  <2>6. Len(new) = IF Len(u) < maxsize THEN Len(u) ELSE maxsize
    <3>1. Len(new) = n + 1 /\ Len(u) = n + 1
      BY <2>1, <2>4
    <3> QED BY <1>1, <1>6, <3>1
  <2>7. Len(u) - Len(new) = 0 /\ \A i \in 1..Len(new) : 0 + i = i
    BY <1>1, <2>1, <2>4
  <2>8. Follows(new, u)
    BY <2>1, <2>4, <2>5, <2>6, <2>7 DEF Follows
  <2>9. DOMAIN new = 1..(n + 1)
    BY <2>1, LenProperties
  <2> QED BY <2>5, <2>8, <2>9 DEF ToSet, new, u
<1>7. CASE n = maxsize
  <2>1. /\ new \in Seq(Entry) /\ Len(new) = n
        /\ \A i \in 1..n : new[i] = IF i = n THEN e ELSE d[i + 1]
    <3>1. new = Tail(Append(d, e))
      BY <1>1, <1>5, <1>7
    <3> QED BY <1>4, <3>1
  <2>2. \E l \in Nat : /\ l >= n /\ u \in Seq(Snippet) /\ Len(u) = l
                       /\ \A i, j \in 1..l : u[i] = u[j] => i = j
                       /\ \A i \in 1..n : u[l - n + i] = IF i = n THEN e.key ELSE r[k + (i + 1)]
    <3>1. CASE \E q \in 1..m : r[q] = e.key
      <4>1. PICK q \in 1..m : r[q] = e.key
        BY <3>1
      <4>2. q <= k
        <5>1. q \in Nat /\ (q > k => q - k \in 1..n /\ k + (q - k) = q)
          BY <1>1
        <5>2. \A i \in 1..n : r[k + i] # e.key
          BY <1>2, <1>3
        <5>3. ~(q > k)
          BY <4>1, <5>1, <5>2
        <5> QED BY <5>1, <5>3
      <4>3. /\ u \in Seq(Snippet) /\ Len(u) = m
            /\ \A i \in 1..m : u[i] =
                 IF i = m THEN e.key ELSE IF i < q THEN r[i] ELSE r[i + 1]
            /\ \A i, j \in 1..m : u[i] = u[j] => i = j
        BY <1>again, <4>1
      <4>4. ASSUME NEW i \in 1..n PROVE u[k + i] = IF i = n THEN e.key ELSE r[k + (i + 1)]
        <5>1. /\ k + i \in 1..m /\ (k + i = m <=> i = n) /\ ~(k + i < q)
              /\ k + i + 1 = k + (i + 1)
          BY <1>1, <4>2
        <5> QED BY <4>3, <5>1
      <4>5. m >= n /\ m - n = k
        BY <1>1
      <4> QED BY <4>3, <4>4, <4>5
    <3>2. CASE \A i \in 1..m : r[i] # e.key
      <4>1. /\ u \in Seq(Snippet) /\ Len(u) = m + 1
            /\ \A i \in 1..(m + 1) : u[i] = IF i = m + 1 THEN e.key ELSE r[i]
            /\ \A i, j \in 1..(m + 1) : u[i] = u[j] => i = j
        BY <1>first, <3>2
      <4> DEFINE l == m + 1
      <4>2. ASSUME NEW i \in 1..n PROVE u[l - n + i] = IF i = n THEN e.key ELSE r[k + (i + 1)]
        <5>1. /\ l - n + i \in 1..l /\ (l - n + i = l <=> i = n)
              /\ l - n + i = k + (i + 1)
          BY <1>1
        <5> QED BY <4>1, <5>1
      <4>3. l \in Nat /\ l >= n
        BY <1>1
      <4> QED BY <4>1, <4>2, <4>3
    <3> QED BY <3>1, <3>2
  <2>3. PICK l \in Nat : /\ l >= n /\ u \in Seq(Snippet) /\ Len(u) = l
                         /\ \A i, j \in 1..l : u[i] = u[j] => i = j
                         /\ \A i \in 1..n : u[l - n + i] =
                              IF i = n THEN e.key ELSE r[k + (i + 1)]
    BY <2>2
  <2>4. ASSUME NEW i \in 1..n
        PROVE  /\ new[i].key = u[l - n + i] /\ new[i].answer.about = new[i].key
               /\ new[i] = e \/ new[i] \in ToSet(d)
    <3>1. CASE i = n
      BY <2>1, <2>3, <3>1
    <3>2. CASE i # n
      <4>1. i + 1 \in 1..n
        BY <1>1, <3>2
      <4>2. new[i] = d[i + 1] /\ u[l - n + i] = r[k + (i + 1)]
        BY <2>1, <2>3, <3>2
      <4> QED BY <1>2, <1>3, <4>1, <4>2
    <3> QED BY <3>1, <3>2
  <2>5. Len(new) = IF Len(u) < maxsize THEN Len(u) ELSE maxsize
    <3>1. Len(new) = n /\ Len(u) = l /\ l \in Nat /\ l >= n
      BY <2>1, <2>3
    <3> QED BY <1>1, <1>7, <3>1
  <2>6. Follows(new, u)
    BY <2>1, <2>3, <2>4, <2>5 DEF Follows
  <2>7. DOMAIN new = 1..n
    BY <2>1, LenProperties
  <2> QED BY <2>4, <2>6, <2>7 DEF ToSet, new, u
<1>8. n < maxsize \/ n = maxsize
  BY <1>1
<1> QED BY <1>6, <1>7, <1>8

-----------------------------------------------------------------------------
(* Looking up and storing, as single uses and as walks.                    *)

LEMMA GetFollows ==
  ASSUME maxsize \in Nat, NEW d, NEW r, Follows(d, r), NEW s \in Keys(d)
  PROVE  /\ Follows(Get(d, s), Use(r, s))
         /\ \A f \in ToSet(Get(d, s)) : f \in ToSet(d)
<1> DEFINE e == Filed(d, s)
<1>1. e \in Entry /\ e.key = s /\ e \in ToSet(d) /\ e.answer.about = e.key
  <2>1. Place(d, s) \in 1..Len(d) /\ d[Place(d, s)].key = s
    BY PlaceOfKey
  <2>2. DOMAIN d = 1..Len(d) /\ \A i \in 1..Len(d) : d[i] \in Entry
    BY FollowsFacts
  <2>3. \A i \in 1..Len(d) : d[i].answer.about = d[i].key
    BY DEF Follows
  <2> QED BY <2>1, <2>2, <2>3 DEF Filed, ToSet
<1>2. Get(d, s) = Append(Without(d, e.key), e)
  BY <1>1 DEF Get
<1> HIDE DEF e
<1> QED BY <1>1, <1>2, FollowsWhenKept

LEMMA PutFollows ==
  ASSUME maxsize \in Nat, NEW d, NEW r, Follows(d, r),
         NEW e \in Entry, e.answer.about = e.key
  PROVE  /\ Follows(Put(d, e), Use(r, e.key))
         /\ \A f \in ToSet(Put(d, e)) : f = e \/ f \in ToSet(d)
<1>1. CASE e.key \in Keys(d)
  <2> DEFINE new == Append(Without(d, e.key), e)
  <2>1. /\ Follows(new, Use(r, e.key)) /\ Len(new) = Len(d)
        /\ \A f \in ToSet(new) : f = e \/ f \in ToSet(d)
    BY <1>1, FollowsWhenKept
  <2>2. ~(Len(d) > maxsize)
    BY FollowsFacts
  <2>3. Put(d, e) = new
    BY <2>1, <2>2 DEF Put
  <2> HIDE DEF new
  <2> QED BY <2>1, <2>3
<1>2. CASE e.key \notin Keys(d)
  BY <1>2, FollowsWhenNew
<1> QED BY <1>1, <1>2

(* What the walk through a list of snippets, and through a list of entries *)
(* that are about their keys, leaves in the store.                         *)
LEMMA LookedUpFollows ==
  ASSUME maxsize \in Nat, Follows(data, recent), NEW snips \in Seq(Snippet)
  PROVE  LET c == LookedUp(snips)[Len(snips)] IN
         /\ Follows(c.data, c.recent)
         /\ \A f \in ToSet(c.data) : f \in ToSet(data)
<1> DEFINE W == LookedUp(snips)
           Good(c) == /\ Follows(c.data, c.recent)
                      /\ \A f \in ToSet(c.data) : f \in ToSet(data)
           S == {i \in Nat : i <= Len(snips) => Good(W[i])}
<1>1. Len(snips) \in Nat
  BY LenProperties
<1>2. /\ W[0] = Now
      /\ \A i \in Nat : i + 1 <= Len(snips) => W[i + 1] = LookedUpStep(W[i], snips[i + 1])
  <2>1. W = [i \in 0..Len(snips) |-> IF i = 0 THEN Now ELSE LookedUpStep(W[i - 1], snips[i])]
    BY <1>1, LookedUpIs
  <2> HIDE DEF W
  <2>2. \A i \in Nat : i + 1 <= Len(snips) =>
          i + 1 \in 0..Len(snips) /\ i + 1 # 0 /\ (i + 1) - 1 = i
    BY <1>1
  <2> QED BY <1>1, <2>1, <2>2
<1> HIDE DEF W
<1>3. 0 \in S
  BY <1>2 DEF Now
<1>4. ASSUME NEW i \in Nat, i \in S PROVE i + 1 \in S
  <2> SUFFICES ASSUME i + 1 <= Len(snips) PROVE Good(W[i + 1])
    OBVIOUS
  <2>1. Good(W[i])
    BY <1>1, <1>4
  <2>2. CASE snips[i + 1] \in Keys(W[i].data)
    <3>1. W[i + 1] = [data   |-> Get(W[i].data, snips[i + 1]),
                      recent |-> Use(W[i].recent, snips[i + 1])]
      BY <1>2, <2>2 DEF LookedUpStep
    <3>2. /\ Follows(Get(W[i].data, snips[i + 1]), Use(W[i].recent, snips[i + 1]))
          /\ \A f \in ToSet(Get(W[i].data, snips[i + 1])) : f \in ToSet(W[i].data)
      BY <2>1, <2>2, GetFollows
    <3> QED BY <2>1, <3>1, <3>2
  <2>3. CASE snips[i + 1] \notin Keys(W[i].data)
    <3>1. W[i + 1] = W[i]
      BY <1>2, <2>3 DEF LookedUpStep
    <3> QED BY <2>1, <3>1
  <2> QED BY <2>2, <2>3
<1> HIDE DEF S
<1>5. Len(snips) \in S
  BY <1>1, <1>3, <1>4, SetInduction
<1> QED BY <1>1, <1>5 DEF S, W

LEMMA StoredFollows ==
  ASSUME maxsize \in Nat, Follows(data, recent), NEW entries \in Seq(Entry),
         \A i \in 1..Len(entries) : entries[i].answer.about = entries[i].key
  PROVE  LET c == Stored(entries)[Len(entries)] IN
         /\ Follows(c.data, c.recent)
         /\ \A f \in ToSet(c.data) : f \in ToSet(data) \/ f \in ToSet(entries)
<1> DEFINE W == Stored(entries)
           Good(c) == /\ Follows(c.data, c.recent)
                      /\ \A f \in ToSet(c.data) : f \in ToSet(data) \/ f \in ToSet(entries)
           S == {i \in Nat : i <= Len(entries) => Good(W[i])}
<1>1. Len(entries) \in Nat /\ DOMAIN entries = 1..Len(entries)
  BY LenProperties
<1>2. /\ W[0] = Now
      /\ \A i \in Nat : i + 1 <= Len(entries) =>
           W[i + 1] = StoredStep(W[i], entries[i + 1]) /\ i + 1 \in 1..Len(entries)
  <2>1. W = [i \in 0..Len(entries) |-> IF i = 0 THEN Now ELSE StoredStep(W[i - 1], entries[i])]
    BY <1>1, StoredIs
  <2> HIDE DEF W
  <2>2. \A i \in Nat : i + 1 <= Len(entries) =>
          /\ i + 1 \in 0..Len(entries) /\ i + 1 # 0 /\ (i + 1) - 1 = i
          /\ i + 1 \in 1..Len(entries)
    BY <1>1
  <2> QED BY <1>1, <2>1, <2>2
<1> HIDE DEF W
<1>3. 0 \in S
  BY <1>2 DEF Now
<1>4. ASSUME NEW i \in Nat, i \in S PROVE i + 1 \in S
  <2> SUFFICES ASSUME i + 1 <= Len(entries) PROVE Good(W[i + 1])
    OBVIOUS
  <2>1. Good(W[i])
    BY <1>1, <1>4
  <2> DEFINE e == entries[i + 1]
  <2>2. e \in Entry /\ e.answer.about = e.key /\ e \in ToSet(entries)
    <3>1. i + 1 \in 1..Len(entries)
      BY <1>2
    <3> QED BY <1>1, <3>1, ElementOfSeq DEF ToSet
  <2>3. W[i + 1] = [data |-> Put(W[i].data, e), recent |-> Use(W[i].recent, e.key)]
    BY <1>2 DEF StoredStep
  <2> HIDE DEF e
  <2>4. /\ Follows(Put(W[i].data, e), Use(W[i].recent, e.key))
        /\ \A f \in ToSet(Put(W[i].data, e)) : f = e \/ f \in ToSet(W[i].data)
    BY <2>1, <2>2, PutFollows
  <2> QED BY <2>1, <2>2, <2>3, <2>4
<1> HIDE DEF S
<1>5. Len(entries) \in S
  BY <1>1, <1>3, <1>4, SetInduction
<1> QED BY <1>1, <1>5 DEF S, W

(* The positions that are sent are those that were not found.              *)
LEMMA MissesAre ==
  ASSUME NEW c, c.snips \in Seq(Snippet)
  PROVE  /\ Misses(c) \in Seq(1..Len(c.snips))
         /\ \A j \in 1..Len(Misses(c)) : Misses(c)[j] \notin DOMAIN c.hits
         /\ \A q \in 1..Len(c.snips) : q \notin DOMAIN c.hits =>
              \E j \in 1..Len(Misses(c)) : Misses(c)[j] = q
<1> DEFINE n == Len(c.snips)
           W == MissesUpTo(c)
           Good(m, i) == /\ m \in Seq(1..n)
                         /\ \A j \in 1..Len(m) : m[j] \notin DOMAIN c.hits
                         /\ \A q \in 1..i : q \notin DOMAIN c.hits =>
                              \E j \in 1..Len(m) : m[j] = q
           S == {i \in Nat : i <= n => Good(W[i], i)}
<1>1. n \in Nat
  BY LenProperties
<1>2. /\ W[0] = << >>
      /\ \A i \in Nat : i + 1 <= n =>
           W[i + 1] = MissesStep(c, W[i], i + 1) /\ i + 1 \in 1..n
  <2>1. W = [i \in 0..n |-> IF i = 0 THEN << >> ELSE MissesStep(c, W[i - 1], i)]
    BY <1>1, MissesUpToIs
  <2> HIDE DEF W, n
  <2>2. \A i \in Nat : i + 1 <= n =>
          /\ i + 1 \in 0..n /\ i + 1 # 0 /\ (i + 1) - 1 = i
          /\ i + 1 \in 1..n
    BY <1>1
  <2> QED BY <1>1, <2>1, <2>2
<1> HIDE DEF W, n
<1>3. 0 \in S
  <2>1. W[0] \in Seq(1..n) /\ Len(W[0]) = 0
    BY <1>2
  <2>2. Good(W[0], 0)
    BY <2>1
  <2> HIDE DEF Good
  <2> QED BY <2>2
<1>4. ASSUME NEW i \in Nat, i \in S PROVE i + 1 \in S
  <2> SUFFICES ASSUME i + 1 <= n PROVE Good(W[i + 1], i + 1)
    OBVIOUS
  <2>1. Good(W[i], i)
    BY <1>1, <1>4
  <2>2. \A q \in 1..(i + 1) : q = i + 1 \/ q \in 1..i
    OBVIOUS
  <2>3. CASE i + 1 \in DOMAIN c.hits
    <3>1. W[i + 1] = W[i]
      BY <1>2, <2>3 DEF MissesStep
    <3> QED BY <2>1, <2>2, <2>3, <3>1
  <2>4. CASE i + 1 \notin DOMAIN c.hits
    <3> DEFINE m == W[i]
               new == Append(m, i + 1)
    <3>1. W[i + 1] = new
      BY <1>2, <2>4 DEF MissesStep
    <3>2. m \in Seq(1..n) /\ i + 1 \in 1..n
      BY <1>2, <2>1
    <3> HIDE DEF m
    <3>3. /\ new \in Seq(1..n) /\ Len(new) = Len(m) + 1 /\ Len(m) \in Nat
          /\ \A j \in 1..Len(m) : new[j] = m[j]
          /\ new[Len(m) + 1] = i + 1
      BY <3>2
    <3> HIDE DEF new
    <3>4. /\ \A j \in 1..Len(m) : j \in 1..Len(new)
          /\ Len(m) + 1 \in 1..Len(new)
          /\ \A j \in 1..Len(new) : j = Len(m) + 1 \/ j \in 1..Len(m)
      BY <3>3
    <3>5. \A j \in 1..Len(new) : new[j] \notin DOMAIN c.hits
      BY <2>1, <2>4, <3>3, <3>4 DEF m
    <3>6. \A q \in 1..(i + 1) : q \notin DOMAIN c.hits => \E j \in 1..Len(new) : new[j] = q
      BY <2>1, <2>2, <3>3, <3>4 DEF m
    <3> QED BY <3>1, <3>3, <3>5, <3>6
  <2> QED BY <2>3, <2>4
<1> HIDE DEF S
<1>5. n \in S
  BY <1>1, <1>3, <1>4, SetInduction
<1>6. Misses(c) = W[n]
  BY DEF Misses, W, n
<1> QED BY <1>1, <1>5, <1>6 DEF S, n

-----------------------------------------------------------------------------
(* What is sent, what comes back, and what is made of it.                  *)

LEMMA SentIs ==
  ASSUME NEW c, c.snips \in Seq(Snippet)
  PROVE  /\ Sent(c) \in Seq(Snippet) /\ Len(Sent(c)) = Len(Misses(c))
         /\ Len(Misses(c)) \in Nat
         /\ \A j \in 1..Len(Misses(c)) :
              /\ Sent(c)[j] = c.snips[Misses(c)[j]]
              /\ Misses(c)[j] \in 1..Len(c.snips) /\ Misses(c)[j] \notin DOMAIN c.hits
<1> DEFINE m == Misses(c)
<1>1. m \in Seq(1..Len(c.snips)) /\ \A j \in 1..Len(m) : m[j] \notin DOMAIN c.hits
  BY MissesAre
<1> HIDE DEF m
<1>2. Len(m) \in Nat /\ DOMAIN m = 1..Len(m) /\ \A j \in 1..Len(m) : m[j] \in 1..Len(c.snips)
  BY <1>1, LenProperties, ElementOfSeq
<1>3. Sent(c) = [j \in 1..Len(m) |-> c.snips[m[j]]]
  BY <1>2 DEF Sent, m
<1>4. \A j \in 1..Len(m) : c.snips[m[j]] \in Snippet
  BY <1>2, ElementOfSeq
<1>5. Sent(c) \in Seq(Snippet) /\ Len(Sent(c)) = Len(m)
  BY <1>2, <1>3, <1>4
<1> QED BY <1>1, <1>2, <1>3, <1>5 DEF m

LEMMA ReplyIs ==
  ASSUME NEW c, c.snips \in Seq(Snippet), NEW r \in Replies(c)
  PROVE  /\ r \in Seq(Answer) /\ Len(r) \in Nat /\ DOMAIN r = 1..Len(r)
         /\ Len(r) <= Len(Sent(c))
         /\ \A j \in 1..Len(r) : r[j] \in Answer /\ r[j].about = Sent(c)[j]
<1>1. Len(Sent(c)) \in Nat
  BY SentIs, LenProperties
<1>2. PICK k \in 0..Len(Sent(c)) :
        r \in [1..k -> Answer] /\ \A j \in 1..k : r[j].about = Sent(c)[j]
  BY DEF Replies
<1>3. k \in Nat /\ k <= Len(Sent(c))
  BY <1>1
<1>4. r \in Seq(Answer) /\ Len(r) = k
  BY <1>2, <1>3
<1> QED BY <1>2, <1>3, <1>4

LEMMA EntriesAre ==
  ASSUME NEW t, call[t].snips \in Seq(Snippet), NEW r \in Replies(call[t])
  PROVE  /\ Entries(t, r) \in Seq(Entry) /\ Len(Entries(t, r)) = Len(r)
         /\ \A j \in 1..Len(r) :
              /\ Entries(t, r)[j].answer.about = Entries(t, r)[j].key
              /\ \E i \in 1..Len(call[t].snips) :
                   i \notin DOMAIN call[t].hits /\ Entries(t, r)[j].key = call[t].snips[i]
<1> DEFINE c == call[t]
<1>1. /\ r \in Seq(Answer) /\ Len(r) \in Nat
      /\ \A j \in 1..Len(r) : r[j] \in Answer /\ r[j].about = Sent(c)[j]
  BY ReplyIs
<1>2. \A j \in 1..Len(r) : j \in 1..Len(Sent(c))
  <2>1. Len(r) <= Len(Sent(c)) /\ Len(Sent(c)) \in Nat
    BY ReplyIs, SentIs
  <2> QED BY <1>1, <2>1
<1>3. /\ \A j \in 1..Len(Sent(c)) : Sent(c)[j] \in Snippet
      /\ \A j \in 1..Len(Sent(c)) :
           \E i \in 1..Len(c.snips) : i \notin DOMAIN c.hits /\ Sent(c)[j] = c.snips[i]
  BY SentIs, ElementOfSeq
<1> HIDE DEF c
<1> DEFINE f(j) == [key |-> Sent(c)[j], answer |-> r[j]]
<1>4. Entries(t, r) = [j \in 1..Len(r) |-> f(j)]
  BY DEF Entries, c
<1>5. \A j \in 1..Len(r) : /\ f(j) \in Entry /\ f(j).key = Sent(c)[j]
                           /\ f(j).answer.about = f(j).key
  BY <1>1, <1>2, <1>3 DEF Entry
<1> HIDE DEF f
<1>6. Entries(t, r) \in Seq(Entry) /\ Len(Entries(t, r)) = Len(r)
  BY <1>1, <1>4, <1>5
<1>7. \A j \in 1..Len(r) : Entries(t, r)[j] = f(j)
  BY <1>4
<1> QED BY <1>2, <1>3, <1>5, <1>6, <1>7 DEF c

LEMMA MergedIs ==
  ASSUME NEW c, c.snips \in Seq(Snippet), NEW r \in Replies(c), Len(r) = Len(Sent(c)),
         \A i \in DOMAIN c.hits : c.hits[i] \in Answer /\ c.hits[i].about = c.snips[i]
  PROVE  /\ Merged(c, r) \in Seq(Answer) /\ Len(Merged(c, r)) = Len(c.snips)
         /\ \A i \in 1..Len(c.snips) : Merged(c, r)[i].about = c.snips[i]
<1>1. Len(c.snips) \in Nat /\ DOMAIN c.snips = 1..Len(c.snips)
  BY LenProperties
<1> DEFINE at(i) == CHOOSE j \in DOMAIN r : Misses(c)[j] = i
           f(i) == IF i \in DOMAIN c.hits THEN c.hits[i] ELSE r[at(i)]
<1>2. Merged(c, r) = [i \in 1..Len(c.snips) |-> f(i)]
  BY <1>1 DEF Merged
<1>3. ASSUME NEW i \in 1..Len(c.snips), i \notin DOMAIN c.hits
      PROVE  r[at(i)] \in Answer /\ r[at(i)].about = c.snips[i]
  <2>1. DOMAIN r = 1..Len(Misses(c))
    BY ReplyIs, SentIs
  <2>2. \E j \in DOMAIN r : Misses(c)[j] = i
    BY <1>3, <2>1, MissesAre
  <2>3. at(i) \in DOMAIN r /\ Misses(c)[at(i)] = i
    BY <2>2
  <2> HIDE DEF at
  <2>4. r[at(i)] \in Answer /\ r[at(i)].about = Sent(c)[at(i)]
    BY <2>3, ReplyIs
  <2>5. Sent(c)[at(i)] = c.snips[i]
    BY <2>1, <2>3, SentIs
  <2> QED BY <2>4, <2>5
<1>4. \A i \in 1..Len(c.snips) : f(i) \in Answer /\ f(i).about = c.snips[i]
  BY <1>3
<1> HIDE DEF f
<1> QED BY <1>1, <1>2, <1>4

-----------------------------------------------------------------------------
(* The invariant.  While a check waits, what it found is about its         *)
(* snippets; and with one check at a time none of what it asks for is kept *)
(* meanwhile, so that the reply cannot replace an entry.                   *)

HitsAreAbout ==
  \A t \in Task : call[t].status = "waiting" =>
    \A i \in DOMAIN call[t].hits : call[t].hits[i].about = call[t].snips[i]

OneAtATime ==
  ~concurrent => \A t, u \in Task :
    call[t].status = "waiting" /\ call[u].status = "waiting" => t = u

MissesUnknown ==
  ~concurrent => \A t \in Task : call[t].status = "waiting" =>
    \A i \in DOMAIN call[t].snips :
      i \notin DOMAIN call[t].hits => call[t].snips[i] \notin Keys(data)

CacheInv ==
  /\ TypeOK /\ Follows(data, recent)
  /\ AnswersAreAbout /\ HitsAreAbout
  /\ OneAtATime /\ MissesUnknown

-----------------------------------------------------------------------------
(* The steps.                                                              *)

LEMMA InvFacts ==
  ASSUME CacheInv
  PROVE  /\ maxsize \in Nat /\ Follows(data, recent)
         /\ data \in Seq(Entry) /\ recent \in Seq(Snippet)
         /\ \A t \in Task :
              /\ call[t].snips \in Seq(Snippet) /\ call[t].out \in Seq(Answer)
              /\ DOMAIN call[t].snips = 1..Len(call[t].snips)
              /\ DOMAIN call[t].hits \subseteq DOMAIN call[t].snips
              /\ \A i \in DOMAIN call[t].hits : call[t].hits[i] \in Answer
<1>1. TypeOK /\ Follows(data, recent)
  BY DEF CacheInv
<1>2. maxsize \in Nat
  BY <1>1, ProofCacheAssumption DEF TypeOK
<1>3. ASSUME NEW t \in Task
      PROVE  /\ call[t].snips \in Seq(Snippet) /\ call[t].out \in Seq(Answer)
             /\ DOMAIN call[t].snips = 1..Len(call[t].snips)
             /\ DOMAIN call[t].hits \subseteq DOMAIN call[t].snips
             /\ \A i \in DOMAIN call[t].hits : call[t].hits[i] \in Answer
  <2>1. call[t] \in [status : {"idle", "waiting", "returned"},
                     snips  : Seq(Snippet), out : Seq(Answer),
                     hits   : UNION {[D -> Answer] : D \in SUBSET (1..MaxSnips)}]
    BY <1>1 DEF TypeOK
  <2>2. call[t].snips \in Seq(Snippet) /\ call[t].out \in Seq(Answer)
    BY <2>1
  <2>3. PICK D \in SUBSET (1..MaxSnips) : call[t].hits \in [D -> Answer]
    BY <2>1
  <2> QED BY <1>1, <2>2, <2>3, LenProperties DEF TypeOK
<1> QED BY <1>1, <1>2, <1>3 DEF Follows

(* A list of snippets that is looked up.                                   *)
LEMMA SnippetsAre ==
  ASSUME NEW snips \in BoundedSeq(Snippet, MaxSnips)
  PROVE  /\ snips \in Seq(Snippet) /\ Len(snips) \in 0..MaxSnips
         /\ DOMAIN snips = 1..Len(snips) /\ DOMAIN snips \subseteq 1..MaxSnips
<1>1. PICK m \in 0..MaxSnips : snips \in [1..m -> Snippet]
  BY DEF BoundedSeq, SeqOf
<1>2. m \in Nat /\ m <= MaxSnips /\ MaxSnips \in Nat
  BY ProofCacheAssumption
<1>3. snips \in Seq(Snippet) /\ Len(snips) = m
  BY <1>1, <1>2
<1> QED BY <1>1, <1>2, <1>3

LEMMA LookUpKeeps ==
  ASSUME CacheInv, NEW t \in Task, NEW snips \in BoundedSeq(Snippet, MaxSnips),
         LookUp(t, snips)
  PROVE  /\ Follows(data, recent)'
         /\ \A f \in ToSet(data') : f \in ToSet(data)
         /\ Keys(data') \subseteq Keys(data)
<1> DEFINE c == LookedUp(snips)[Len(snips)]
<1>1. data' = c.data /\ recent' = c.recent /\ maxsize' = maxsize
  BY DEF LookUp
<1>2. Follows(c.data, c.recent) /\ \A f \in ToSet(c.data) : f \in ToSet(data)
  BY InvFacts, SnippetsAre, LookedUpFollows
<1> HIDE DEF c
<1>3. Follows(data, recent)'
  BY <1>1, <1>2 DEF Follows
<1> QED BY <1>1, <1>2, <1>3 DEF Keys, ToSet

LEMMA FoundIs ==
  ASSUME CacheInv, NEW snips \in Seq(Snippet)
  PROVE  /\ DOMAIN Found(snips) = Hits(snips) /\ Hits(snips) \subseteq DOMAIN snips
         /\ Found(snips) \in [Hits(snips) -> Answer]
         /\ \A i \in Hits(snips) : Found(snips)[i].about = snips[i]
         /\ \A i \in DOMAIN snips : i \notin Hits(snips) => snips[i] \notin Keys(data)
<1> DEFINE f(i) == Filed(data, snips[i]).answer
<1>1. Found(snips) = [i \in Hits(snips) |-> f(i)]
  BY DEF Found
<1>2. ASSUME NEW i \in Hits(snips)
      PROVE  f(i) \in Answer /\ f(i).about = snips[i]
  <2>1. snips[i] \in Keys(data)
    BY DEF Hits
  <2>2. Place(data, snips[i]) \in 1..Len(data) /\ data[Place(data, snips[i])].key = snips[i]
    BY <2>1, InvFacts, PlaceOfKey
  <2>3. Filed(data, snips[i]) \in Entry
    BY <2>2, InvFacts, ElementOfSeq DEF Filed
  <2>4. Filed(data, snips[i]).answer.about = snips[i]
    BY <2>2, InvFacts DEF Follows, Filed
  <2> QED BY <2>3, <2>4 DEF Entry
<1> HIDE DEF f
<1> QED BY <1>1, <1>2 DEF Hits

LEMMA StoreKeeps ==
  ASSUME CacheInv, NEW t \in Task, NEW r \in Replies(call[t]), Store(t, r)
  PROVE  /\ Follows(data, recent)'
         /\ \A f \in ToSet(data') :
              \/ f \in ToSet(data)
              \/ \E i \in DOMAIN call[t].snips :
                   i \notin DOMAIN call[t].hits /\ f.key = call[t].snips[i]
<1> DEFINE e == Entries(t, r)
           c == Stored(e)[Len(e)]
<1>1. /\ e \in Seq(Entry) /\ Len(e) = Len(r)
      /\ \A j \in 1..Len(e) :
           /\ e[j].answer.about = e[j].key
           /\ \E i \in 1..Len(call[t].snips) :
                i \notin DOMAIN call[t].hits /\ e[j].key = call[t].snips[i]
  BY InvFacts, EntriesAre
<1>2. data' = c.data /\ recent' = c.recent /\ maxsize' = maxsize
  BY <1>1 DEF Store
<1> HIDE DEF e
<1>3. /\ Follows(c.data, c.recent)
      /\ \A f \in ToSet(c.data) : f \in ToSet(data) \/ f \in ToSet(e)
  BY <1>1, InvFacts, StoredFollows
<1>4. \A f \in ToSet(e) : \E i \in DOMAIN call[t].snips :
        i \notin DOMAIN call[t].hits /\ f.key = call[t].snips[i]
  <2>1. DOMAIN e = 1..Len(e) /\ DOMAIN call[t].snips = 1..Len(call[t].snips)
    BY <1>1, InvFacts, LenProperties
  <2> QED BY <1>1, <2>1 DEF ToSet
<1> HIDE DEF c
<1>5. Follows(data, recent)'
  BY <1>2, <1>3 DEF Follows
<1> QED BY <1>2, <1>3, <1>4, <1>5

(* The records of the checks.                                              *)
CallRecord ==
  [status : {"idle", "waiting", "returned"}, snips : Seq(Snippet), out : Seq(Answer),
   hits   : UNION {[D -> Answer] : D \in SUBSET (1..MaxSnips)}]

LEMMA NoHits == << >> \in UNION {[D -> Answer] : D \in SUBSET (1..MaxSnips)}
<1>1. << >> \in [{} -> Answer] /\ {} \in SUBSET (1..MaxSnips)
  OBVIOUS
<1> QED BY <1>1

LEMMA ReturnedTyped ==
  ASSUME NEW snips \in Seq(Snippet), NEW out \in Seq(Answer)
  PROVE  LET v == [status |-> "returned", snips |-> snips, hits |-> << >>, out |-> out] IN
         v \in CallRecord /\ DOMAIN v.hits \subseteq DOMAIN v.snips
<1>1. \A h \in UNION {[D -> Answer] : D \in SUBSET (1..MaxSnips)} :
        [status |-> "returned", snips |-> snips, hits |-> h, out |-> out] \in CallRecord
  BY DEF CallRecord
<1>2. DOMAIN << >> = {}
  OBVIOUS
<1> QED BY <1>1, <1>2, NoHits

LEMMA NoCallTyped ==
  NoCall \in CallRecord /\ DOMAIN NoCall.hits \subseteq DOMAIN NoCall.snips
<1>1. << >> \in Seq(Snippet) /\ << >> \in Seq(Answer) /\ DOMAIN << >> = {}
  OBVIOUS
<1> QED BY <1>1, NoHits DEF NoCall, CallRecord

LEMMA InitInv == Init => CacheInv
<1> SUFFICES ASSUME Init PROVE CacheInv
  OBVIOUS
<1>1. \A t \in Task : call[t] = NoCall
  BY DEF Init
<1>2. TypeOK
  <2>1. call \in [Task -> CallRecord]
    BY NoCallTyped DEF Init
  <2>2. /\ concurrent \in BOOLEAN /\ maxsize \in 0..MaxLimit /\ checks \in 0..MaxChecks
        /\ data \in Seq(Entry) /\ recent \in Seq(Snippet)
    BY ProofCacheAssumption DEF Init
  <2> QED BY <1>1, <2>1, <2>2, NoCallTyped DEF TypeOK, CallRecord
<1>3. Follows(data, recent)
  <2>1. data = << >> /\ recent = << >> /\ Len(data) = 0 /\ Len(recent) = 0
    BY DEF Init
  <2>2. maxsize \in Nat
    BY ProofCacheAssumption DEF Init
  <2>3. << >> \in Seq(Entry) /\ << >> \in Seq(Snippet)
    OBVIOUS
  <2>4. 0 = IF 0 < maxsize THEN 0 ELSE maxsize
    BY <2>2
  <2>5. data \in Seq(Entry) /\ recent \in Seq(Snippet)
    BY <2>1, <2>3
  <2>6. Len(data) = IF Len(recent) < maxsize THEN Len(recent) ELSE maxsize
    BY <2>1, <2>4
  <2>7. 1..Len(data) = {} /\ 1..Len(recent) = {}
    BY <2>1
  <2> QED BY <2>5, <2>6, <2>7, Zenon DEF Follows
<1>4. AnswersAreAbout /\ HitsAreAbout /\ OneAtATime /\ MissesUnknown
  <2>1. \A t \in Task : call[t].status = "idle"
    BY <1>1 DEF NoCall
  <2> QED BY <2>1 DEF AnswersAreAbout, HitsAreAbout, OneAtATime, MissesUnknown
<1> QED BY <1>2, <1>3, <1>4 DEF CacheInv

(* What a step owes the invariant when it changes one check, to v.         *)
LEMMA CallChanges ==
  ASSUME CacheInv, NEW t \in Task, NEW v \in CallRecord,
         DOMAIN v.hits \subseteq DOMAIN v.snips,
         call' = [call EXCEPT ![t] = v],
         v.status = "returned" =>
           Len(v.out) = Len(v.snips) /\ \A i \in DOMAIN v.snips : v.out[i].about = v.snips[i],
         v.status = "waiting" => \A i \in DOMAIN v.hits : v.hits[i].about = v.snips[i]
  PROVE  /\ call' \in [Task -> CallRecord]
         /\ \A u \in Task : DOMAIN call'[u].hits \subseteq DOMAIN call'[u].snips
         /\ AnswersAreAbout' /\ HitsAreAbout'
         /\ \A u \in Task : call'[u] = IF u = t THEN v ELSE call[u]
<1>1. /\ call \in [Task -> CallRecord]
      /\ \A u \in Task : DOMAIN call[u].hits \subseteq DOMAIN call[u].snips
  BY DEF CacheInv, TypeOK, CallRecord
<1>2. \A u \in Task : call'[u] = IF u = t THEN v ELSE call[u]
  BY <1>1
<1>3. call' \in [Task -> CallRecord]
  BY <1>1
<1>4. AnswersAreAbout'
  BY <1>2 DEF CacheInv, AnswersAreAbout
<1>5. HitsAreAbout'
  BY <1>2 DEF CacheInv, HitsAreAbout
<1> QED BY <1>1, <1>2, <1>3, <1>4, <1>5

(* The parts of the invariant that speak of the store and of the checks.   *)
LEMMA InvFromParts ==
  ASSUME concurrent' \in BOOLEAN, maxsize' \in 0..MaxLimit, checks' \in 0..MaxChecks,
         Follows(data, recent)',
         call' \in [Task -> CallRecord],
         \A u \in Task : DOMAIN call'[u].hits \subseteq DOMAIN call'[u].snips,
         AnswersAreAbout', HitsAreAbout', OneAtATime', MissesUnknown'
  PROVE  CacheInv'
<1>1. data' \in Seq(Entry) /\ recent' \in Seq(Snippet)
  BY DEF Follows
<1>2. TypeOK'
  BY <1>1 DEF TypeOK, CallRecord
<1> QED BY <1>2 DEF CacheInv

LEMMA FullHitKeeps ==
  ASSUME CacheInv, NEW t \in Task, NEW snips \in BoundedSeq(Snippet, MaxSnips),
         FullHit(t, snips)
  PROVE  CacheInv'
<1> DEFINE v == [status |-> "returned", snips |-> snips, hits |-> << >>,
                 out |-> [i \in DOMAIN snips |-> Found(snips)[i]]]
<1>1. LookUp(t, snips) /\ Hits(snips) = DOMAIN snips /\ call' = [call EXCEPT ![t] = v]
  BY DEF FullHit
<1>2. snips \in Seq(Snippet) /\ Len(snips) \in Nat /\ DOMAIN snips = 1..Len(snips)
  BY SnippetsAre
<1>3. \A i \in 1..Len(snips) : Found(snips)[i] \in Answer /\ Found(snips)[i].about = snips[i]
  BY <1>1, <1>2, FoundIs
<1>4. /\ v.out \in Seq(Answer) /\ Len(v.out) = Len(snips)
      /\ \A i \in 1..Len(snips) : v.out[i].about = snips[i]
  <2>1. v.out = [i \in 1..Len(snips) |-> Found(snips)[i]]
    BY <1>2
  <2> QED BY <1>2, <1>3, <2>1
<1>5. /\ v.status = "returned" /\ v.snips = snips /\ v.hits = << >>
      /\ v \in CallRecord /\ DOMAIN v.hits \subseteq DOMAIN v.snips
  BY <1>2, <1>4, ReturnedTyped
<1> HIDE DEF v
<1>6. /\ call' \in [Task -> CallRecord]
      /\ \A u \in Task : DOMAIN call'[u].hits \subseteq DOMAIN call'[u].snips
      /\ AnswersAreAbout' /\ HitsAreAbout'
      /\ \A u \in Task : call'[u] = IF u = t THEN v ELSE call[u]
  BY <1>1, <1>2, <1>4, <1>5, CallChanges
<1>7. Follows(data, recent)' /\ Keys(data') \subseteq Keys(data)
  BY <1>1, LookUpKeeps
<1>8. concurrent' = concurrent /\ maxsize' = maxsize /\ checks' \in 0..MaxChecks
  BY <1>1, ProofCacheAssumption DEF LookUp, CacheInv, TypeOK
<1>9. OneAtATime'
  BY <1>5, <1>6, <1>8 DEF CacheInv, OneAtATime
<1>10. MissesUnknown'
  <2>1. \A u \in Task : call'[u].status = "waiting" => call'[u] = call[u]
    BY <1>5, <1>6
  <2> QED BY <1>7, <1>8, <2>1 DEF CacheInv, MissesUnknown
<1> QED BY <1>6, <1>7, <1>8, <1>9, <1>10, InvFromParts DEF CacheInv, TypeOK

LEMMA AskKeeps ==
  ASSUME CacheInv, NEW t \in Task, NEW snips \in BoundedSeq(Snippet, MaxSnips),
         Ask(t, snips)
  PROVE  CacheInv'
<1> DEFINE v == [status |-> "waiting", snips |-> snips, hits |-> Found(snips), out |-> << >>]
<1>1. LookUp(t, snips) /\ call' = [call EXCEPT ![t] = v]
  BY DEF Ask
<1>2. snips \in Seq(Snippet) /\ DOMAIN snips = 1..Len(snips) /\ DOMAIN snips \subseteq 1..MaxSnips
  BY SnippetsAre
<1>3. /\ DOMAIN Found(snips) = Hits(snips) /\ Hits(snips) \subseteq DOMAIN snips
      /\ Found(snips) \in [Hits(snips) -> Answer]
      /\ \A i \in Hits(snips) : Found(snips)[i].about = snips[i]
      /\ \A i \in DOMAIN snips : i \notin Hits(snips) => snips[i] \notin Keys(data)
  BY <1>2, FoundIs
<1>4. Found(snips) \in UNION {[D -> Answer] : D \in SUBSET (1..MaxSnips)}
  BY <1>2, <1>3
<1>5. /\ v.status = "waiting" /\ v.snips = snips /\ v.hits = Found(snips)
      /\ v \in CallRecord /\ DOMAIN v.hits \subseteq DOMAIN v.snips
  <2>1. << >> \in Seq(Answer)
    OBVIOUS
  <2> QED BY <1>2, <1>3, <1>4, <2>1 DEF CallRecord
<1> HIDE DEF v
<1>6. /\ call' \in [Task -> CallRecord]
      /\ \A u \in Task : DOMAIN call'[u].hits \subseteq DOMAIN call'[u].snips
      /\ AnswersAreAbout' /\ HitsAreAbout'
      /\ \A u \in Task : call'[u] = IF u = t THEN v ELSE call[u]
  BY <1>1, <1>3, <1>5, CallChanges
<1>7. Follows(data, recent)' /\ Keys(data') \subseteq Keys(data)
  BY <1>1, LookUpKeeps
<1>8. concurrent' = concurrent /\ maxsize' = maxsize /\ checks' \in 0..MaxChecks
  BY <1>1, ProofCacheAssumption DEF LookUp, CacheInv, TypeOK
<1>9. ~concurrent => \A u \in Task : call'[u].status = "waiting" => u = t
  BY <1>1, <1>6 DEF LookUp
<1>10. OneAtATime'
  BY <1>8, <1>9 DEF OneAtATime
<1>11. MissesUnknown'
  <2>1. \A i \in DOMAIN call'[t].snips :
          i \notin DOMAIN call'[t].hits => call'[t].snips[i] \notin Keys(data')
    BY <1>3, <1>5, <1>6, <1>7
  <2> QED BY <1>8, <1>9, <2>1 DEF MissesUnknown
<1> QED BY <1>6, <1>7, <1>8, <1>10, <1>11, InvFromParts DEF CacheInv, TypeOK

(* A check that ends, in whatever way, leaves no other waiting when the    *)
(* checks are made one at a time.                                          *)
LEMMA EndKeepsSerial ==
  ASSUME CacheInv, NEW t \in Task, NEW v, call[t].status = "waiting",
         v.status # "waiting", concurrent' = concurrent,
         \A u \in Task : call'[u] = IF u = t THEN v ELSE call[u]
  PROVE  OneAtATime' /\ MissesUnknown'
<1>1. ~concurrent => \A u \in Task : call'[u].status # "waiting"
  BY DEF CacheInv, OneAtATime
<1> QED BY <1>1 DEF OneAtATime, MissesUnknown

LEMMA ReceiveKeeps ==
  ASSUME CacheInv, NEW t \in Task, Receive(t)
  PROVE  CacheInv'
<1> DEFINE c == call[t]
<1>1. PICK r \in Replies(c) :
        /\ Store(t, r) /\ Len(r) = Len(Sent(c))
        /\ call' = [call EXCEPT ![t] =
             [status |-> "returned", snips |-> c.snips, hits |-> << >>,
              out |-> Merged(c, r)]]
  BY DEF Receive
<1> DEFINE v == [status |-> "returned", snips |-> c.snips, hits |-> << >>,
                 out |-> Merged(c, r)]
<1>2. c.status = "waiting" /\ concurrent' = concurrent /\ maxsize' = maxsize /\ checks' = checks
  BY <1>1 DEF Store
<1>3. c.snips \in Seq(Snippet) /\ DOMAIN c.snips = 1..Len(c.snips)
  BY InvFacts
<1>4. \A i \in DOMAIN c.hits : c.hits[i] \in Answer /\ c.hits[i].about = c.snips[i]
  BY <1>2, InvFacts DEF CacheInv, HitsAreAbout
<1>5. /\ Merged(c, r) \in Seq(Answer) /\ Len(Merged(c, r)) = Len(c.snips)
      /\ \A i \in 1..Len(c.snips) : Merged(c, r)[i].about = c.snips[i]
  <2> HIDE DEF c
  <2> QED BY <1>1, <1>3, <1>4, MergedIs
<1>6. /\ v.status = "returned" /\ v.snips = c.snips /\ v.hits = << >> /\ v.out = Merged(c, r)
      /\ v \in CallRecord /\ DOMAIN v.hits \subseteq DOMAIN v.snips
  <2> HIDE DEF c
  <2> QED BY <1>3, <1>5, ReturnedTyped
<1>7. call' = [call EXCEPT ![t] = v]
  BY <1>1
<1> HIDE DEF v
<1>8. /\ call' \in [Task -> CallRecord]
      /\ \A u \in Task : DOMAIN call'[u].hits \subseteq DOMAIN call'[u].snips
      /\ AnswersAreAbout' /\ HitsAreAbout'
      /\ \A u \in Task : call'[u] = IF u = t THEN v ELSE call[u]
  <2>1. Len(v.out) = Len(v.snips) /\ \A i \in DOMAIN v.snips : v.out[i].about = v.snips[i]
    BY <1>3, <1>5, <1>6
  <2>2. v.status # "waiting"
    BY <1>6
  <2> QED BY <1>6, <1>7, <2>1, <2>2, CallChanges
<1>9. Follows(data, recent)'
  BY <1>1, StoreKeeps
<1>10. OneAtATime' /\ MissesUnknown'
  BY <1>2, <1>6, <1>8, EndKeepsSerial
<1> QED BY <1>2, <1>8, <1>9, <1>10, InvFromParts DEF CacheInv, TypeOK

LEMMA ReceiveShortKeeps ==
  ASSUME CacheInv, NEW t \in Task, ReceiveShort(t)
  PROVE  CacheInv'
<1>1. PICK r \in Replies(call[t]) : Store(t, r) /\ call' = [call EXCEPT ![t] = NoCall]
  BY DEF ReceiveShort
<1>2. /\ call[t].status = "waiting"
      /\ concurrent' = concurrent /\ maxsize' = maxsize /\ checks' = checks
  BY <1>1 DEF Store
<1>3. NoCall.status = "idle"
  BY DEF NoCall
<1>4. /\ call' \in [Task -> CallRecord]
      /\ \A u \in Task : DOMAIN call'[u].hits \subseteq DOMAIN call'[u].snips
      /\ AnswersAreAbout' /\ HitsAreAbout'
      /\ \A u \in Task : call'[u] = IF u = t THEN NoCall ELSE call[u]
  BY <1>1, <1>3, NoCallTyped, CallChanges
<1>5. Follows(data, recent)'
  BY <1>1, StoreKeeps
<1>6. OneAtATime' /\ MissesUnknown'
  BY <1>2, <1>3, <1>4, EndKeepsSerial
<1> QED BY <1>2, <1>4, <1>5, <1>6, InvFromParts DEF CacheInv, TypeOK

LEMMA InnerRaisesKeeps ==
  ASSUME CacheInv, NEW t \in Task, InnerRaises(t)
  PROVE  CacheInv'
<1>1. /\ call[t].status = "waiting" /\ call' = [call EXCEPT ![t] = NoCall]
      /\ UNCHANGED <<concurrent, maxsize, data, checks, recent>>
  BY DEF InnerRaises
<1>2. NoCall.status = "idle"
  BY DEF NoCall
<1>3. /\ call' \in [Task -> CallRecord]
      /\ \A u \in Task : DOMAIN call'[u].hits \subseteq DOMAIN call'[u].snips
      /\ AnswersAreAbout' /\ HitsAreAbout'
      /\ \A u \in Task : call'[u] = IF u = t THEN NoCall ELSE call[u]
  BY <1>1, <1>2, NoCallTyped, CallChanges
<1>4. Follows(data, recent)'
  BY <1>1 DEF CacheInv, Follows
<1>5. OneAtATime' /\ MissesUnknown'
  BY <1>1, <1>2, <1>3, EndKeepsSerial
<1> QED BY <1>1, <1>3, <1>4, <1>5, InvFromParts DEF CacheInv, TypeOK

LEMMA StepInv ==
  ASSUME CacheInv, [Next]_vars
  PROVE  CacheInv'
<1>1. ASSUME NEW t \in Task, NEW snips \in BoundedSeq(Snippet, MaxSnips),
             FullHit(t, snips) \/ Ask(t, snips)
      PROVE  CacheInv'
  BY <1>1, FullHitKeeps, AskKeeps
<1>2. ASSUME NEW t \in Task, Receive(t) \/ ReceiveShort(t) \/ InnerRaises(t)
      PROVE  CacheInv'
  BY <1>2, ReceiveKeeps, ReceiveShortKeeps, InnerRaisesKeeps
<1>3. CASE UNCHANGED vars
  BY <1>3 DEF vars, CacheInv, TypeOK, Follows, AnswersAreAbout, HitsAreAbout,
              OneAtATime, MissesUnknown
<1> QED BY <1>1, <1>2, <1>3 DEF Next

THEOREM CacheInvariant == Spec => []CacheInv
BY InitInv, StepInv, PTL DEF Spec

-----------------------------------------------------------------------------
(* What the runs check, for every number of tasks and every limit.         *)

(* The cache, the calls and the history keep their types (cache.py).       *)
THEOREM TypeCorrect == Spec => []TypeOK
<1>1. CacheInv => TypeOK
  BY DEF CacheInv
<1> QED BY <1>1, CacheInvariant, PTL

(* A check that returns has an answer about each of its snippets, in their *)
(* order, whatever other checks evicted or replaced while it waited        *)
(* (the merge of hits and misses in check_proofs and acheck_proofs).       *)
THEOREM AnswersAboutSnippets == Spec => []AnswersAreAbout
<1>1. CacheInv => AnswersAreAbout
  BY DEF CacheInv
<1> QED BY <1>1, CacheInvariant, PTL

(* The store holds the snippets used last, in that order, as many as the   *)
(* limit allows (get and put of the LRU cache).                            *)
THEOREM CacheHoldsRecent == Spec => []CacheIsRecent
<1>1. ASSUME CacheInv PROVE CacheIsRecent
  <2> DEFINE n == Len(data)
             keys == [i \in DOMAIN data |-> data[i].key]
             last == SubSeq(recent, Len(recent) - n + 1, Len(recent))
  <2>1. /\ n \in Nat /\ Len(recent) \in Nat /\ n <= Len(recent) /\ DOMAIN data = 1..n
        /\ \A i \in 1..n : data[i].key \in Snippet
        /\ \A i \in 1..Len(recent) : recent[i] \in Snippet
    BY <1>1, InvFacts, FollowsFacts
  <2>2. /\ n = IF Len(recent) < maxsize THEN Len(recent) ELSE maxsize
        /\ \A i \in 1..n : data[i].key = recent[Len(recent) - n + i]
    BY <1>1 DEF CacheInv, Follows
  <2>3. keys \in Seq(Snippet) /\ Len(keys) = n /\ \A i \in 1..n : keys[i] = data[i].key
    <3>1. keys = [i \in 1..n |-> data[i].key]
      BY <2>1
    <3> HIDE DEF n, keys
    <3> QED BY <2>1, <3>1
  <2>4. last \in Seq(Snippet) /\ Len(last) = n
        /\ \A i \in 1..n : last[i] = recent[Len(recent) - n + i]
    <3> HIDE DEF n
    <3> DEFINE a == Len(recent) - n + 1
               b == Len(recent)
    <3>1. a \in Int /\ b \in Int /\ \A i \in a..b : recent[i] \in Snippet
      BY <2>1
    <3>2. /\ SubSeq(recent, a, b) \in Seq(Snippet)
          /\ Len(SubSeq(recent, a, b)) = IF a <= b THEN b - a + 1 ELSE 0
          /\ \A i \in 1..(b - a + 1) : SubSeq(recent, a, b)[i] = recent[a + i - 1]
      <4> HIDE DEF a, b
      <4> QED BY <3>1, SubSeqProperties
    <3>3. /\ (IF a <= b THEN b - a + 1 ELSE 0) = n /\ b - a + 1 = n
          /\ \A i \in 1..n : a + i - 1 = Len(recent) - n + i
      BY <2>1
    <3> QED BY <3>2, <3>3
  <2> HIDE DEF n, keys, last
  <2>5. keys = last
    BY <2>2, <2>3, <2>4, SeqEqual
  <2> QED BY <2>2, <2>5 DEF CacheIsRecent, n, keys, last
<1> QED BY <1>1, CacheInvariant, PTL

(* With one check at a time an entry that stays in the cache keeps its     *)
(* answer: what is stored was not there when it was asked for, and nobody  *)
(* stored it meanwhile.                                                    *)
THEOREM SerialVerdictsKept == Spec => SerialVerdictsStay
<1> DEFINE Stay == ~concurrent =>
       \A e \in ToSet(data), f \in ToSet(data') : e.key = f.key => e = f
<1>1. ASSUME CacheInv PROVE \A e, f \in ToSet(data) : e.key = f.key => e = f
  <2> TAKE e, f \in ToSet(data)
  <2>1. e.key \in Keys(data) /\ f.key \in Keys(data) /\ DOMAIN data = 1..Len(data)
    BY <1>1, InvFacts, FollowsFacts DEF Keys, ToSet
  <2>2. \A i, j \in 1..Len(data) : data[i].key = data[j].key => i = j
    <3> TAKE i, j \in 1..Len(data)
    <3> HAVE data[i].key = data[j].key
    <3>1. data[i].key \in Keys(data)
      BY <2>1 DEF Keys
    <3>2. i = Place(data, data[i].key) /\ j = Place(data, data[i].key)
      BY <1>1, <3>1, InvFacts, PlaceOfKey
    <3> QED BY <3>2
  <2> QED BY <2>1, <2>2 DEF ToSet
<1>2. ASSUME CacheInv, Next PROVE Stay
  <2>1. ASSUME NEW t \in Task, NEW snips \in BoundedSeq(Snippet, MaxSnips),
               FullHit(t, snips) \/ Ask(t, snips)
        PROVE  Stay
    <3>1. \A f \in ToSet(data') : f \in ToSet(data)
      BY <1>2, <2>1, LookUpKeeps DEF FullHit, Ask
    <3> QED BY <1>1, <1>2, <3>1
  <2>2. ASSUME NEW t \in Task, Receive(t) \/ ReceiveShort(t)
        PROVE  Stay
    <3>1. PICK r \in Replies(call[t]) : Store(t, r)
      BY <2>2 DEF Receive, ReceiveShort
    <3>2. \A f \in ToSet(data') :
            \/ f \in ToSet(data)
            \/ \E i \in DOMAIN call[t].snips :
                 i \notin DOMAIN call[t].hits /\ f.key = call[t].snips[i]
      BY <1>2, <3>1, StoreKeeps
    <3>3. ~concurrent => \A i \in DOMAIN call[t].snips :
            i \notin DOMAIN call[t].hits => call[t].snips[i] \notin Keys(data)
      BY <1>2, <3>1 DEF CacheInv, MissesUnknown, Store
    <3>4. \A e \in ToSet(data) : e.key \in Keys(data)
      BY DEF Keys, ToSet
    <3> QED BY <1>1, <1>2, <3>2, <3>3, <3>4
  <2>3. ASSUME NEW t \in Task, InnerRaises(t)
        PROVE  Stay
    BY <1>1, <1>2, <2>3 DEF InnerRaises
  <2> QED BY <1>2, <2>1, <2>2, <2>3 DEF Next
<1>3. ASSUME CacheInv, [Next]_vars PROVE [Stay]_vars
  BY <1>2, <1>3
<1> QED BY <1>3, CacheInvariant, PTL DEF Spec, SerialVerdictsStay
=============================================================================
