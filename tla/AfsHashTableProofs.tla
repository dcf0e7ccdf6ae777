------------------------- MODULE AfsHashTableProofs -------------------------
(***************************************************************************)
(* What the hash table of AfsHash does as a table, for every number of     *)
(* threads, keys, buckets and nodes, whatever put()s, get()s, dump()s,     *)
(* crashes and starts overlap.                                             *)
(***************************************************************************)
EXTENDS AfsHashProofs, FiniteSetTheorems

-----------------------------------------------------------------------------
(***************************************************************************)
(* Chains.  Links lead to later nodes, so what a walk finds from a node on *)
(* is proved from the last node back: of the nodes for which it fails, the *)
(* latest has a successor for which it holds.                              *)
(***************************************************************************)

(* A set of natural numbers below a bound has a largest one: of the        *)
(* intervals from its elements to the bound, take one that is minimal.     *)
LEMMA Largest ==
  ASSUME NEW M \in Nat, NEW T, T \subseteq 0..M, T # {}
  PROVE  \E n \in T : \A m \in T : m <= n
<1> DEFINE Smaller == StrictSubsetOrdering(0..M)
           U == {n..M : n \in T}
<1>1. IsWellFoundedOn(Smaller, FiniteSubsetsOf(0..M))
  BY FS_StrictSubsetOrderingWellFounded
<1>2. U \subseteq FiniteSubsetsOf(0..M) /\ U # {}
  <2>1. 0 \in Int /\ M \in Int
    OBVIOUS
  <2>2. IsFiniteSet(0..M)
    BY <2>1, FS_Interval
  <2>3. FiniteSubsetsOf(0..M) = SUBSET (0..M)
    BY <2>2, FS_FiniteSubsetsOfFinite, Zenon
  <2>4. \A n \in T : n..M \subseteq 0..M
    OBVIOUS
  <2>5. U \subseteq SUBSET (0..M) /\ U # {}
    BY <2>4
  <2> QED
    BY <2>3, <2>5, Zenon
<1>3. ASSUME NEW m \in T, NEW n \in T, n < m
      PROVE  <<m..M, n..M>> \in Smaller
  <2>1. m..M \subseteq n..M /\ m..M # n..M
    <3>1. n \in n..M /\ n \notin m..M
      BY <1>3
    <3> QED
      BY <1>3, <3>1
  <2>2. m..M \subseteq 0..M /\ n..M \subseteq 0..M
    OBVIOUS
  <2> QED
    BY <2>1, <2>2 DEF StrictSubsetOrdering
<1> HIDE DEF Smaller
<1>4. PICK I \in U : \A J \in U : ~ (<<J, I>> \in Smaller)
  BY <1>1, <1>2, WFMin
<1>5. PICK n \in T : I = n..M
  BY <1>4
<1>6. \A m \in T : ~ (n < m)
  BY <1>3, <1>4, <1>5
<1> QED
  BY <1>6

(* ChainFrom is well defined: a function that follows the links exists.    *)
LEMMA ChainUnfolds ==
  ASSUME HashInv
  PROVE  \A n \in 0..Len(node) :
           ChainFrom[n] =
             IF n = Null THEN <<>>
             ELSE <<n>> \o (IF next[n] \in (n + 1)..Len(node) THEN ChainFrom[next[n]] ELSE <<>>)
<1> DEFINE N == Len(node)
           From(f, n) == IF n = Null THEN <<>>
                         ELSE <<n>> \o (IF next[n] \in (n + 1)..N THEN f[next[n]] ELSE <<>>)
           Follows(f) == f = [n \in 0..N |-> From(f, n)]
           Fails == {i \in 0..N : ~ \E f : /\ f = [n \in 0..N |-> f[n]]
                                          /\ \A n \in i..N : f[n] = From(f, n)}
<1>1. N \in Nat
  BY LenProperties DEF HashInv, TableTypeOK
<1> HIDE DEF N
<1>2. ASSUME NEW i \in 0..N, NEW g, g = [n \in 0..N |-> g[n]],
             \A n \in (i + 1)..N : g[n] = From(g, n)
      PROVE  i \notin Fails
  <2> DEFINE f == [n \in 0..N |-> IF n = i THEN From(g, i) ELSE g[n]]
  <2>1. ASSUME NEW n \in i..N PROVE f[n] = From(f, n)
    <3>1. f[n] = From(g, n)
      <4>1. n \in 0..N /\ (n = i \/ n \in (i + 1)..N)
        BY <1>1
      <4> HIDE DEF From
      <4> QED
        BY <1>2, <4>1
    <3>2. n # Null /\ next[n] \in (n + 1)..N => f[next[n]] = g[next[n]]
      BY <1>1
    <3> HIDE DEF f
    <3> QED
      BY <3>1, <3>2
  <2>2. f = [n \in 0..N |-> f[n]]
    OBVIOUS
  <2> HIDE DEF f
  <2> QED
    BY <2>1, <2>2
<1>3. Fails = {}
  <2> SUFFICES ASSUME Fails # {} PROVE FALSE
    OBVIOUS
  <2>1. PICK i \in Fails : \A j \in Fails : j <= i
    <3>1. Fails \subseteq 0..N
      OBVIOUS
    <3> HIDE DEF Fails
    <3> QED
      BY <1>1, <3>1, Largest
  <2>2. CASE i = N
    <3> DEFINE g == [n \in 0..N |-> <<>>]
    <3>1. g = [n \in 0..N |-> g[n]] /\ (i + 1)..N = {}
      BY <1>1, <2>2
    <3> QED
      BY <1>2, <2>1, <3>1
  <2>3. CASE i # N
    <3>1. i + 1 \in 0..N /\ i + 1 \notin Fails
      BY <1>1, <2>1, <2>3
    <3>2. PICK g : g = [n \in 0..N |-> g[n]] /\ \A n \in (i + 1)..N : g[n] = From(g, n)
      BY <3>1
    <3> QED
      BY <1>2, <2>1, <3>2
  <2> QED
    BY <2>2, <2>3
<1>4. \E f : Follows(f)
  <2>1. PICK f : f = [n \in 0..N |-> f[n]] /\ \A n \in 0..N : f[n] = From(f, n)
    BY <1>1, <1>3
  <2> QED
    BY <2>1
<1>5. ChainFrom = CHOOSE f : Follows(f)
  BY DEF ChainFrom, N
<1>6. Follows(ChainFrom)
  <2> HIDE DEF Follows
  <2> QED
    BY <1>4, <1>5, Zenon
<1>7. \A n \in 0..N : ChainFrom[n] = From(ChainFrom, n)
  BY <1>6
<1> QED
  BY <1>7 DEF N

(* The nodes that a walk from n on reaches.                                *)
Reached == [n \in 0..Len(node) |-> ToSet(ChainFrom[n])]

(* A link is Null or leads to a later node.                                *)
LEMMA LinkFacts ==
  ASSUME HashInv
  PROVE  /\ Len(node) \in Nat /\ DOMAIN node = 1..Len(node)
         /\ \A n \in 1..Len(node) :
              /\ next[n] \in 0..Len(node)
              /\ next[n] # Null => next[n] \in (n + 1)..Len(node)
<1>1. Len(node) \in Nat /\ DOMAIN node = 1..Len(node)
  BY LenProperties DEF HashInv, TableTypeOK
<1>2. \A n \in 1..Len(node) : next[n] \in 0..Len(node)
  BY DEF HashInv, TableTypeOK
<1>3. \A n \in 1..Len(node) : next[n] # Null => next[n] > n
  BY <1>1 DEF HashInv, ChainsEnd
<1> QED
  BY <1>1, <1>2, <1>3

(* A chain is a sequence of nodes.                                         *)
LEMMA ChainIsSeq ==
  ASSUME HashInv
  PROVE  \A n \in 0..Len(node) : ChainFrom[n] \in Seq(1..Len(node))
<1> DEFINE N == Len(node)
           Fails == {n \in 0..N : ChainFrom[n] \notin Seq(1..N)}
<1>1. N \in Nat
  BY LinkFacts
<1>2. SUFFICES ASSUME Fails # {} PROVE FALSE
  OBVIOUS
<1>3. PICK n \in Fails : \A m \in Fails : m <= n
  <2>1. Fails \subseteq 0..N
    OBVIOUS
  <2> HIDE DEF Fails
  <2> QED
    BY <1>1, <1>2, <2>1, Largest
<1>4. n # Null
  BY <1>3, ChainUnfolds, EmptySeq
<1> DEFINE rest == IF next[n] \in (n + 1)..N THEN ChainFrom[next[n]] ELSE <<>>
<1>5. ChainFrom[n] = <<n>> \o rest
  BY <1>3, <1>4, ChainUnfolds
<1>6. rest \in Seq(1..N)
  <2>1. next[n] \in (n + 1)..N => next[n] \in 0..N /\ ~ (next[n] <= n)
    BY <1>1, <1>3
  <2>2. next[n] \in (n + 1)..N => ChainFrom[next[n]] \in Seq(1..N)
    BY <1>3, <2>1
  <2>3. <<>> \in Seq(1..N)
    OBVIOUS
  <2> HIDE DEF Fails
  <2> QED
    BY <2>2, <2>3
<1>7. <<n>> \in Seq(1..N)
  BY <1>3, <1>4 DEF Null
<1> HIDE DEF rest
<1> QED
  BY <1>3, <1>5, <1>6, <1>7, ConcatProperties

(* A walk reaches a node, and what a walk from the node behind it reaches. *)
LEMMA ReachedUnfolds ==
  ASSUME HashInv
  PROVE  /\ Reached[Null] = {}
         /\ \A n \in 1..Len(node) : Reached[n] = {n} \cup Reached[next[n]]
<1> DEFINE N == Len(node)
<1>1. N \in Nat /\ Null \in 0..N /\ \A n \in 1..N : n \in 0..N /\ n # Null
  BY LinkFacts DEF Null
<1>2. Reached[Null] = {}
  <2>1. ChainFrom[Null] = <<>>
    BY <1>1, ChainUnfolds
  <2>2. DOMAIN <<>> = {}
    OBVIOUS
  <2> QED
    BY <1>1, <2>1, <2>2 DEF Reached, ToSet
<1>3. ASSUME NEW n \in 1..N
      PROVE  Reached[n] = {n} \cup Reached[next[n]]
  <2>1. next[n] \in 0..N /\ (next[n] # Null => next[n] \in (n + 1)..N)
    BY LinkFacts
  <2> DEFINE rest == ChainFrom[next[n]]
  <2>2. ChainFrom[n] = <<n>> \o rest
    <3>1. CASE next[n] # Null
      BY <1>1, <2>1, <3>1, ChainUnfolds
    <3>2. CASE next[n] = Null
      <4>1. next[n] \notin (n + 1)..N
        BY <1>1, <3>2 DEF Null
      <4>2. rest = <<>>
        BY <1>1, <3>2, ChainUnfolds
      <4> QED
        BY <1>1, <4>1, <4>2, ChainUnfolds
    <3> QED
      BY <3>1, <3>2
  <2>3. rest \in Seq(1..N) /\ <<n>> \in Seq(1..N)
    BY <2>1, ChainIsSeq
  <2> HIDE DEF rest
  <2>4. /\ Len(<<n>> \o rest) = 1 + Len(rest) /\ Len(rest) \in Nat
        /\ DOMAIN (<<n>> \o rest) = 1..(1 + Len(rest)) /\ DOMAIN rest = 1..Len(rest)
        /\ \A i \in 1..(1 + Len(rest)) :
             (<<n>> \o rest)[i] = IF i = 1 THEN n ELSE rest[i - 1]
    BY <2>3, ConcatProperties, LenProperties
  <2>5. ToSet(<<n>> \o rest) = {n} \cup ToSet(rest)
    <3>1. \A i \in 1..(1 + Len(rest)) : i = 1 \/ i - 1 \in 1..Len(rest)
      BY <2>4
    <3>2. 1 \in 1..(1 + Len(rest)) /\ \A i \in 1..Len(rest) : i + 1 \in 1..(1 + Len(rest)) /\ i + 1 # 1 /\ (i + 1) - 1 = i
      BY <2>4
    <3> DEFINE all == <<n>> \o rest
    <3>3. \A i \in DOMAIN all : all[i] \in {n} \cup {rest[j] : j \in DOMAIN rest}
      BY <2>4, <3>1
    <3>4. n \in {all[i] : i \in DOMAIN all}
      BY <2>4, <3>2
    <3>5. ASSUME NEW j \in DOMAIN rest PROVE rest[j] \in {all[i] : i \in DOMAIN all}
      <4>1. j + 1 \in DOMAIN all /\ all[j + 1] = rest[j]
        BY <2>4, <3>2
      <4> QED
        BY <4>1
    <3> HIDE DEF all
    <3>6. {all[i] : i \in DOMAIN all} = {n} \cup {rest[j] : j \in DOMAIN rest}
      BY <3>3, <3>4, <3>5
    <3> QED
      BY <3>6 DEF ToSet, all
  <2> QED
    BY <1>1, <2>1, <2>2, <2>5 DEF Reached, rest
<1> QED
  BY <1>2, <1>3

(* The nodes that are reached from n on are in the order of their links,   *)
(* and all of one bucket.                                                  *)
Ordered(n) ==
  \A m \in Reached[n] :
    /\ m \in n..Len(node)
    /\ m # n => \E p \in Reached[n] : next[p] = m
    /\ next[m] # Null => next[m] \in Reached[n]
    /\ \A p \in Reached[n] : p > m => next[m] # Null /\ p >= next[m]
    /\ bucket[node[m].key] = bucket[node[n].key]

(* Every chain is: the latest node whose chain is not would have a         *)
(* successor whose chain is.                                               *)
LEMMA ReachedIsOrdered ==
  ASSUME HashInv
  PROVE  \A n \in 1..Len(node) : Ordered(n)
<1> DEFINE N == Len(node)
           Fails == {n \in 1..N : ~ Ordered(n)}
<1>1. N \in Nat
  BY LinkFacts
<1>2. SUFFICES ASSUME Fails # {} PROVE FALSE
  OBVIOUS
<1>3. PICK n \in Fails : \A m \in Fails : m <= n
  <2>1. Fails \subseteq 0..N
    OBVIOUS
  <2> HIDE DEF Fails
  <2> QED
    BY <1>1, <1>2, <2>1, Largest
<1>4. n \in 1..N /\ Reached[n] = {n} \cup Reached[next[n]] /\ next[n] \in 0..N
  BY <1>3, ReachedUnfolds, LinkFacts
<1>5. CASE next[n] = Null
  <2>1. Reached[n] = {n}
    BY <1>4, <1>5, ReachedUnfolds
  <2>2. Ordered(n)
    BY <1>1, <1>4, <1>5, <2>1 DEF Ordered
  <2> QED
    BY <1>3, <2>2
<1>6. CASE next[n] # Null
  <2> DEFINE s == next[n]
  <2>1. s \in (n + 1)..N /\ s \in 1..N
    BY <1>1, <1>4, <1>6, LinkFacts DEF Null
  <2>2. Ordered(s) /\ s \in Reached[s]
    BY <1>1, <1>3, <1>4, <2>1, ReachedUnfolds
  <2>3. bucket[node[s].key] = bucket[node[n].key]
    BY <1>4, <1>6, NextInBucket
  <2>4. ASSUME NEW m \in Reached[n]
        PROVE  /\ m \in n..N
               /\ m # n => \E p \in Reached[n] : next[p] = m
               /\ next[m] # Null => next[m] \in Reached[n]
               /\ bucket[node[m].key] = bucket[node[n].key]
    <3>1. CASE m = n
      BY <1>1, <1>4, <2>2, <3>1
    <3>2. CASE m \in Reached[s]
      <4>1. /\ m \in s..N /\ (m # s => \E p \in Reached[s] : next[p] = m)
            /\ (next[m] # Null => next[m] \in Reached[s])
            /\ bucket[node[m].key] = bucket[node[s].key]
        BY <2>2, <3>2 DEF Ordered
      <4> QED
        BY <1>1, <1>4, <2>1, <2>3, <4>1
    <3> QED
      BY <1>4, <2>4, <3>1, <3>2
  <2>5. ASSUME NEW m \in Reached[n], NEW p \in Reached[n], p > m
        PROVE  next[m] # Null /\ p >= next[m]
    <3>1. \A q \in Reached[s] : q \in s..N
      BY <2>2 DEF Ordered
    <3>2. CASE m = n
      BY <1>1, <1>4, <1>6, <2>1, <2>5, <3>1, <3>2
    <3>3. CASE m \in Reached[s]
      <4>1. p \in Reached[s]
        BY <1>1, <1>4, <2>1, <2>5, <3>1, <3>3
      <4> QED
        BY <2>2, <2>5, <3>3, <4>1 DEF Ordered
    <3> QED
      BY <1>4, <2>5, <3>2, <3>3
  <2>6. Ordered(n)
    BY <2>4, <2>5 DEF Ordered
  <2> QED
    BY <1>3, <2>6
<1> QED
  BY <1>5, <1>6

(* The same of the chains after a step.                                    *)
LEMMA ReachedUnfoldsAfter ==
  HashInv' => (/\ Reached[Null] = {}
               /\ \A n \in 1..Len(node) : Reached[n] = {n} \cup Reached[next[n]])'
<1>1. HashInv => /\ Reached[Null] = {}
                 /\ \A n \in 1..Len(node) : Reached[n] = {n} \cup Reached[next[n]]
  BY ReachedUnfolds
<1> QED
  BY <1>1, PTL

(* The chains depend on nothing but the links.                             *)
LEMMA SameLinks ==
  ASSUME next' = next, Len(node') = Len(node)
  PROVE  Reached' = Reached
<1>1. ChainFrom' = ChainFrom
  BY DEF ChainFrom
<1> QED
  BY <1>1 DEF Reached

(* A new node behind c is reached where c was, in place of what was behind *)
(* c before; behind Null, it is not reached from another node.             *)
LEMMA ReachedLinked ==
  ASSUME HashInv, HashInv', NEW c \in 0..Len(node),
         Len(node') = Len(node) + 1, next'[Len(node) + 1] = Null,
         \A n \in 1..Len(node) : next'[n] = IF n = c THEN Len(node) + 1 ELSE next[n]
  PROVE  /\ Reached'[Len(node) + 1] = {Len(node) + 1}
         /\ \A n \in 0..Len(node) :
              Reached'[n] = IF c \in Reached[n]
                            THEN {m \in Reached[n] : m <= c} \cup {Len(node) + 1}
                            ELSE Reached[n]
<1> DEFINE N == Len(node)
           After(n) == IF c \in Reached[n] THEN {m \in Reached[n] : m <= c} \cup {N + 1}
                                           ELSE Reached[n]
           Fails == {n \in 0..N : Reached'[n] # After(n)}
<1>1. /\ N \in Nat
      /\ \A n \in 1..N : next[n] \in 0..N /\ (next[n] # Null => next[n] \in (n + 1)..N)
  BY LinkFacts
<1>2. /\ Reached[Null] = {} /\ Reached'[Null] = {}
      /\ \A n \in 1..N : Reached[n] = {n} \cup Reached[next[n]]
      /\ \A n \in 1..(N + 1) : Reached'[n] = {n} \cup Reached'[next'[n]]
  <2>1. /\ Reached'[Null] = {}
        /\ \A n \in 1..(N + 1) : Reached'[n] = {n} \cup Reached'[next'[n]]
    BY ReachedUnfoldsAfter DEF Null
  <2> QED
    BY <2>1, ReachedUnfolds
<1>3. Reached'[N + 1] = {N + 1}
  BY <1>1, <1>2
<1>4. \A n \in 1..N : \A m \in Reached[n] : m \in n..N
  BY ReachedIsOrdered DEF Ordered
<1>5. Fails = {}
  <2> SUFFICES ASSUME Fails # {} PROVE FALSE
    OBVIOUS
  <2>1. PICK n \in Fails : \A m \in Fails : m <= n
    <3>1. Fails \subseteq 0..N
      OBVIOUS
    <3> HIDE DEF Fails
    <3> QED
      BY <1>1, <3>1, Largest
  <2>2. /\ n \in 1..N /\ Reached'[n] # After(n)
        /\ \A m \in 0..N : m > n => Reached'[m] = After(m)
    <3>1. Null \notin Fails
      BY <1>2
    <3>2. n \in 0..N /\ n # Null
      BY <2>1, <3>1
    <3>3. n \in 1..N /\ Reached'[n] # After(n)
      <4> HIDE DEF After
      <4> QED
        BY <1>1, <2>1, <3>2 DEF Null
    <3>4. ASSUME NEW m \in 0..N, m > n PROVE Reached'[m] = After(m)
      <4> HIDE DEF After
      <4> QED
        BY <1>1, <2>1, <3>2, <3>4
    <3> QED
      BY <3>3, <3>4
  <2> HIDE DEF Fails
  <2>3. Reached[n] = {n} \cup Reached[next[n]] /\ Reached'[n] = {n} \cup Reached'[next'[n]]
    BY <1>1, <1>2, <2>2
  <2>4. \A m \in Reached[next[n]] : m > n /\ m \in Nat
    BY <1>1, <1>2, <1>4, <2>2 DEF Null
  <2>5. CASE n = c
    <3>1. Reached'[n] = {n, N + 1}
      BY <1>3, <2>2, <2>3, <2>5
    <3>2. {m \in Reached[n] : m <= c} = {n} /\ c \in Reached[n]
      BY <2>2, <2>3, <2>4, <2>5
    <3> QED
      BY <2>2, <2>5, <3>1, <3>2
  <2>6. CASE n # c
    <3>1. next'[n] = next[n]
      BY <2>2, <2>6
    <3>2. Reached'[next[n]] = After(next[n])
      <4>1. CASE next[n] = Null
        BY <1>2, <4>1
      <4>2. CASE next[n] # Null
        <5>1. next[n] \in 0..N /\ next[n] > n
          BY <1>1, <2>2, <4>2
        <5> HIDE DEF After
        <5> QED
          BY <2>2, <5>1
      <4> QED
        BY <4>1, <4>2
    <3>3. CASE c \in Reached[next[n]]
      <4>1. n <= c /\ c \in Reached[n]
        BY <2>2, <2>3, <2>4, <3>3
      <4>2. {m \in Reached[n] : m <= c} = {n} \cup {m \in Reached[next[n]] : m <= c}
        BY <2>3, <4>1
      <4> QED
        BY <2>2, <2>3, <3>1, <3>2, <3>3, <4>1, <4>2
    <3>4. CASE c \notin Reached[next[n]]
      BY <2>2, <2>3, <2>6, <3>1, <3>2, <3>4
    <3> QED
      BY <3>3, <3>4
  <2> QED
    BY <2>5, <2>6
<1> QED
  BY <1>3, <1>5

-----------------------------------------------------------------------------
(***************************************************************************)
(* What a step of a thread does, whichever action of AfsHash it is.        *)
(***************************************************************************)
Home(t) == bucket[arg[t].key]

Stands(t) == pc[t] \in {"get_walk", "put_walk", "put_link"}

(* get() or put() reads the head of a bucket.                              *)
Begins(t) ==
  /\ UNCHANGED memory /\ pc[t] = "idle"
  /\ \/ pc'[t] = "got" /\ head[Home(t)'] = Null /\ arg'[t].value = NotFound
     \/ pc'[t] = "put_first" /\ head[Home(t)'] = Null /\ arg'[t].value \in Stored
     \/ /\ head[Home(t)'] # Null /\ cur'[t] = head[Home(t)']
        /\ \/ pc'[t] = "get_walk" /\ arg'[t].value = NotFound
           \/ pc'[t] = "put_walk" /\ arg'[t].value \in Stored

(* It goes past a node of another key.                                     *)
Passes(t) ==
  /\ UNCHANGED <<memory, arg>>
  /\ node[cur[t]].key # arg[t].key
  /\ \/ /\ pc[t] \in {"get_walk", "put_walk"} /\ next[cur[t]] # Null
        /\ pc'[t] = pc[t] /\ cur'[t] = next[cur[t]]
     \/ pc[t] = "get_walk" /\ next[cur[t]] = Null /\ pc'[t] = "got"
     \/ pc[t] = "put_walk" /\ next[cur[t]] = Null /\ pc'[t] = "put_link" /\ cur'[t] = cur[t]

(* get() comes to the node of its key.                                     *)
Finds(t) ==
  /\ UNCHANGED memory
  /\ pc[t] = "get_walk" /\ pc'[t] = "got"
  /\ node[cur[t]].key = arg[t].key
  /\ arg'[t] = [key |-> arg[t].key, value |-> node[cur[t]].value]

(* put() changes the node of its key.                                      *)
Updates(t) ==
  /\ UNCHANGED <<head, next>>
  /\ pc[t] = "put_walk" /\ pc'[t] \in {"idle", "dump_open"}
  /\ node[cur[t]].key = arg[t].key
  /\ node' = [node EXCEPT ![cur[t]].value = arg[t].value]

(* put() links a node behind the one it stands on, or behind Null.         *)
Behind(t) == IF pc[t] = "put_first" THEN Null ELSE cur[t]

Inserts(t) ==
  /\ pc[t] \in {"put_first", "put_link"} /\ pc'[t] \in {"idle", "dump_open"}
  /\ Len(node) < MaxNodes
  /\ Len(node') = Len(node) + 1 /\ node'[Len(node) + 1] = arg[t]
  /\ next'[Len(node) + 1] = Null
  /\ \A n \in 1..Len(node) :
       node'[n] = node[n] /\ next'[n] = IF n = Behind(t) THEN Len(node) + 1 ELSE next[n]
  /\ head' = IF pc[t] = "put_first" THEN [head EXCEPT ![Home(t)] = Len(node) + 1] ELSE head

(* The rest of a call does not touch the chains.                           *)
Leaves(t) ==
  /\ UNCHANGED memory
  /\ pc[t] \notin PutSteps \cup {"get_walk"}
  /\ pc'[t] \in {"idle", "dump_scan", "dump_close"}

(* Every action of a thread is one of these, and moves that thread only.   *)
LEMMA StepKinds ==
  ASSUME HashInv, NEW t \in Thread, Run(t)
  PROVE  /\ \A u \in Thread \ {t} : pc'[u] = pc[u] /\ cur'[u] = cur[u] /\ arg'[u] = arg[u]
         /\ \/ Begins(t) \/ Passes(t) \/ Finds(t)
            \/ Updates(t) \/ Inserts(t) \/ Leaves(t)
<1> DEFINE Alone == \A u \in Thread \ {t} : pc'[u] = pc[u] /\ cur'[u] = cur[u] /\ arg'[u] = arg[u]
<1>1. /\ pc \in [Thread -> PC] /\ cur \in [Thread -> Nat] /\ arg \in [Thread -> Entries]
      /\ \A k, v : Call(t, k, v) => arg'[t] = [key |-> k, value |-> v]
      /\ \A q, n : Goto(t, q, n) => pc'[t] = q /\ cur'[t] = n
      /\ \A k, v, q, n : (Call(t, k, v) \/ UNCHANGED arg) /\ Goto(t, q, n) => Alone
  BY DEF HashInv, TableTypeOK, Call, Goto
<1>2. ASSUME NEW k, NEW v \in Stored, Put(t, k, v), UNCHANGED memory, pc[t] = "idle"
      PROVE  Alone /\ Begins(t)
  <2>1. /\ Call(t, k, v)
        /\ Goto(t, IF head[bucket[k]] = Null THEN "put_first" ELSE "put_walk", head[bucket[k]])
    BY <1>2 DEF Put
  <2>2. arg'[t] = [key |-> k, value |-> v] /\ Home(t)' = bucket[k]
    BY <1>1, <2>1 DEF Home
  <2>3. /\ pc'[t] = IF head[bucket[k]] = Null THEN "put_first" ELSE "put_walk"
        /\ cur'[t] = head[bucket[k]]
    BY <1>1, <2>1
  <2> QED
    BY <1>1, <1>2, <2>1, <2>2, <2>3 DEF Begins
<1>3. ASSUME AfterPut(t)
      PROVE  Alone /\ pc'[t] \in {"idle", "dump_open"}
  BY <1>1, <1>3 DEF AfterPut
<1>4. CASE GetBegin(t)
  <2>1. PICK k \in Key :
          /\ Call(t, k, NotFound)
          /\ Goto(t, IF head[bucket[k]] = Null THEN "got" ELSE "get_walk", head[bucket[k]])
    BY <1>4 DEF GetBegin
  <2>2. arg'[t] = [key |-> k, value |-> NotFound] /\ Home(t)' = bucket[k]
    BY <1>1, <2>1 DEF Home
  <2>3. /\ pc'[t] = IF head[bucket[k]] = Null THEN "got" ELSE "get_walk"
        /\ cur'[t] = head[bucket[k]]
    BY <1>1, <2>1
  <2>4. UNCHANGED memory /\ pc[t] = "idle"
    BY <1>4 DEF GetBegin
  <2> QED
    BY <1>1, <2>1, <2>2, <2>3, <2>4 DEF Begins
<1>5. CASE PutBegin(t)
  <2>1. PICK p \in Puts : Put(t, p[1], p[2])
    BY <1>5 DEF PutBegin
  <2>2. UNCHANGED memory /\ pc[t] = "idle"
    BY <1>5 DEF PutBegin
  <2> QED
    BY <1>2, <2>1, <2>2, EntryFacts
<1>6. CASE ReadLine(t)
  <2> DEFINE e == Entry(LineTo(db, offset'))
  <2>1. UNCHANGED memory /\ pc[t] = "idle"
    BY <1>6 DEF ReadLine, All
  <2>2. CASE e = NoEntry
    <3>1. UNCHANGED thread
      BY <1>6, <2>2 DEF ReadLine
    <3> QED
      BY <2>1, <3>1 DEF thread, Leaves, PutSteps
  <2>3. CASE e # NoEntry
    <3>1. Put(t, e.key, e.value) /\ e.value \in Stored
      BY <1>6, <2>3, LineIsEntry DEF ReadLine
    <3> HIDE DEF e
    <3> QED
      BY <1>2, <2>1, <3>1
  <2> QED
    BY <2>2, <2>3
<1>7. CASE GetWalk(t)
  <2>1. UNCHANGED memory /\ pc[t] = "get_walk"
    BY <1>7 DEF GetWalk
  <2>2. CASE node[cur[t]].key = arg[t].key
    <3>1. Call(t, arg[t].key, node[cur[t]].value) /\ Goto(t, "got", Null)
      BY <1>7, <2>2 DEF GetWalk
    <3> QED
      BY <1>1, <2>1, <2>2, <3>1 DEF Finds
  <2>3. CASE node[cur[t]].key # arg[t].key
    <3>1. /\ Goto(t, IF next[cur[t]] = Null THEN "got" ELSE "get_walk", next[cur[t]])
          /\ UNCHANGED arg
      BY <1>7, <2>3 DEF GetWalk
    <3>2. /\ pc'[t] = IF next[cur[t]] = Null THEN "got" ELSE "get_walk"
          /\ cur'[t] = next[cur[t]]
      BY <1>1, <3>1
    <3> QED
      BY <1>1, <2>1, <2>3, <3>1, <3>2 DEF Passes
  <2> QED
    BY <2>2, <2>3
<1>8. CASE PutWalk(t)
  <2>1. UNCHANGED <<head, next>> /\ pc[t] = "put_walk"
    BY <1>8 DEF PutWalk
  <2>2. CASE node[cur[t]].key = arg[t].key
    <3>1. node' = [node EXCEPT ![cur[t]].value = arg[t].value] /\ AfterPut(t)
      BY <1>8, <2>2 DEF PutWalk
    <3> QED
      BY <1>3, <2>1, <2>2, <3>1 DEF Updates
  <2>3. CASE node[cur[t]].key # arg[t].key
    <3>1. /\ Goto(t, IF next[cur[t]] = Null THEN "put_link" ELSE "put_walk",
                      IF next[cur[t]] = Null THEN cur[t] ELSE next[cur[t]])
          /\ UNCHANGED <<node, arg>>
      BY <1>8, <2>3 DEF PutWalk
    <3>2. /\ pc'[t] = IF next[cur[t]] = Null THEN "put_link" ELSE "put_walk"
          /\ cur'[t] = IF next[cur[t]] = Null THEN cur[t] ELSE next[cur[t]]
      BY <1>1, <3>1
    <3> QED
      BY <1>1, <2>1, <2>3, <3>1, <3>2 DEF Passes, memory
  <2> QED
    BY <2>2, <2>3
<1>9. CASE PutFirst(t)
  <2>1. /\ pc[t] = "put_first" /\ Create(t, next) /\ AfterPut(t)
        /\ head' = [head EXCEPT ![Home(t)] = Len(node) + 1]
    BY <1>9 DEF PutFirst, Home
  <2>2. next \in Seq(Nat) /\ Len(next) = Len(node) /\ Len(node) < MaxNodes
    BY <2>1 DEF HashInv, TableTypeOK, Create
  <2>3. Behind(t) = Null /\ \A n \in 1..Len(node) : n # Null
    BY <2>1 DEF Behind, Null
  <2> QED
    BY <1>3, <2>1, <2>2, <2>3, CreateFacts DEF Inserts
<1>10. CASE PutLink(t)
  <2> DEFINE links == [next EXCEPT ![cur[t]] = Len(node) + 1]
  <2>1. pc[t] = "put_link" /\ Create(t, links) /\ AfterPut(t) /\ head' = head
    BY <1>10 DEF PutLink
  <2>2. next \in Seq(Nat) /\ Len(next) = Len(node) /\ Len(node) < MaxNodes /\ Len(node) \in Nat
    BY <2>1, LenProperties DEF HashInv, TableTypeOK, Create
  <2>3. cur[t] \in 1..Len(node)
    BY <2>1 DEF HashInv, WalksInBucket
  <2>4. /\ links \in Seq(Nat) /\ Len(links) = Len(node)
        /\ \A n \in 1..Len(node) : links[n] = IF n = cur[t] THEN Len(node) + 1 ELSE next[n]
    BY <2>2, <2>3, ExceptSeq
  <2> HIDE DEF links
  <2>5. Behind(t) = cur[t]
    BY <2>1 DEF Behind
  <2> QED
    BY <1>3, <2>1, <2>2, <2>4, <2>5, CreateFacts DEF Inserts
<1>11. CASE GetReturn(t) \/ DumpOpen(t) \/ DumpScan(t) \/ DumpClose(t)
  <2>1. UNCHANGED memory /\ pc[t] \notin PutSteps \cup {"get_walk"}
    BY <1>11 DEF GetReturn, DumpOpen, DumpScan, DumpClose, PutSteps
  <2>2. \E q \in {"idle", "dump_scan", "dump_close"} : \E n :
          (Call(t, NoCall.key, NoCall.value) \/ UNCHANGED arg) /\ Goto(t, q, n)
    BY <1>11, Zenon DEF GetReturn, DumpOpen, DumpScan, DumpClose
  <2> QED
    BY <1>1, <2>1, <2>2 DEF Leaves
<1> QED
  BY <1>4, <1>5, <1>6, <1>7, <1>8, <1>9, <1>10, <1>11 DEF Run, Step

-----------------------------------------------------------------------------
(***************************************************************************)
(* The invariant.                                                          *)
(***************************************************************************)

(* What HashTypeOK needs beyond HashInv.                                   *)
ValuesInv ==
  /\ Len(node) <= MaxNodes
  /\ \A n \in 1..Len(node) : node[n].value \in Stored
  /\ \A t \in Thread : /\ pc[t] = "get_walk" => arg[t].value = NotFound
                       /\ pc[t] \in PutSteps => arg[t].value \in Stored
  /\ up \in BOOLEAN /\ tangled \in BOOLEAN
  /\ contended \subseteq 1..Buckets

(* A node is linked once, when it is made: no two links, nor a link and    *)
(* the head of a bucket, lead to one node, even if links were lost.        *)
OneLink ==
  /\ \A m, n \in 1..Len(node) : next[m] = next[n] /\ next[m] # Null => m = n
  /\ \A b \in 1..Buckets : \A n \in 1..Len(node) : next[n] # Null => next[n] # head[b]

(* Who walks along the chain of a bucket has not passed the key it looks   *)
(* for: whoever puts it meanwhile puts it behind.                          *)
WalkedPast ==
  \A t \in Thread :
    Stands(t) /\ cur[t] \in Reached[head[Home(t)]] =>
      \A m \in Reached[head[Home(t)]] :
        m < cur[t] \/ (m = cur[t] /\ pc[t] = "put_link") => node[m].key # arg[t].key

(* No key is in a chain twice.                                             *)
KeysOnce ==
  \A b \in 1..Buckets :
    \A m, n \in Reached[head[b]] : node[m].key = node[n].key => m = n

(* In a bucket in which no two new keys met, a walk stands on the chain    *)
(* and ends at its end.                                                    *)
OnChain ==
  \A t \in Thread :
    Home(t) \notin contended =>
      /\ Stands(t) => cur[t] \in Reached[head[Home(t)]]
      /\ pc[t] = "put_link" => next[cur[t]] = Null
      /\ pc[t] = "put_first" => head[Home(t)] = Null

(* contended has every bucket in which two new keys have met.              *)
Noted == InsertingTogether \subseteq contended

KeysInv == OneLink /\ WalkedPast /\ KeysOnce

TableInv == HashInv /\ ValuesInv /\ KeysInv /\ OnChain /\ Noted

-----------------------------------------------------------------------------
(***************************************************************************)
(* Chains of buckets.                                                      *)
(***************************************************************************)

(* The chain of a bucket is in order, and has the nodes of its bucket.     *)
LEMMA ChainOfBucket ==
  ASSUME HashInv, NEW b \in 1..Buckets
  PROVE  /\ head[b] \in 0..Len(node)
         /\ head[b] = Null => Reached[head[b]] = {}
         /\ head[b] # Null => head[b] \in Reached[head[b]]
         /\ ToSet(Chain(b)) = Reached[head[b]]
         /\ \A m \in Reached[head[b]] :
              /\ m \in 1..Len(node) /\ m >= head[b]
              /\ bucket[node[m].key] = b
              /\ m # head[b] => \E p \in Reached[head[b]] : next[p] = m
              /\ next[m] # Null => next[m] \in Reached[head[b]]
              /\ \A p \in Reached[head[b]] : p > m => next[m] # Null /\ p >= next[m]
<1>1. Len(node) \in Nat /\ head[b] \in 0..Len(node)
  BY LinkFacts DEF HashInv, TableTypeOK
<1>2. ToSet(Chain(b)) = Reached[head[b]]
  BY <1>1 DEF Chain, Reached
<1>3. CASE head[b] = Null
  BY <1>1, <1>2, <1>3, ReachedUnfolds
<1>4. CASE head[b] # Null
  <2>1. head[b] \in 1..Len(node) /\ bucket[node[head[b]].key] = b
    BY <1>1, <1>4, LinkFacts DEF HashInv, ChainsEnd, Null
  <2>2. Ordered(head[b]) /\ head[b] \in Reached[head[b]]
    BY <2>1, ReachedIsOrdered, ReachedUnfolds
  <2> QED
    BY <1>1, <1>2, <1>4, <2>1, <2>2 DEF Ordered
<1> QED
  BY <1>3, <1>4

(* A thread's bucket.                                                      *)
LEMMA HomeFacts ==
  ASSUME HashInv, NEW t \in Thread
  PROVE  arg[t].key \in Key /\ Home(t) \in 1..Buckets
<1>1. arg[t] \in Entries
  BY DEF HashInv, TableTypeOK
<1> QED
  BY <1>1, EntryFacts DEF Entries, Home

(* get() and put() find the one node of a key, if there is one.            *)
LEMMA LookupFacts ==
  ASSUME HashInv, KeysOnce, NEW k \in Key
  PROVE  LET R == Reached[head[bucket[k]]] IN
         /\ \A n \in R : node[n].key = k => Lookup(k) = node[n].value
         /\ (\A n \in R : node[n].key # k) => Lookup(k) = NotFound
<1> DEFINE R == Reached[head[bucket[k]]]
           hits == {n \in R : node[n].key = k}
<1>1. bucket[k] \in 1..Buckets
  BY EntryFacts
<1>2. Lookup(k) = IF hits = {} THEN NotFound ELSE node[CHOOSE n \in hits : TRUE].value
  <2>1. ToSet(Chain(bucket[k])) = R
    BY <1>1, ChainOfBucket
  <2>2. {n \in ToSet(Chain(bucket[k])) : node[n].key = k} = hits
    BY <2>1
  <2>3. Lookup(k) =
          LET S == {n \in ToSet(Chain(bucket[k])) : node[n].key = k}
          IN IF S = {} THEN NotFound ELSE node[CHOOSE n \in S : TRUE].value
    BY DEF Lookup
  <2> QED
    BY <2>2, <2>3, Zenon
<1>3. ASSUME NEW n \in R, node[n].key = k
      PROVE  Lookup(k) = node[n].value
  <2>1. \A m \in hits : m = n
    BY <1>1, <1>3 DEF KeysOnce
  <2>2. n \in hits
    BY <1>3
  <2> HIDE DEF hits
  <2>3. (CHOOSE m \in hits : TRUE) \in hits
    BY <2>2
  <2> QED
    BY <1>2, <2>1, <2>2, <2>3
<1>4. ASSUME \A n \in R : node[n].key # k
      PROVE  Lookup(k) = NotFound
  BY <1>2, <1>4
<1> QED
  BY <1>3, <1>4

(* A new node changes the chain of its own bucket only, of which it        *)
(* becomes the last, or the only one.                                      *)
LEMMA InsertedChain ==
  ASSUME HashInv, HashInv', NEW t \in Thread, Inserts(t), NEW b \in 1..Buckets
  PROVE  LET R == Reached[head[b]] IN
         Reached'[head'[b]] =
           IF b # Home(t) THEN R
           ELSE IF pc[t] = "put_first" THEN {Len(node) + 1}
           ELSE IF cur[t] \in R THEN {m \in R : m <= cur[t]} \cup {Len(node) + 1}
           ELSE R
<1> DEFINE N == Len(node)
           c == Behind(t)
<1>1. /\ N \in Nat /\ Home(t) \in 1..Buckets /\ head \in [1..Buckets -> 0..N]
  BY HomeFacts, LinkFacts DEF HashInv, TableTypeOK
<1>2. /\ c \in 0..N
      /\ pc[t] = "put_link" => c = cur[t] /\ c # Null /\ bucket[node[c].key] = Home(t)
      /\ pc[t] = "put_first" => c = Null
  <2>1. CASE pc[t] = "put_link"
    BY <1>1, <2>1 DEF Behind, HashInv, WalksInBucket, Home, Null
  <2>2. CASE pc[t] = "put_first"
    BY <1>1, <2>2 DEF Behind, Null
  <2> QED
    BY <2>1, <2>2 DEF Inserts
<1>3. /\ Reached'[N + 1] = {N + 1}
      /\ \A n \in 0..N : Reached'[n] = IF c \in Reached[n]
                                       THEN {m \in Reached[n] : m <= c} \cup {N + 1}
                                       ELSE Reached[n]
  <2> HIDE DEF c
  <2> QED
    BY <1>2, ReachedLinked DEF Inserts, c
<1> HIDE DEF c
<1>4. /\ head[b] \in 0..N /\ (c \in Reached[head[b]] => c # Null /\ bucket[node[c].key] = b)
  BY <1>1, ChainOfBucket DEF Null
<1>5. head' = IF pc[t] = "put_first" THEN [head EXCEPT ![Home(t)] = N + 1] ELSE head
  BY DEF Inserts
<1>6. CASE pc[t] = "put_first"
  <2>1. c \notin Reached[head[b]]
    BY <1>2, <1>4, <1>6
  <2>2. head'[b] = IF b = Home(t) THEN N + 1 ELSE head[b]
    BY <1>1, <1>5, <1>6
  <2>3. Reached'[N + 1] = {N + 1} /\ Reached'[head[b]] = Reached[head[b]]
    BY <1>3, <1>4, <2>1
  <2> HIDE DEF N
  <2> QED
    BY <1>6, <2>2, <2>3 DEF N
<1>7. CASE pc[t] = "put_link"
  <2>1. head'[b] = head[b] /\ c = cur[t]
    BY <1>2, <1>5, <1>7
  <2>2. CASE b # Home(t)
    <3>1. c \notin Reached[head[b]]
      BY <1>2, <1>4, <1>7, <2>2
    <3>2. Reached'[head[b]] = Reached[head[b]]
      BY <1>3, <1>4, <3>1
    <3> QED
      BY <2>1, <2>2, <3>2
  <2>3. CASE b = Home(t)
    BY <1>3, <1>4, <1>7, <2>1, <2>3
  <2> QED
    BY <2>2, <2>3
<1> QED
  BY <1>6, <1>7 DEF Inserts

(* Other steps leave the chains and their keys as they are.                *)
LEMMA ChainsStay ==
  ASSUME HashInv, NEW t \in Thread,
         Begins(t) \/ Passes(t) \/ Finds(t) \/ Updates(t) \/ Leaves(t)
  PROVE  /\ head' = head /\ next' = next /\ Len(node') = Len(node) /\ Reached' = Reached
         /\ \A n \in 1..Len(node) : node'[n].key = node[n].key
<1>1. CASE UNCHANGED memory
  BY <1>1, SameLinks DEF memory
<1>2. CASE Updates(t)
  <2>1. /\ head' = head /\ next' = next
        /\ node' = [node EXCEPT ![cur[t]].value = arg[t].value]
    BY <1>2 DEF Updates
  <2>2. node \in Seq(Entries) /\ DOMAIN node = 1..Len(node) /\ Len(node) \in Nat
    BY LinkFacts DEF HashInv, TableTypeOK
  <2>3. \A n \in 1..Len(node) : node[n] \in [key : Key, value : Stored \cup {NotFound}]
    BY <2>2, ElementOfSeq DEF Entries
  <2>4. \A n \in 1..Len(node) : node'[n].key = node[n].key
    BY <2>1, <2>2, <2>3
  <2>5. Len(node') = Len(node)
    BY <2>1, <2>2
  <2> QED
    BY <2>1, <2>4, <2>5, SameLinks
<1> QED
  BY <1>1, <1>2 DEF Begins, Passes, Finds, Leaves

-----------------------------------------------------------------------------
(***************************************************************************)
(* No key is in the table twice.                                           *)
(***************************************************************************)

(* Who goes on to a node of the chain came from the node before it.        *)
LEMMA PassedAlong ==
  ASSUME HashInv, OneLink, NEW b \in 1..Buckets, NEW n \in 1..Len(node),
         next[n] # Null, next[n] \in Reached[head[b]]
  PROVE  n \in Reached[head[b]] /\ \A m \in Reached[head[b]] : m < next[n] => m <= n
<1>1. next[n] # head[b]
  BY DEF OneLink
<1>2. PICK p \in Reached[head[b]] : next[p] = next[n]
  BY <1>1, ChainOfBucket
<1>3. p \in 1..Len(node)
  BY <1>2, ChainOfBucket
<1>4. p = n
  BY <1>2, <1>3 DEF OneLink
<1>5. \A m \in Reached[head[b]] : m \in 1..Len(node) /\ (m > n => m >= next[n])
  BY <1>2, <1>4, ChainOfBucket
<1>6. Len(node) \in Nat /\ next[n] \in 0..Len(node)
  BY LinkFacts
<1> QED
  BY <1>2, <1>4, <1>5, <1>6

(* A step that changes no chain.                                           *)
LEMMA KeysStay ==
  ASSUME HashInv, HashInv', KeysInv, NEW t \in Thread,
         \A u \in Thread \ {t} : pc'[u] = pc[u] /\ cur'[u] = cur[u] /\ arg'[u] = arg[u],
         Begins(t) \/ Passes(t) \/ Finds(t) \/ Updates(t) \/ Leaves(t)
  PROVE  KeysInv'
<1>1. /\ head' = head /\ next' = next /\ Len(node') = Len(node) /\ Reached' = Reached
      /\ \A n \in 1..Len(node) : node'[n].key = node[n].key
  BY ChainsStay
<1>2. \A b \in 1..Buckets :
        /\ head[b] \in 0..Len(node)
        /\ \A m \in Reached[head[b]] : m \in 1..Len(node) /\ m >= head[b]
  BY ChainOfBucket
<1>3. OneLink'
  BY <1>1 DEF KeysInv, OneLink
<1>4. KeysOnce'
  <2> SUFFICES ASSUME NEW b \in 1..Buckets, NEW m \in Reached[head[b]], NEW n \in Reached[head[b]],
                      node'[m].key = node'[n].key
               PROVE  m = n
    BY <1>1 DEF KeysOnce
  <2>1. m \in 1..Len(node) /\ n \in 1..Len(node)
    BY <1>2
  <2> QED
    BY <1>1, <2>1 DEF KeysInv, KeysOnce
<1>5. Len(node) \in Nat /\ \A u \in Thread : Home(u) \in 1..Buckets
  BY LinkFacts, HomeFacts
<1>6. ASSUME Stands(t)', cur'[t] \in Reached[head[Home(t)']]
      PROVE  \A m \in Reached[head[Home(t)']] :
               m < cur'[t] \/ (m = cur'[t] /\ pc'[t] = "put_link") => node[m].key # arg'[t].key
  <2>1. Home(t)' \in 1..Buckets
    <3>1. arg'[t] \in Entries
      BY DEF HashInv, TableTypeOK
    <3> QED
      BY <3>1, EntryFacts DEF Entries, Home
  <2>2. CASE Begins(t)
    <3>1. cur'[t] = head[Home(t)'] /\ pc'[t] # "put_link"
      BY <1>6, <2>2 DEF Begins, Stands
    <3>2. \A m \in Reached[head[Home(t)']] : ~ (m < cur'[t])
      BY <1>2, <1>5, <2>1, <3>1
    <3> QED
      BY <3>1, <3>2
  <2>3. CASE Passes(t)
    <3> DEFINE n == cur[t]
               R == Reached[head[Home(t)]]
    <3>1. /\ arg' = arg /\ Home(t)' = Home(t) /\ Stands(t) /\ n \in 1..Len(node)
          /\ node[n].key # arg[t].key
      BY <2>3 DEF Passes, Home, Stands, HashInv, WalksInBucket
    <3>2. n \in R => \A m \in R : m < n => node[m].key # arg[t].key
      BY <3>1 DEF KeysInv, WalkedPast
    <3>3. CASE pc'[t] = "put_link"
      <4>1. cur'[t] = n
        BY <2>3, <3>3 DEF Passes
      <4> QED
        BY <1>6, <3>1, <3>2, <4>1
    <3>4. CASE pc'[t] # "put_link"
      <4>1. next[n] # Null /\ cur'[t] = next[n]
        BY <1>6, <2>3, <3>4 DEF Passes, Stands
      <4>2. n \in R /\ \A m \in R : m < next[n] => m <= n
        BY <1>5, <1>6, <3>1, <4>1, PassedAlong DEF KeysInv
      <4>3. \A m \in R : m <= n => node[m].key # arg[t].key
        BY <1>2, <1>5, <3>1, <3>2, <4>2
      <4> QED
        BY <3>1, <3>4, <4>1, <4>2, <4>3
    <3> QED
      BY <3>3, <3>4
  <2>4. CASE Finds(t) \/ Updates(t) \/ Leaves(t)
    BY <1>6, <2>4 DEF Finds, Updates, Leaves, Stands
  <2> QED
    BY <2>2, <2>3, <2>4
<1>7. WalkedPast'
  <2> SUFFICES ASSUME NEW u \in Thread, Stands(u)', cur'[u] \in Reached'[head'[Home(u)']],
                      NEW m \in Reached'[head'[Home(u)']],
                      m < cur'[u] \/ (m = cur'[u] /\ pc'[u] = "put_link")
               PROVE  node'[m].key # arg'[u].key
    BY DEF WalkedPast
  <2>1. Home(u)' \in 1..Buckets
    <3>1. arg'[u] \in Entries
      BY DEF HashInv, TableTypeOK
    <3> QED
      BY <3>1, EntryFacts DEF Entries, Home
  <2>2. m \in 1..Len(node) /\ node'[m].key = node[m].key
    BY <1>1, <1>2, <2>1
  <2>3. CASE u = t
    BY <1>1, <1>6, <2>2, <2>3
  <2>4. CASE u # t
    <3>1. pc'[u] = pc[u] /\ cur'[u] = cur[u] /\ arg'[u] = arg[u] /\ Home(u)' = Home(u)
      BY <2>4 DEF Home
    <3> QED
      BY <1>1, <2>2, <3>1 DEF KeysInv, WalkedPast, Stands
  <2> QED
    BY <2>3, <2>4
<1> QED
  BY <1>3, <1>4, <1>7 DEF KeysInv

(* A step that links a node: of its key there is none before it.           *)
LEMMA KeysInserted ==
  ASSUME HashInv, HashInv', KeysInv, NEW t \in Thread,
         \A u \in Thread \ {t} : pc'[u] = pc[u] /\ cur'[u] = cur[u] /\ arg'[u] = arg[u],
         Inserts(t)
  PROVE  KeysInv'
<1> DEFINE N == Len(node)
           R(b) == Reached[head[b]]
           Q(b) == Reached'[head'[b]]
<1>1. /\ N \in Nat /\ Len(node') = N + 1 /\ next'[N + 1] = Null
      /\ node'[N + 1] = arg[t]
      /\ \A n \in 1..N : /\ node'[n] = node[n]
                         /\ next'[n] = IF n = Behind(t) THEN N + 1 ELSE next[n]
                         /\ next[n] \in 0..N
  BY LinkFacts DEF Inserts
<1>2. \A b \in 1..Buckets :
        /\ head[b] \in 0..N
        /\ head'[b] = IF pc[t] = "put_first" /\ b = Home(t) THEN N + 1 ELSE head[b]
  BY HomeFacts DEF HashInv, TableTypeOK, Inserts
<1>3. \A b \in 1..Buckets : \A m \in R(b) : m \in 1..N
  BY ChainOfBucket
<1>4. \A b \in 1..Buckets :
        \/ Q(b) = R(b)
        \/ Q(b) = {N + 1}
        \/ /\ b = Home(t) /\ pc[t] = "put_link" /\ cur[t] \in R(b)
           /\ Q(b) = {m \in R(b) : m <= cur[t]} \cup {N + 1}
  <2> TAKE b \in 1..Buckets
  <2>1. Q(b) = IF b # Home(t) THEN R(b)
               ELSE IF pc[t] = "put_first" THEN {N + 1}
               ELSE IF cur[t] \in R(b) THEN {m \in R(b) : m <= cur[t]} \cup {N + 1}
               ELSE R(b)
    BY InsertedChain
  <2>2. pc[t] \in {"put_first", "put_link"}
    BY DEF Inserts
  <2> QED
    BY <2>1, <2>2
<1>5. \A b \in 1..Buckets : \A m \in Q(b) : m = N + 1 \/ (m \in R(b) /\ m \in 1..N)
  BY <1>3, <1>4
<1>6. OneLink'
  <2>1. ASSUME NEW m \in 1..(N + 1), NEW n \in 1..(N + 1), next'[m] = next'[n], next'[m] # Null
        PROVE  m = n
    <3>1. m \in 1..N /\ n \in 1..N
      BY <1>1, <2>1
    <3> QED
      BY <1>1, <2>1, <3>1 DEF KeysInv, OneLink
  <2>2. ASSUME NEW b \in 1..Buckets, NEW n \in 1..(N + 1), next'[n] # Null
        PROVE  next'[n] # head'[b]
    <3>1. n \in 1..N
      BY <1>1, <2>2
    <3>2. next[n] # Null => next[n] # head[b]
      BY <3>1 DEF KeysInv, OneLink
    <3>3. pc[t] = "put_first" => Behind(t) # n
      BY <3>1 DEF Behind, Null
    <3> QED
      BY <1>1, <1>2, <2>2, <3>1, <3>2, <3>3
  <2> QED
    BY <1>1, <2>1, <2>2 DEF OneLink
<1>7. KeysOnce'
  <2> SUFFICES ASSUME NEW b \in 1..Buckets, NEW m \in Q(b), NEW n \in Q(b),
                      node'[m].key = node'[n].key, m # n
               PROVE  FALSE
    BY DEF KeysOnce
  <2>1. CASE m # N + 1 /\ n # N + 1
    <3>1. m \in R(b) /\ n \in R(b) /\ m \in 1..N /\ n \in 1..N
      BY <1>5, <2>1
    <3>2. node[m].key = node[n].key
      BY <1>1, <3>1
    <3> QED
      BY <3>1, <3>2 DEF KeysInv, KeysOnce
  <2>2. ASSUME NEW p \in Q(b), p # N + 1, N + 1 \in Q(b)
        PROVE  node'[p].key # arg[t].key
    <3>1. p \in R(b) /\ p \in 1..N /\ N + 1 \notin R(b)
      BY <1>1, <1>3, <1>5, <2>2
    <3>2. b = Home(t) /\ pc[t] = "put_link" /\ cur[t] \in R(b) /\ p <= cur[t]
      <4>1. p \in Q(b) /\ N + 1 \in Q(b) /\ p # N + 1
        BY <2>2
      <4> HIDE DEF R, Q, N
      <4>2. Q(b) # R(b) /\ Q(b) # {N + 1}
        BY <3>1, <4>1
      <4> QED
        BY <1>4, <4>1, <4>2
    <3>3. cur[t] \in 1..N
      BY <1>3, <3>2
    <3>4. node[p].key # arg[t].key
      BY <3>1, <3>2, <3>3 DEF KeysInv, WalkedPast, Stands
    <3> QED
      BY <1>1, <3>1, <3>4
  <2> QED
    BY <1>1, <2>1, <2>2
<1>8. WalkedPast'
  <2> SUFFICES ASSUME NEW u \in Thread, Stands(u)', cur'[u] \in Reached'[head'[Home(u)']],
                      NEW m \in Reached'[head'[Home(u)']],
                      m < cur'[u] \/ (m = cur'[u] /\ pc'[u] = "put_link")
               PROVE  node'[m].key # arg'[u].key
    BY DEF WalkedPast
  <2>1. u # t
    BY DEF Inserts, Stands
  <2>2. /\ pc'[u] = pc[u] /\ cur'[u] = cur[u] /\ arg'[u] = arg[u]
        /\ Home(u)' = Home(u) /\ Stands(u) /\ Home(u) \in 1..Buckets
    BY <2>1, HomeFacts DEF Home, Stands
  <2>3. cur[u] \in 1..N
    BY <2>2 DEF HashInv, WalksInBucket, Stands
  <2>4. cur[u] \in R(Home(u)) /\ m \in R(Home(u)) /\ m \in 1..N
    <3>1. cur[u] \in Q(Home(u)) /\ m \in Q(Home(u))
      BY <2>2
    <3>2. cur[u] # N + 1 /\ m # N + 1
      BY <1>1, <2>2, <2>3
    <3> QED
      BY <1>5, <2>2, <3>1, <3>2
  <2>5. node[m].key # arg[u].key
    BY <2>2, <2>4 DEF KeysInv, WalkedPast
  <2> QED
    BY <1>1, <2>2, <2>4, <2>5
<1> QED
  BY <1>6, <1>7, <1>8 DEF KeysInv

-----------------------------------------------------------------------------
(***************************************************************************)
(* Buckets in which no two new keys met.                                   *)
(***************************************************************************)

(* Who is about to link a node there has a key that is not in the table:   *)
(* it has seen the whole chain.                                            *)
LEMMA LinkersInsert ==
  ASSUME HashInv, KeysInv, OnChain, NEW t \in Thread,
         Home(t) \notin contended, pc[t] \in {"put_first", "put_link"}
  PROVE  /\ Inserting(t)
         /\ pc[t] = "put_first" => Reached[head[Home(t)]] = {}
         /\ pc[t] = "put_link" => \A m \in Reached[head[Home(t)]] : m <= cur[t]
<1> DEFINE R == Reached[head[Home(t)]]
<1>1. Home(t) \in 1..Buckets /\ arg[t].key \in Key /\ Len(node) \in Nat
  BY HomeFacts, LinkFacts
<1>2. CASE pc[t] = "put_first"
  <2>1. R = {}
    BY <1>1, <1>2, ChainOfBucket DEF OnChain
  <2>2. Lookup(arg[t].key) = NotFound
    BY <1>1, <2>1, LookupFacts DEF KeysInv, Home
  <2> QED
    BY <1>2, <2>1, <2>2 DEF Inserting, PutSteps
<1>3. CASE pc[t] = "put_link"
  <2>1. cur[t] \in R /\ next[cur[t]] = Null
    BY <1>3 DEF OnChain, Stands
  <2>2. \A m \in R : m \in 1..Len(node) /\ ~ (m > cur[t])
    BY <1>1, <2>1, ChainOfBucket
  <2>3. \A m \in R : m <= cur[t]
    BY <1>1, <2>1, <2>2
  <2>4. \A m \in R : node[m].key # arg[t].key
    BY <1>1, <1>3, <2>1, <2>2, <2>3 DEF KeysInv, WalkedPast, Stands
  <2>5. Lookup(arg[t].key) = NotFound
    BY <1>1, <2>4, LookupFacts DEF KeysInv, Home
  <2> QED
    BY <1>3, <2>3, <2>5 DEF Inserting, PutSteps
<1> QED
  BY <1>2, <1>3

(* So there is one of them at a time.                                      *)
LEMMA OneLinker ==
  ASSUME HashInv, KeysInv, OnChain, Noted, NEW t \in Thread, NEW u \in Thread,
         Home(t) = Home(u), Home(t) \notin contended,
         pc[t] \in {"put_first", "put_link"}, pc[u] \in {"put_first", "put_link"}
  PROVE  t = u
<1>1. Inserting(t) /\ Inserting(u)
  BY LinkersInsert
<1>2. ASSUME t # u PROVE Home(t) \in InsertingTogether
  BY <1>1, <1>2, Zenon DEF InsertingTogether, Home
<1> QED
  BY <1>2 DEF Noted

(* A step keeps every walk in such a bucket on its chain.                  *)
LEMMA OnChainKept ==
  ASSUME HashInv, HashInv', KeysInv, OnChain, Noted, NEW t \in Thread, Run(t)
  PROVE  OnChain'
<1> DEFINE R(b) == Reached[head[b]]
<1>1. \A u \in Thread \ {t} : pc'[u] = pc[u] /\ cur'[u] = cur[u] /\ arg'[u] = arg[u]
  BY StepKinds
<1>2. contended \subseteq contended'
  BY DEF Run, Track
<1>3. SUFFICES ASSUME NEW u \in Thread, Home(u)' \notin contended'
               PROVE  /\ Stands(u)' => cur'[u] \in Reached'[head'[Home(u)']]
                      /\ pc'[u] = "put_link" => next'[cur'[u]] = Null
                      /\ pc'[u] = "put_first" => head'[Home(u)'] = Null
  BY DEF OnChain
<1>4. /\ Home(u)' \in 1..Buckets /\ Home(u)' \notin contended
      /\ Home(u) \in 1..Buckets /\ Home(t) \in 1..Buckets /\ Len(node) \in Nat
  <2>1. arg'[u] \in Entries
    BY DEF HashInv, TableTypeOK
  <2> QED
    BY <1>2, <1>3, <2>1, EntryFacts, HomeFacts, LinkFacts DEF Entries, Home
<1>5. CASE u = t
  <2>1. CASE Begins(t)
    <3>1. head' = head /\ Reached' = Reached
      BY <2>1, ChainsStay
    <3> QED
      BY <1>4, <1>5, <2>1, <3>1, ChainOfBucket DEF Begins, Stands
  <2>2. CASE Passes(t)
    <3>1. head' = head /\ Reached' = Reached /\ next' = next /\ Home(t)' = Home(t)
      BY <2>2, ChainsStay DEF Passes, Home
    <3>2. Stands(t) /\ cur[t] \in R(Home(t))
      BY <1>4, <1>5, <2>2, <3>1 DEF Passes, Stands, OnChain
    <3>3. next[cur[t]] # Null => next[cur[t]] \in R(Home(t))
      BY <1>4, <3>2, ChainOfBucket
    <3> QED
      BY <1>5, <2>2, <3>1, <3>2, <3>3 DEF Passes, Stands
  <2>3. CASE Finds(t) \/ Updates(t) \/ Inserts(t) \/ Leaves(t)
    BY <1>5, <2>3 DEF Finds, Updates, Inserts, Leaves, Stands
  <2> QED
    BY <2>1, <2>2, <2>3, StepKinds
<1>6. CASE u # t
  <2>1. /\ pc'[u] = pc[u] /\ cur'[u] = cur[u] /\ Home(u)' = Home(u) /\ Stands(u)' = Stands(u)
        /\ Home(u) \notin contended
    BY <1>1, <1>4, <1>6 DEF Home, Stands
  <2>2. /\ Stands(u) => cur[u] \in R(Home(u))
        /\ pc[u] = "put_link" => next[cur[u]] = Null
        /\ pc[u] = "put_first" => head[Home(u)] = Null
    BY <2>1 DEF OnChain
  <2>3. Stands(u) => cur[u] \in 1..Len(node) /\ bucket[node[cur[u]].key] = Home(u)
    BY DEF HashInv, WalksInBucket, Stands, Home
  <2>4. CASE ~ Inserts(t)
    <3>1. head' = head /\ Reached' = Reached /\ next' = next
      BY <2>4, ChainsStay, StepKinds
    <3> QED
      BY <2>1, <2>2, <3>1
  <2>5. CASE Inserts(t) /\ Home(u) # Home(t)
    <3>1. Reached'[head'[Home(u)]] = R(Home(u))
      BY <1>4, <2>5, InsertedChain
    <3>2. head'[Home(u)] = head[Home(u)]
      BY <1>4, <2>5 DEF Inserts, HashInv, TableTypeOK
    <3>3. pc[u] = "put_link" => next'[cur[u]] = next[cur[u]]
      <4> SUFFICES ASSUME pc[u] = "put_link" PROVE next'[cur[u]] = next[cur[u]]
        OBVIOUS
      <4>1. cur[u] \in 1..Len(node) /\ bucket[node[cur[u]].key] = Home(u)
        BY <2>3 DEF Stands
      <4>2. pc[t] = "put_link" => bucket[node[cur[t]].key] = Home(t)
        BY DEF HashInv, WalksInBucket, Home
      <4>3. cur[u] # Behind(t)
        BY <2>5, <4>1, <4>2 DEF Behind, Inserts, Null
      <4> QED
        BY <2>5, <4>1, <4>3 DEF Inserts
    <3> QED
      BY <2>1, <2>2, <3>1, <3>2, <3>3
  <2>6. CASE Inserts(t) /\ Home(u) = Home(t)
    <3>1. pc[t] \in {"put_first", "put_link"} /\ Home(t) \notin contended
      BY <2>1, <2>6 DEF Inserts
    <3>2. pc[u] \notin {"put_first", "put_link"}
      BY <1>6, <2>6, <3>1, OneLinker
    <3>3. Stands(u) => pc[t] = "put_link" /\ cur[u] \in R(Home(t)) /\ cur[u] <= cur[t]
      BY <2>2, <2>6, <3>1, LinkersInsert
    <3>4. pc[t] = "put_link" => cur[t] \in R(Home(t))
      BY <3>1 DEF OnChain, Stands
    <3>5. Stands(u) => cur[u] \in Reached'[head'[Home(u)]]
      <4> SUFFICES ASSUME Stands(u) PROVE cur[u] \in Reached'[head'[Home(t)]]
        BY <2>6
      <4>1. /\ pc[t] = "put_link" /\ cur[t] \in R(Home(t))
            /\ cur[u] \in R(Home(t)) /\ cur[u] <= cur[t]
        BY <3>3, <3>4
      <4>2. Reached'[head'[Home(t)]] = {m \in R(Home(t)) : m <= cur[t]} \cup {Len(node) + 1}
        BY <1>4, <2>6, <4>1, InsertedChain
      <4> HIDE DEF R
      <4> QED
        BY <4>1, <4>2
    <3> QED
      BY <2>1, <3>2, <3>5
  <2> QED
    BY <2>4, <2>5, <2>6
<1> QED
  BY <1>5, <1>6

-----------------------------------------------------------------------------
(***************************************************************************)
(* The invariant holds.                                                    *)
(***************************************************************************)

(* Two new keys that meet are noted at once.                               *)
LEMMA TrackNotes ==
  ASSUME HashInv', Track, contended \subseteq 1..Buckets
  PROVE  Noted' /\ contended' \subseteq 1..Buckets /\ tangled' \in BOOLEAN
<1>1. contended' = contended \cup InsertingTogether'
  BY DEF Track
<1>2. \A u \in Thread : Home(u)' \in 1..Buckets
  <2> TAKE u \in Thread
  <2>1. arg'[u] \in Entries
    BY DEF HashInv, TableTypeOK
  <2> QED
    BY <2>1, EntryFacts DEF Entries, Home
<1>3. InsertingTogether' \subseteq 1..Buckets
  BY <1>2 DEF InsertingTogether, Home
<1>4. tangled' \in BOOLEAN
  BY Zenon DEF Track
<1> QED
  BY <1>1, <1>3, <1>4 DEF Noted

(* Values, arguments and counts keep their types.                          *)
LEMMA ValuesKept ==
  ASSUME HashInv, HashInv', ValuesInv, NEW t \in Thread, Run(t)
  PROVE  ValuesInv'
<1> DEFINE N == Len(node)
<1>1. /\ N \in Nat /\ MaxNodes \in Nat /\ N <= MaxNodes /\ DOMAIN node = 1..N
      /\ node \in Seq(Entries) /\ arg' \in [Thread -> Entries] /\ arg[t] \in Entries
  BY LinkFacts, HashConstants DEF HashInv, TableTypeOK, ValuesInv
<1>2. \A u \in Thread \ {t} : pc'[u] = pc[u] /\ cur'[u] = cur[u] /\ arg'[u] = arg[u]
  BY StepKinds
<1>3. Noted' /\ contended' \subseteq 1..Buckets /\ tangled' \in BOOLEAN
  BY TrackNotes DEF Run, ValuesInv
<1>4. up' \in BOOLEAN
  <2>1. up' = up
    BY DEF Run, Step, GetBegin, GetWalk, GetReturn, PutBegin, PutFirst, PutWalk, PutLink,
           DumpOpen, DumpScan, DumpClose, ReadLine
  <2> QED
    BY <2>1 DEF ValuesInv
<1>5. Len(node') <= MaxNodes
  BY <1>1, ChainsStay, StepKinds DEF Inserts
<1>6. \A n \in 1..Len(node') : node'[n].value \in Stored
  <2>1. CASE UNCHANGED memory
    BY <2>1 DEF ValuesInv, memory
  <2>2. CASE Updates(t)
    <3>1. arg[t].value \in Stored
      BY <2>2 DEF Updates, ValuesInv, PutSteps
    <3>2. Len(node') = N
      BY <2>2, ChainsStay
    <3>3. \A n \in 1..N : node[n] \in [key : Key, value : Stored \cup {NotFound}]
      BY <1>1, ElementOfSeq DEF Entries
    <3>4. \A n \in 1..N : node'[n].value = IF n = cur[t] THEN arg[t].value ELSE node[n].value
      BY <1>1, <2>2, <3>3 DEF Updates
    <3> QED
      BY <3>1, <3>2, <3>4 DEF ValuesInv
  <2>3. CASE Inserts(t)
    <3>1. arg[t].value \in Stored
      BY <2>3 DEF Inserts, ValuesInv, PutSteps
    <3>2. \A n \in 1..(N + 1) : n = N + 1 \/ n \in 1..N
      BY <1>1
    <3> QED
      BY <1>1, <2>3, <3>1, <3>2 DEF Inserts, ValuesInv
  <2> QED
    BY <2>1, <2>2, <2>3, StepKinds DEF Begins, Passes, Finds, Leaves
<1>7. ASSUME NEW u \in Thread
      PROVE  /\ pc'[u] = "get_walk" => arg'[u].value = NotFound
             /\ pc'[u] \in PutSteps => arg'[u].value \in Stored
  <2>1. CASE u # t
    BY <1>2, <2>1 DEF ValuesInv
  <2>2. CASE u = t
    <3>1. CASE Begins(t)
      BY <2>2, <3>1 DEF Begins, PutSteps
    <3>2. CASE Passes(t)
      BY <2>2, <3>2 DEF Passes, PutSteps, ValuesInv
    <3>3. CASE Finds(t) \/ Updates(t) \/ Inserts(t) \/ Leaves(t)
      BY <2>2, <3>3 DEF Finds, Updates, Inserts, Leaves, PutSteps
    <3> QED
      BY <3>1, <3>2, <3>3, StepKinds
  <2> QED
    BY <2>1, <2>2
<1> QED
  BY <1>3, <1>4, <1>5, <1>6, <1>7 DEF ValuesInv

(* A client that starts has an empty table, in which nobody walks.         *)
LEMMA EmptyTableInv ==
  ASSUME HashInv, head = NoTable, node = <<>>, pc = All("idle"),
         up \in BOOLEAN, contended = {}, tangled = FALSE
  PROVE  TableInv
<1>1. Len(node) = 0 /\ MaxNodes \in Nat /\ 1..Len(node) = {}
  BY HashConstants
<1>2. \A t \in Thread : pc[t] = "idle"
  BY DEF All
<1>3. \A b \in 1..Buckets : head[b] = Null /\ Reached[head[b]] = {}
  BY ReachedUnfolds DEF NoTable
<1>4. ValuesInv
  <2>1. Len(node) <= MaxNodes /\ \A n \in 1..Len(node) : node[n].value \in Stored
    BY <1>1
  <2>2. \A t \in Thread : pc[t] # "get_walk" /\ pc[t] \notin PutSteps
    BY <1>2 DEF PutSteps
  <2>3. tangled \in BOOLEAN /\ contended \subseteq 1..Buckets
    OBVIOUS
  <2> QED
    BY <2>1, <2>2, <2>3, Zenon DEF ValuesInv
<1>5. KeysInv
  BY <1>1, <1>2, <1>3 DEF KeysInv, OneLink, WalkedPast, KeysOnce, Stands
<1>6. OnChain
  BY <1>2 DEF OnChain, Stands
<1>7. Noted
  BY <1>2 DEF Noted, InsertingTogether, Inserting, PutSteps
<1> QED
  BY <1>4, <1>5, <1>6, <1>7 DEF TableInv

(* Steps in which neither the chains nor the threads move.                 *)
LEMMA NothingMoves ==
  ASSUME TableInv, HashInv', UNCHANGED <<memory, thread>>, up' \in BOOLEAN,
         \/ Track
         \/ UNCHANGED <<contended, tangled>>
  PROVE  TableInv'
<1>1. UNCHANGED <<head, next, node, pc, arg, cur>>
  BY DEF memory, thread
<1>2. Reached' = Reached
  BY <1>1, SameLinks
<1>3. Noted' /\ contended' \subseteq 1..Buckets /\ tangled' \in BOOLEAN /\ contended \subseteq contended'
  <2>1. CASE Track
    BY <2>1, TrackNotes DEF TableInv, ValuesInv, Track
  <2>2. CASE UNCHANGED <<contended, tangled>>
    <3>1. InsertingTogether' = InsertingTogether
      BY <1>1 DEF InsertingTogether, Inserting, Lookup, Chain, ChainFrom
    <3> QED
      BY <2>2, <3>1 DEF TableInv, ValuesInv, Noted
  <2> QED
    BY <2>1, <2>2
<1>4. ValuesInv'
  BY <1>1, <1>3 DEF TableInv, ValuesInv
<1>5. KeysInv'
  BY <1>1, <1>2 DEF TableInv, KeysInv, OneLink, WalkedPast, KeysOnce, Stands, Home
<1>6. OnChain'
  BY <1>1, <1>2, <1>3 DEF TableInv, OnChain, Stands, Home
<1> QED
  BY <1>3, <1>4, <1>5, <1>6 DEF TableInv

(* The invariant holds at first, and when the client was killed.           *)
LEMMA TableStarts ==
  /\ HashInit => TableInv
  /\ HashInv' /\ Crash => TableInv'
<1> DEFINE Start == /\ head = NoTable /\ node = <<>> /\ pc = All("idle")
                    /\ up \in BOOLEAN /\ contended = {} /\ tangled = FALSE
<1>1. HashInv /\ Start => TableInv
  BY EmptyTableInv
<1>2. HashInv' /\ Start' => TableInv'
  BY <1>1, PTL
<1>3. HashInit => HashInv /\ Start
  BY EmptyTable DEF HashInit
<1>4. Crash => Start'
  BY DEF Crash, NoTable, All
<1> QED
  BY <1>1, <1>2, <1>3, <1>4

(* Every step keeps it.                                                    *)
LEMMA TableNextInv == TableInv /\ [HashNext]_hashVars => TableInv'
<1> SUFFICES ASSUME TableInv, [HashNext]_hashVars PROVE TableInv'
  OBVIOUS
<1>1. HashInv /\ HashInv'
  BY HashNextInv DEF TableInv
<1>2. ASSUME NEW t \in Thread, Run(t)
      PROVE  TableInv'
  <2>1. \A u \in Thread \ {t} : pc'[u] = pc[u] /\ cur'[u] = cur[u] /\ arg'[u] = arg[u]
    BY <1>1, <1>2, StepKinds
  <2>2. KeysInv'
    BY <1>1, <1>2, <2>1, StepKinds, KeysStay, KeysInserted DEF TableInv
  <2>3. ValuesInv'
    BY <1>1, <1>2, ValuesKept DEF TableInv
  <2>4. OnChain'
    BY <1>1, <1>2, OnChainKept DEF TableInv
  <2>5. Noted'
    BY <1>1, <1>2, TrackNotes DEF TableInv, ValuesInv, Run
  <2> QED
    BY <1>1, <2>2, <2>3, <2>4, <2>5 DEF TableInv
<1>3. CASE Started /\ Track
  <2>1. UNCHANGED <<memory, thread>> /\ up' \in BOOLEAN
    BY <1>3 DEF Started
  <2> QED
    BY <1>1, <1>3, <2>1, NothingMoves
<1>4. CASE Crash
  BY <1>1, <1>4, TableStarts
<1>5. CASE UNCHANGED hashVars
  <2>1. UNCHANGED <<memory, thread>> /\ UNCHANGED <<contended, tangled>> /\ up' \in BOOLEAN
    BY <1>5 DEF hashVars, history, TableInv, ValuesInv
  <2> QED
    BY <1>1, <2>1, NothingMoves
<1> QED
  BY <1>2, <1>3, <1>4, <1>5 DEF HashNext

(* So it always holds.                                                     *)
LEMMA TableAlways == HashSpec => []TableInv
  BY TableStarts, TableNextInv, PTL DEF HashSpec

-----------------------------------------------------------------------------
(***************************************************************************)
(* The theorems.                                                           *)
(***************************************************************************)

(* The nodes, keys, values and calls have their types, and no more than    *)
(* MaxNodes nodes are allocated.                                           *)
THEOREM HashTypeCorrect == HashSpec => []HashTypeOK
<1>1. TableInv => HashTypeOK
  <2> SUFFICES ASSUME TableInv PROVE HashTypeOK
    OBVIOUS
  <2> DEFINE N == Len(node)
  <2>1. /\ N \in Nat /\ DOMAIN node = 1..N /\ N <= MaxNodes /\ MaxNodes \in Nat
        /\ node \in Seq(Entries)
    BY LinkFacts, HashConstants DEF TableInv, ValuesInv, HashInv, TableTypeOK
  <2>2. \A n \in 1..N : node[n] \in [key : Key, value : Stored]
    <3> TAKE n \in 1..N
    <3>1. node[n] \in [key : Key, value : Stored \cup {NotFound}]
      BY <2>1, ElementOfSeq DEF Entries
    <3>2. node[n].value \in Stored
      BY DEF TableInv, ValuesInv
    <3> QED
      BY <3>1, <3>2
  <2>3. node \in [DOMAIN node -> [key : Key, value : Stored]]
    BY <2>1, <2>2
  <2>4. next \in [DOMAIN node -> 0..N]
    <3>1. next \in Seq(Nat) /\ Len(next) = N /\ \A n \in 1..N : next[n] \in 0..N
      BY DEF TableInv, HashInv, TableTypeOK
    <3> QED
      BY <2>1, <3>1, LenProperties
  <2>5. N \in 0..MaxNodes
    BY <2>1
  <2>6. /\ head \in [1..Buckets -> 0..N] /\ pc \in [Thread -> PC]
        /\ arg \in [Thread -> [key : Key, value : Stored \cup {NotFound}]]
    BY DEF TableInv, HashInv, TableTypeOK, Entries
  <2>7. up \in BOOLEAN /\ tangled \in BOOLEAN /\ contended \subseteq 1..Buckets
    BY Zenon DEF TableInv, ValuesInv
  <2> QED
    BY <2>3, <2>4, <2>5, <2>6, <2>7, Zenon DEF HashTypeOK
<1> QED
  BY <1>1, TableAlways, PTL

(* No key is in the table twice, whatever put()s overlap: an update never  *)
(* goes to a node that get() does not look at.                             *)
THEOREM KeysAreSingle == HashSpec => []NoKeyTwice
<1>1. TableInv => NoKeyTwice
  BY ChainOfBucket DEF TableInv, KeysInv, KeysOnce, NoKeyTwice
<1> QED
  BY <1>1, TableAlways, PTL

(* What get() would find now, of a key and of the key of a thread.         *)
Found(k) ==
  /\ \A n \in Reached[head[bucket[k]]] : node[n].key = k => Lookup(k) = node[n].value
  /\ (\A n \in Reached[head[bucket[k]]] : node[n].key # k) => Lookup(k) = NotFound

FoundBy(t) ==
  /\ \A n \in Reached[head[Home(t)]] :
       node[n].key = arg[t].key => Lookup(arg[t].key) = node[n].value
  /\ (\A n \in Reached[head[Home(t)]] : node[n].key # arg[t].key)
       => Lookup(arg[t].key) = NotFound

(* Lookup is what these say.                                               *)
LEMMA FoundNow ==
  /\ TableInv => \A k \in Key : Found(k)
  /\ TableInv => \A t \in Thread : FoundBy(t)
<1>1. TableInv => \A k \in Key : Found(k)
  BY LookupFacts DEF TableInv, KeysInv, Found
<1>2. TableInv => \A t \in Thread : FoundBy(t)
  BY <1>1, HomeFacts DEF TableInv, Found, FoundBy, Home
<1> QED
  BY <1>1, <1>2

(* And after a step.                                                       *)
LEMMA FoundNext ==
  /\ TableInv' => \A k \in Key : Found(k)'
  /\ TableInv' => \A t \in Thread : FoundBy(t)'
<1>1. /\ TableInv' => (\A k \in Key : Found(k))'
      /\ TableInv' => (\A t \in Thread : FoundBy(t))'
  <2>1. TableInv => \A k \in Key : Found(k)
    BY FoundNow
  <2>2. TableInv => \A t \in Thread : FoundBy(t)
    BY FoundNow
  <2> QED
    BY <2>1, <2>2, PTL
<1> QED
  BY <1>1

(* A get() that reaches its last step in such a bucket returns what the    *)
(* table has then.                                                         *)
LEMMA GetIsExact ==
  ASSUME TableInv, TableInv', NEW t \in Thread, Run(t),
         pc[t] # "got", pc'[t] = "got", Home(t)' \notin contended'
  PROVE  arg'[t].value = Lookup(arg[t].key)'
<1> DEFINE R == Reached[head[Home(t)]]
<1>1. /\ \A n \in Reached'[head'[Home(t)']] :
           node'[n].key = arg'[t].key => Lookup(arg[t].key)' = node'[n].value
      /\ (\A n \in Reached'[head'[Home(t)']] : node'[n].key # arg'[t].key)
           => Lookup(arg[t].key)' = NotFound
  BY FoundNext DEF FoundBy
<1>2. contended \subseteq contended' /\ Home(t) \in 1..Buckets /\ Len(node) \in Nat
  BY HomeFacts, LinkFacts DEF Run, Track, TableInv
<1>3. CASE Begins(t)
  <2>1. head' = head /\ Reached' = Reached /\ head[Home(t)'] = Null /\ arg'[t].value = NotFound
    BY <1>3, ChainsStay DEF Begins, TableInv
  <2>2. Reached'[head'[Home(t)']] = {}
    BY <2>1, ReachedUnfolds DEF TableInv
  <2> QED
    BY <1>1, <2>1, <2>2
<1>4. CASE Passes(t) \/ Finds(t)
  <2>1. /\ head' = head /\ node' = node /\ Reached' = Reached
        /\ pc[t] = "get_walk" /\ arg'[t].key = arg[t].key /\ Home(t)' = Home(t)
    BY <1>4, ChainsStay DEF Passes, Finds, TableInv, memory, Home
  <2>2. cur[t] \in R /\ arg[t].value = NotFound
    BY <1>2, <2>1 DEF TableInv, OnChain, ValuesInv, Stands
  <2>3. CASE Finds(t)
    BY <1>1, <2>1, <2>2, <2>3 DEF Finds
  <2>4. CASE Passes(t)
    <3>1. next[cur[t]] = Null /\ node[cur[t]].key # arg[t].key /\ arg' = arg
      BY <2>1, <2>4 DEF Passes
    <3>2. \A m \in R : m < cur[t] \/ m = cur[t]
      <4>1. \A m \in R : m \in 1..Len(node) /\ ~ (m > cur[t])
        BY <1>2, <2>2, <3>1, ChainOfBucket DEF TableInv
      <4> QED
        BY <1>2, <2>2, <4>1
    <3>3. \A m \in R : node[m].key # arg[t].key
      BY <2>1, <2>2, <3>1, <3>2 DEF TableInv, KeysInv, WalkedPast, Stands
    <3> QED
      BY <1>1, <2>1, <2>2, <3>1, <3>3
  <2> QED
    BY <1>4, <2>3, <2>4
<1> QED
  BY <1>3, <1>4, StepKinds DEF Updates, Inserts, Leaves, TableInv

(* As long as no two new keys are put into its bucket at the same time,    *)
(* get() returns a value the table had for its key while it ran.           *)
THEOREM GetsAreRegular == HashSpec => []GetIsRegular
<1>1. HashInit => GetIsRegular
  BY DEF HashInit, GetIsRegular, All
<1>2. TableInv /\ TableInv' /\ GetIsRegular /\ [HashNext]_hashVars => GetIsRegular'
  <2> SUFFICES ASSUME TableInv, TableInv', GetIsRegular, [HashNext]_hashVars,
                      NEW u \in Thread, pc'[u] = "got", Home(u)' \notin contended'
               PROVE  arg'[u].value \in seen'[u]
    BY DEF GetIsRegular, Home
  <2>1. ASSUME Track
        PROVE  contended \subseteq contended' /\ seen'[u] = seen[u] \cup {Lookup(arg[u].key)'}
    BY <2>1 DEF Track, Getting
  <2>2. ASSUME pc[u] = "got", arg'[u] = arg[u], contended \subseteq contended'
        PROVE  arg'[u].value \in seen[u]
    BY <2>2 DEF GetIsRegular, Home
  <2>3. ASSUME NEW t \in Thread, Run(t)
        PROVE  arg'[u].value \in seen'[u]
    <3>1. Track
      BY <2>3 DEF Run
    <3>2. CASE u # t
      <4>1. pc[u] = "got" /\ arg'[u] = arg[u]
        BY <2>3, <3>2, StepKinds DEF TableInv
      <4> QED
        BY <2>1, <2>2, <3>1, <4>1
    <3>3. CASE u = t
      <4>1. pc[t] # "got"
        BY <2>3, <3>3, StepKinds
           DEF TableInv, Begins, Passes, Finds, Updates, Inserts, Leaves
      <4> QED
        BY <2>1, <2>3, <3>1, <3>3, <4>1, GetIsExact
    <3> QED
      BY <3>2, <3>3
  <2>4. CASE Started /\ Track
    <3>1. UNCHANGED <<pc, arg>>
      BY <2>4 DEF Started, thread
    <3> QED
      BY <2>1, <2>2, <2>4, <3>1
  <2>5. CASE Crash
    BY <2>5 DEF Crash, All
  <2>6. CASE UNCHANGED hashVars
    <3>1. UNCHANGED <<pc, arg, contended, seen>>
      BY <2>6 DEF hashVars, thread, history
    <3> QED
      BY <2>2, <3>1
  <2> QED
    BY <2>3, <2>4, <2>5, <2>6 DEF HashNext
<1> QED
  BY <1>1, <1>2, TableAlways, PTL DEF HashSpec

-----------------------------------------------------------------------------
(***************************************************************************)
(* The table of keys and values.                                           *)
(***************************************************************************)

(* A step that gives one key a value, and leaves the nodes of the others.  *)
LEMMA OneKeyPut ==
  ASSUME TableInv, TableInv', NEW k0 \in Key, NEW v,
         \E n \in Reached'[head'[bucket[k0]]] : node'[n].key = k0 /\ node'[n].value = v,
         \A k \in Key \ {k0} :
           /\ \A n \in Reached[head[bucket[k]]] :
                node[n].key = k => n \in Reached'[head'[bucket[k]]] /\ node'[n] = node[n]
           /\ \A n \in Reached'[head'[bucket[k]]] :
                node'[n].key = k => n \in Reached[head[bucket[k]]] /\ node[n].key = k
  PROVE  Promise!PutStamp(k0, v)
<1>1. Lookup(k0)' = v
  BY FoundNext DEF Found
<1>2. ASSUME NEW k \in Key \ {k0}
      PROVE  Lookup(k)' = Lookup(k)
  <2>1. CASE \E n \in Reached[head[bucket[k]]] : node[n].key = k
    <3>1. PICK n \in Reached[head[bucket[k]]] : node[n].key = k
      BY <2>1
    <3>2. n \in Reached'[head'[bucket[k]]] /\ node'[n] = node[n]
      BY <3>1
    <3>3. Lookup(k) = node[n].value
      BY <3>1, FoundNow DEF Found
    <3>4. Lookup(k)' = node'[n].value
      BY <3>1, <3>2, FoundNext DEF Found
    <3> QED
      BY <3>2, <3>3, <3>4
  <2>2. CASE \A n \in Reached[head[bucket[k]]] : node[n].key # k
    <3>1. \A n \in Reached'[head'[bucket[k]]] : node'[n].key # k
      BY <2>2
    <3>2. Lookup(k) = NotFound
      BY <2>2, FoundNow DEF Found
    <3>3. Lookup(k)' = NotFound
      BY <3>1, FoundNext DEF Found
    <3> QED
      BY <3>2, <3>3
  <2> QED
    BY <2>1, <2>2
<1>3. Table' = [k \in Key |-> Lookup(k)']
  BY DEF Table
<1> HIDE DEF Table
<1>4. Table = [k \in Key |-> Lookup(k)]
  BY DEF Table
<1>5. Table' = [Table EXCEPT ![k0] = v]
  BY <1>1, <1>2, <1>3, <1>4
<1> QED
  BY <1>5 DEF Promise!PutStamp

(* put() changes the node of its key, and no other.                        *)
LEMMA UpdateIsPut ==
  ASSUME TableInv, TableInv', NEW t \in Thread, Updates(t), Home(t) \notin contended
  PROVE  Promise!PutStamp(arg[t].key, arg[t].value)
<1>1. /\ head' = head /\ Reached' = Reached
      /\ \A n \in 1..Len(node) : node'[n].key = node[n].key
  BY ChainsStay DEF TableInv
<1>2. /\ node \in Seq(Entries) /\ DOMAIN node = 1..Len(node)
      /\ arg[t].key \in Key /\ Home(t) = bucket[arg[t].key]
      /\ \A k \in Key : bucket[k] \in 1..Buckets
  BY HomeFacts, LinkFacts, EntryFacts DEF TableInv, HashInv, TableTypeOK, Home
<1>3. cur[t] \in Reached[head[Home(t)]] /\ node[cur[t]].key = arg[t].key
  BY DEF Updates, Stands, TableInv, OnChain
<1>4. cur[t] \in 1..Len(node)
  BY <1>3, HomeFacts, ChainOfBucket DEF TableInv
<1>5. /\ node'[cur[t]].value = arg[t].value
      /\ \A n \in 1..Len(node) : n # cur[t] => node'[n] = node[n]
  <2>1. node[cur[t]] \in [key : Key, value : Stored \cup {NotFound}]
    BY <1>2, <1>4, ElementOfSeq DEF Entries
  <2> QED
    BY <1>2, <1>4, <2>1 DEF Updates
<1>6. ASSUME NEW k \in Key
      PROVE  \A n \in Reached[head[bucket[k]]] : n \in 1..Len(node)
  BY <1>2, ChainOfBucket DEF TableInv
<1>7. \E n \in Reached'[head'[Home(t)]] : node'[n].key = arg[t].key /\ node'[n].value = arg[t].value
  BY <1>1, <1>3, <1>4, <1>5
<1>8. \A k \in Key \ {arg[t].key} :
        /\ \A n \in Reached[head[bucket[k]]] :
             node[n].key = k => n \in Reached'[head'[bucket[k]]] /\ node'[n] = node[n]
        /\ \A n \in Reached'[head'[bucket[k]]] :
             node'[n].key = k => n \in Reached[head[bucket[k]]] /\ node[n].key = k
  BY <1>1, <1>3, <1>5, <1>6
<1> QED
  BY <1>2, <1>7, <1>8, OneKeyPut

(* put() links a node for a key that had none, at the end of the chain.    *)
LEMMA InsertIsPut ==
  ASSUME TableInv, TableInv', NEW t \in Thread, Inserts(t), Home(t) \notin contended
  PROVE  Promise!PutStamp(arg[t].key, arg[t].value)
<1> DEFINE N == Len(node)
           R(b) == Reached[head[b]]
<1>1. /\ N \in Nat /\ arg[t].key \in Key
      /\ Home(t) = bucket[arg[t].key] /\ Home(t) \in 1..Buckets
      /\ \A k \in Key : bucket[k] \in 1..Buckets
  BY HomeFacts, LinkFacts, EntryFacts DEF TableInv, Home
<1>2. pc[t] \in {"put_first", "put_link"}
  BY DEF Inserts
<1>3. /\ pc[t] = "put_first" => R(Home(t)) = {}
      /\ pc[t] = "put_link" => \A m \in R(Home(t)) : m <= cur[t]
  BY <1>2, LinkersInsert DEF TableInv
<1>4. pc[t] = "put_link" => cur[t] \in R(Home(t))
  BY DEF TableInv, OnChain, Stands
<1>5. ASSUME NEW b \in 1..Buckets
      PROVE  Reached'[head'[b]] = IF b = Home(t) THEN R(b) \cup {N + 1} ELSE R(b)
  <2>1. Reached'[head'[b]] =
          IF b # Home(t) THEN R(b)
          ELSE IF pc[t] = "put_first" THEN {N + 1}
          ELSE IF cur[t] \in R(b) THEN {m \in R(b) : m <= cur[t]} \cup {N + 1}
          ELSE R(b)
    BY InsertedChain DEF TableInv
  <2>2. CASE b # Home(t)
    BY <2>1, <2>2
  <2>3. CASE b = Home(t) /\ pc[t] = "put_first"
    BY <1>3, <2>1, <2>3
  <2>4. CASE b = Home(t) /\ pc[t] = "put_link"
    <3>1. cur[t] \in R(b) /\ \A m \in R(b) : m <= cur[t]
      BY <1>3, <1>4, <2>4
    <3>2. {m \in R(b) : m <= cur[t]} = R(b)
      BY <3>1
    <3> QED
      BY <2>1, <2>4, <3>1, <3>2
  <2> QED
    BY <1>2, <2>2, <2>3, <2>4
<1>6. node'[N + 1] = arg[t] /\ \A n \in 1..N : node'[n] = node[n]
  BY DEF Inserts
<1>7. ASSUME NEW k \in Key
      PROVE  \A n \in R(bucket[k]) : n \in 1..N
  BY <1>1, ChainOfBucket DEF TableInv
<1> HIDE DEF N, R
<1>8. \E n \in Reached'[head'[Home(t)]] : node'[n].key = arg[t].key /\ node'[n].value = arg[t].value
  BY <1>1, <1>5, <1>6
<1>9. ASSUME NEW k \in Key \ {arg[t].key}
      PROVE  /\ \A n \in R(bucket[k]) :
                  node[n].key = k => n \in Reached'[head'[bucket[k]]] /\ node'[n] = node[n]
             /\ \A n \in Reached'[head'[bucket[k]]] :
                  node'[n].key = k => n \in R(bucket[k]) /\ node[n].key = k
  BY <1>1, <1>5, <1>6, <1>7
<1> QED
  BY <1>1, <1>8, <1>9, OneKeyPut DEF R

(* The client that was killed comes back with an empty table.              *)
LEMMA CrashForgets == TableInv' /\ Crash => Promise!Forget
<1>1. TableInv => \A b \in 1..Buckets : head[b] = Null => Reached[head[b]] = {}
  BY ChainOfBucket DEF TableInv
<1>2. TableInv' => (\A b \in 1..Buckets : head[b] = Null => Reached[head[b]] = {})'
  BY <1>1, PTL
<1>3. SUFFICES ASSUME TableInv', Crash
               PROVE  Promise!Forget
  OBVIOUS
<1>4. ASSUME NEW k \in Key PROVE Lookup(k)' = NotFound
  <2>1. bucket[k] \in 1..Buckets /\ head'[bucket[k]] = Null
    BY <1>3, EntryFacts DEF Crash, NoTable
  <2>2. Reached'[head'[bucket[k]]] = {}
    BY <1>2, <1>3, <2>1
  <2> QED
    BY <1>3, <2>2, FoundNext DEF Found
<1>5. Table' = [k \in Key |-> Lookup(k)']
  BY DEF Table
<1> QED
  BY <1>4, <1>5 DEF Promise!Forget

(* As long as no two new keys are put into one bucket at the same time,    *)
(* the table changes by put()s of their own keys and by crashes only.      *)
THEOREM TableKept == HashSpec => TableIsKept
<1>1. TableInv /\ TableInv' /\ [HashNext]_hashVars
        => (contended' = {} => [Promise!Forget \/ OwnPut]_Table)
  <2> SUFFICES ASSUME TableInv, TableInv', [HashNext]_hashVars, contended' = {}
               PROVE  [Promise!Forget \/ OwnPut]_Table
    OBVIOUS
  <2>1. UNCHANGED memory => Table' = Table
    BY DEF memory, Table, Lookup, Chain, ChainFrom
  <2>2. ASSUME NEW t \in Thread, Run(t)
        PROVE  [Promise!Forget \/ OwnPut]_Table
    <3>1. Home(t) \notin contended
      BY <2>2 DEF Run, Track
    <3>2. CASE Updates(t) \/ Inserts(t)
      BY <3>1, <3>2, UpdateIsPut, InsertIsPut DEF OwnPut
    <3>3. CASE Begins(t) \/ Passes(t) \/ Finds(t) \/ Leaves(t)
      BY <2>1, <3>3 DEF Begins, Passes, Finds, Leaves
    <3> QED
      BY <2>2, <3>2, <3>3, StepKinds DEF TableInv
  <2>3. CASE Crash
    BY <2>3, CrashForgets
  <2>4. CASE Started \/ UNCHANGED hashVars
    BY <2>1, <2>4 DEF Started, hashVars
  <2> QED
    BY <2>2, <2>3, <2>4 DEF HashNext
<1> QED
  BY <1>1, TableAlways, PTL DEF HashSpec, TableIsKept

=============================================================================
