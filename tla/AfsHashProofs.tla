--------------------------- MODULE AfsHashProofs ---------------------------
(***************************************************************************)
(* What the chains of AfsHash are for every number of threads, keys,       *)
(* buckets and nodes, whatever put()s, get()s and dump()s overlap.         *)
(***************************************************************************)
EXTENDS AfsHash, SequenceTheorems, TLAPS

-----------------------------------------------------------------------------
(***************************************************************************)
(* The invariant.                                                          *)
(***************************************************************************)
Entries == [key : Key, value : Stored \cup {NotFound}]

(* The table as far as ChainsEnd needs its types: the number of nodes has  *)
(* no bound here.                                                          *)
TableTypeOK ==
  /\ node \in Seq(Entries)
  /\ next \in Seq(Nat) /\ Len(next) = Len(node)
  /\ \A n \in 1..Len(node) : next[n] \in 0..Len(node)
  /\ head \in [1..Buckets -> 0..Len(node)]
  /\ pc \in [Thread -> PC]
  /\ arg \in [Thread -> Entries]
  /\ cur \in [Thread -> Nat]

(* Whoever walks stands on a node of the bucket of its key: put() links a  *)
(* new node behind one that was in that bucket when it got there.          *)
WalksInBucket ==
  \A t \in Thread :
    pc[t] \in {"get_walk", "put_walk", "put_link"} =>
      cur[t] \in 1..Len(node) /\ bucket[node[cur[t]].key] = bucket[arg[t].key]

HashInv == TableTypeOK /\ ChainsEnd /\ WalksInBucket

-----------------------------------------------------------------------------
(***************************************************************************)
(* Lemmas about the pieces of the calls.                                   *)
(***************************************************************************)

(* What is put is an entry.                                                *)
LEMMA EntryFacts ==
  /\ NoCall \in Entries
  /\ \A k \in Key : bucket[k] \in 1..Buckets
  /\ \A p \in Puts : p[1] \in Key /\ p[2] \in Stored
<1>1. NoCall \in Entries
  <2>1. (CHOOSE k \in Key : TRUE) \in Key
    BY HashConstants
  <2> QED
    BY <2>1 DEF NoCall, Entries, Stored
<1>2. \A k \in Key : bucket[k] \in 1..Buckets
  BY HashConstants
<1>3. \A p \in Puts : p[1] \in Key /\ p[2] \in Stored
  BY HashConstants DEF Stored
<1> QED
  BY <1>1, <1>2, <1>3

(* A line of the database that is put is an entry, too.                    *)
LEMMA LineIsEntry ==
  ASSUME NEW line, Entry(line) # NoEntry
  PROVE  Entry(line).key \in Key /\ Entry(line).value \in Stored
<1> DEFINE number == SubSeq(line, 3, Len(line))
           value == IF \E v \in Stored : digits[v] = number
                    THEN CHOOSE v \in Stored : digits[v] = number ELSE Wrong
<1>1. value \in Stored
  BY DEF Stored
<1>2. Entry(line) = IF Len(line) >= 2 /\ line[1] \in Key /\ line[2] = Comma
                    THEN [key |-> line[1], value |-> value] ELSE NoEntry
  BY DEF Entry
<1> HIDE DEF value
<1> QED
  BY <1>1, <1>2

(* put() and get() begin at the head of their bucket.                      *)
LEMMA BeginsInBucket ==
  ASSUME HashInv, NEW k \in Key, head[bucket[k]] # Null
  PROVE  head[bucket[k]] \in 1..Len(node) /\ bucket[node[head[bucket[k]]].key] = bucket[k]
<1>1. bucket[k] \in 1..Buckets /\ Len(node) \in Nat
  BY EntryFacts, LenProperties DEF HashInv, TableTypeOK
<1>2. head[bucket[k]] \in 0..Len(node)
  BY <1>1 DEF HashInv, TableTypeOK
<1> QED
  BY <1>1, <1>2 DEF HashInv, ChainsEnd, Null

(* A new node is the last of all, and leads nowhere.                       *)
LEMMA CreateFacts ==
  ASSUME HashInv, NEW t \in Thread, NEW links, links \in Seq(Nat), Len(links) = Len(node),
         Create(t, links)
  PROVE  /\ node' \in Seq(Entries) /\ next' \in Seq(Nat)
         /\ Len(node) \in Nat
         /\ Len(node') = Len(node) + 1 /\ Len(next') = Len(node) + 1
         /\ node'[Len(node) + 1] = arg[t] /\ next'[Len(node) + 1] = Null
         /\ \A n \in 1..Len(node) : node'[n] = node[n] /\ next'[n] = links[n]
<1>1. arg[t] \in Entries /\ node \in Seq(Entries) /\ Null \in Nat
  BY DEF HashInv, TableTypeOK, Null
<1>2. node' = Append(node, arg[t]) /\ next' = Append(links, Null)
  BY DEF Create
<1>3. /\ Append(node, arg[t]) \in Seq(Entries)
      /\ Len(Append(node, arg[t])) = Len(node) + 1
      /\ \A n \in 1..Len(node) : Append(node, arg[t])[n] = node[n]
      /\ Append(node, arg[t])[Len(node) + 1] = arg[t]
  BY <1>1, AppendProperties
<1>4. /\ Append(links, Null) \in Seq(Nat)
      /\ Len(Append(links, Null)) = Len(links) + 1
      /\ \A n \in 1..Len(links) : Append(links, Null)[n] = links[n]
      /\ Append(links, Null)[Len(links) + 1] = Null
  BY <1>1, AppendProperties
<1>5. Len(node) \in Nat
  BY <1>1, LenProperties
<1> QED
  BY <1>2, <1>3, <1>4, <1>5

(* The types of where a thread is, after a step of one thread.             *)
LEMMA ThreadTypes ==
  ASSUME HashInv, NEW t \in Thread, NEW q \in PC, NEW n \in Nat,
         NEW k \in Key, NEW v \in Stored \cup {NotFound},
         Goto(t, q, n), Call(t, k, v) \/ UNCHANGED arg
  PROVE  /\ pc' \in [Thread -> PC] /\ cur' \in [Thread -> Nat] /\ arg' \in [Thread -> Entries]
         /\ pc'[t] = q /\ cur'[t] = n
         /\ Call(t, k, v) => arg'[t].key = k
         /\ \A u \in Thread \ {t} : pc'[u] = pc[u] /\ cur'[u] = cur[u] /\ arg'[u] = arg[u]
<1>1. [key |-> k, value |-> v] \in Entries
  BY DEF Entries
<1> QED
  BY <1>1 DEF HashInv, TableTypeOK, Goto, Call

(* A step that leaves the table alone, and whose thread stays in the       *)
(* bucket of its key or leaves the chains.                                 *)
LEMMA TableStays ==
  ASSUME HashInv, UNCHANGED memory, NEW t \in Thread,
         pc' \in [Thread -> PC], cur' \in [Thread -> Nat], arg' \in [Thread -> Entries],
         \A u \in Thread \ {t} : pc'[u] = pc[u] /\ cur'[u] = cur[u] /\ arg'[u] = arg[u],
         pc'[t] \in {"get_walk", "put_walk", "put_link"} =>
           cur'[t] \in 1..Len(node) /\ bucket[node[cur'[t]].key] = bucket[arg'[t].key]
  PROVE  HashInv'
<1>1. TableTypeOK'
  BY DEF HashInv, TableTypeOK, memory
<1>2. ChainsEnd'
  BY DEF HashInv, ChainsEnd, memory
<1>3. WalksInBucket'
  BY DEF HashInv, WalksInBucket, memory
<1> QED
  BY <1>1, <1>2, <1>3 DEF HashInv

(* The node behind one of a chain is of the same bucket.                   *)
LEMMA NextInBucket ==
  ASSUME HashInv, NEW n \in 1..Len(node), next[n] # Null
  PROVE  next[n] \in 1..Len(node) /\ bucket[node[next[n]].key] = bucket[node[n].key]
<1>1. DOMAIN node = 1..Len(node) /\ Len(node) \in Nat
  BY LenProperties DEF HashInv, TableTypeOK
<1>2. next[n] \in 0..Len(node)
  BY DEF HashInv, TableTypeOK
<1> QED
  BY <1>1, <1>2 DEF HashInv, ChainsEnd, Null

-----------------------------------------------------------------------------
(***************************************************************************)
(* The steps.                                                              *)
(***************************************************************************)

(* put() as it begins, in a call or for a line of the database.            *)
LEMMA PutInv ==
  ASSUME HashInv, NEW t \in Thread, NEW k \in Key, NEW v \in Stored, Put(t, k, v),
         UNCHANGED memory
  PROVE  HashInv'
<1> DEFINE n == head[bucket[k]]
<1>1. n \in Nat /\ (n # Null => n \in 1..Len(node) /\ bucket[node[n].key] = bucket[k])
  <2>1. bucket[k] \in 1..Buckets /\ Len(node) \in Nat
    BY EntryFacts, LenProperties DEF HashInv, TableTypeOK
  <2> QED
    BY <2>1, BeginsInBucket DEF HashInv, TableTypeOK
<1>2. Call(t, k, v) /\ Goto(t, IF n = Null THEN "put_first" ELSE "put_walk", n)
  BY DEF Put
<1>3. (IF n = Null THEN "put_first" ELSE "put_walk") \in PC
  BY DEF PC, PutSteps
<1> HIDE DEF n
<1>4. /\ pc' \in [Thread -> PC] /\ cur' \in [Thread -> Nat] /\ arg' \in [Thread -> Entries]
      /\ pc'[t] = (IF n = Null THEN "put_first" ELSE "put_walk") /\ cur'[t] = n
      /\ arg'[t].key = k
      /\ \A u \in Thread \ {t} : pc'[u] = pc[u] /\ cur'[u] = cur[u] /\ arg'[u] = arg[u]
  BY <1>1, <1>2, <1>3, ThreadTypes
<1> QED
  BY <1>1, <1>4, TableStays

(* get() changes no chain and stays in its bucket.                         *)
LEMMA GetInv ==
  ASSUME HashInv, NEW t \in Thread, GetBegin(t) \/ GetWalk(t) \/ GetReturn(t)
  PROVE  HashInv'
<1> USE DEF PC, PutSteps, DumpSteps, Null
<1>0. UNCHANGED memory /\ Len(node) \in Nat /\ DOMAIN node = 1..Len(node)
  BY LenProperties DEF HashInv, TableTypeOK, GetBegin, GetWalk, GetReturn
<1>1. CASE GetBegin(t)
  <2>1. PICK k \in Key :
          /\ Call(t, k, NotFound)
          /\ Goto(t, IF head[bucket[k]] = Null THEN "got" ELSE "get_walk", head[bucket[k]])
    BY <1>1 DEF GetBegin
  <2> DEFINE n == head[bucket[k]]
             q == IF n = Null THEN "got" ELSE "get_walk"
  <2>2. n \in Nat /\ (n # Null => n \in 1..Len(node) /\ bucket[node[n].key] = bucket[k])
    <3>1. bucket[k] \in 1..Buckets
      BY EntryFacts
    <3> QED
      BY <1>0, <3>1, BeginsInBucket DEF HashInv, TableTypeOK
  <2>3. q \in PC /\ (q = "get_walk" => n # Null) /\ q \notin {"put_walk", "put_link"}
    OBVIOUS
  <2>4. Goto(t, q, n) /\ Call(t, k, NotFound)
    BY <2>1
  <2> HIDE DEF n, q
  <2>5. /\ pc' \in [Thread -> PC] /\ cur' \in [Thread -> Nat] /\ arg' \in [Thread -> Entries]
        /\ pc'[t] = q /\ cur'[t] = n
        /\ arg'[t].key = k
        /\ \A u \in Thread \ {t} : pc'[u] = pc[u] /\ cur'[u] = cur[u] /\ arg'[u] = arg[u]
    BY <2>2, <2>3, <2>4, ThreadTypes
  <2> QED
    BY <1>0, <2>2, <2>3, <2>5, TableStays
<1>2. CASE GetWalk(t) /\ node[cur[t]].key = arg[t].key
  <2>1. Call(t, arg[t].key, node[cur[t]].value) /\ Goto(t, "got", Null)
    BY <1>2 DEF GetWalk
  <2>2. cur[t] \in 1..Len(node)
    BY <1>2 DEF GetWalk, HashInv, WalksInBucket
  <2>3. node[cur[t]] \in Entries /\ arg[t] \in Entries
    BY <1>0, <2>2, ElementOfSeq DEF HashInv, TableTypeOK
  <2>4. arg[t].key \in Key /\ node[cur[t]].value \in Stored \cup {NotFound}
    BY <2>3 DEF Entries
  <2>5. /\ pc' \in [Thread -> PC] /\ cur' \in [Thread -> Nat] /\ arg' \in [Thread -> Entries]
        /\ pc'[t] = "got"
        /\ \A u \in Thread \ {t} : pc'[u] = pc[u] /\ cur'[u] = cur[u] /\ arg'[u] = arg[u]
    BY <2>1, <2>4, ThreadTypes
  <2> QED
    BY <1>0, <2>5, TableStays
<1>3. CASE GetWalk(t) /\ node[cur[t]].key # arg[t].key
  <2> DEFINE n == next[cur[t]]
             q == IF n = Null THEN "got" ELSE "get_walk"
  <2>1. Goto(t, q, n) /\ UNCHANGED arg /\ pc[t] = "get_walk"
    BY <1>3 DEF GetWalk
  <2>2. cur[t] \in 1..Len(node) /\ bucket[node[cur[t]].key] = bucket[arg[t].key]
    BY <2>1 DEF HashInv, WalksInBucket
  <2>3. n \in Nat /\ (n # Null => n \in 1..Len(node) /\ bucket[node[n].key] = bucket[arg[t].key])
    BY <1>0, <2>2, NextInBucket DEF HashInv, TableTypeOK
  <2>4. q \in PC /\ (q = "get_walk" => n # Null) /\ q \notin {"put_walk", "put_link"}
    OBVIOUS
  <2> HIDE DEF n, q
  <2>5. PICK k \in Key : TRUE
    BY HashConstants
  <2>6. /\ pc' \in [Thread -> PC] /\ cur' \in [Thread -> Nat] /\ arg' \in [Thread -> Entries]
        /\ pc'[t] = q /\ cur'[t] = n
        /\ \A u \in Thread \ {t} : pc'[u] = pc[u] /\ cur'[u] = cur[u] /\ arg'[u] = arg[u]
    BY <2>1, <2>3, <2>4, <2>5, ThreadTypes
  <2> QED
    BY <1>0, <2>1, <2>3, <2>4, <2>6, TableStays
<1>4. CASE GetReturn(t)
  <2>1. Call(t, NoCall.key, NoCall.value) /\ Goto(t, "idle", Null)
    BY <1>4 DEF GetReturn
  <2>2. NoCall.key \in Key /\ NoCall.value \in Stored \cup {NotFound}
    BY EntryFacts DEF Entries
  <2>3. /\ pc' \in [Thread -> PC] /\ cur' \in [Thread -> Nat] /\ arg' \in [Thread -> Entries]
        /\ pc'[t] = "idle"
        /\ \A u \in Thread \ {t} : pc'[u] = pc[u] /\ cur'[u] = cur[u] /\ arg'[u] = arg[u]
    BY <2>1, <2>2, ThreadTypes
  <2> QED
    BY <1>0, <2>3, TableStays
<1> QED
  BY <1>1, <1>2, <1>3, <1>4

(* A put() that is done leaves the chains.                                 *)
LEMMA AfterPutFacts ==
  ASSUME HashInv, NEW t \in Thread, AfterPut(t)
  PROVE  /\ pc' \in [Thread -> PC] /\ cur' \in [Thread -> Nat] /\ arg' \in [Thread -> Entries]
         /\ pc'[t] \notin {"get_walk", "put_walk", "put_link"}
         /\ \A u \in Thread \ {t} : pc'[u] = pc[u] /\ cur'[u] = cur[u] /\ arg'[u] = arg[u]
<1>1. NoCall.key \in Key /\ NoCall.value \in Stored \cup {NotFound}
  BY EntryFacts DEF Entries
<1>2. "idle" \in PC /\ "dump_open" \in PC /\ Null \in Nat
  BY DEF PC, Null
<1>3. \/ Goto(t, "dump_open", Null) /\ UNCHANGED arg
      \/ Goto(t, "idle", Null) /\ Call(t, NoCall.key, NoCall.value)
  BY DEF AfterPut
<1>4. CASE Goto(t, "dump_open", Null) /\ UNCHANGED arg
  BY <1>1, <1>2, <1>4, ThreadTypes
<1>5. CASE Goto(t, "idle", Null) /\ Call(t, NoCall.key, NoCall.value)
  BY <1>1, <1>2, <1>5, ThreadTypes
<1> QED
  BY <1>3, <1>4, <1>5

(* A node that is added behind a node of its bucket, or as the first of    *)
(* its bucket, keeps every chain in its bucket and every link forward:     *)
(* also when another thread linked a node there in between.                *)
LEMMA InsertInv ==
  ASSUME HashInv, NEW t \in Thread, AfterPut(t),
         NEW links, links \in Seq(Nat), Len(links) = Len(node), Create(t, links),
         \A n \in 1..Len(node) :
           \/ links[n] = next[n]
           \/ links[n] = Len(node) + 1 /\ bucket[node[n].key] = bucket[arg[t].key],
         \/ head' = head
         \/ head' = [head EXCEPT ![bucket[arg[t].key]] = Len(node) + 1]
  PROVE  HashInv'
<1> DEFINE N == Len(node)
<1>1. /\ node' \in Seq(Entries) /\ next' \in Seq(Nat) /\ N \in Nat
      /\ Len(node') = N + 1 /\ Len(next') = N + 1
      /\ node'[N + 1] = arg[t] /\ next'[N + 1] = Null
      /\ \A n \in 1..N : node'[n] = node[n] /\ next'[n] = links[n]
  BY CreateFacts
<1>2. /\ pc' \in [Thread -> PC] /\ cur' \in [Thread -> Nat] /\ arg' \in [Thread -> Entries]
      /\ pc'[t] \notin {"get_walk", "put_walk", "put_link"}
      /\ \A u \in Thread \ {t} : pc'[u] = pc[u] /\ cur'[u] = cur[u] /\ arg'[u] = arg[u]
  BY AfterPutFacts
<1>3. /\ \A n \in 1..N : next[n] \in 0..N
      /\ head \in [1..Buckets -> 0..N]
      /\ DOMAIN node = 1..N /\ DOMAIN node' = 1..(N + 1)
  BY <1>1, LenProperties DEF HashInv, TableTypeOK
<1>4. \A n \in 1..N : next[n] # Null =>
        next[n] > n /\ next[n] \in 1..N /\ bucket[node[next[n]].key] = bucket[node[n].key]
  BY <1>3, NextInBucket DEF HashInv, ChainsEnd
<1>5. \A b \in 1..Buckets : head[b] # Null => head[b] \in 1..N /\ bucket[node[head[b]].key] = b
  BY <1>1, <1>3 DEF HashInv, ChainsEnd, Null
<1>6. \A n \in 1..(N + 1) : n \in 1..N \/ n = N + 1
  BY <1>1
<1> HIDE DEF N
<1>7. \A n \in 1..N : next'[n] = next[n] \/ (next'[n] = N + 1 /\ bucket[node[n].key] = bucket[arg[t].key])
  BY <1>1 DEF N
<1>8. TableTypeOK'
  <2>1. head' \in [1..Buckets -> 0..(N + 1)]
    BY <1>1, <1>3 DEF N
  <2>2. \A n \in 1..(N + 1) : next'[n] \in 0..(N + 1)
    <3>1. \A n \in 1..N : next'[n] \in 0..(N + 1)
      <4>1. \A n \in 1..N : next[n] \in 0..(N + 1) /\ N + 1 \in 0..(N + 1)
        BY <1>1, <1>3 DEF N
      <4> QED
        BY <1>7, <4>1
    <3>2. next'[N + 1] \in 0..(N + 1)
      BY <1>1 DEF N, Null
    <3> QED
      BY <1>6, <3>1, <3>2
  <2> QED
    BY <1>1, <1>2, <2>1, <2>2 DEF TableTypeOK
<1>9. ChainsEnd'
  <2>1. ASSUME NEW b \in 1..Buckets, head'[b] # Null
        PROVE  bucket[node'[head'[b]].key] = b
    <3>1. head'[b] = head[b] \/ (head'[b] = N + 1 /\ b = bucket[arg[t].key])
      BY <1>3 DEF N
    <3> QED
      BY <1>1, <1>5, <2>1, <3>1
  <2>2. ASSUME NEW n \in 1..(N + 1), next'[n] # Null
        PROVE  next'[n] > n /\ bucket[node'[next'[n]].key] = bucket[node'[n].key]
    <3>1. n \in 1..N
      BY <1>1, <1>6, <2>2
    <3>2. CASE next'[n] = next[n]
      <4>1. next[n] > n /\ next[n] \in 1..N /\ bucket[node[next[n]].key] = bucket[node[n].key]
        BY <1>4, <2>2, <3>1, <3>2
      <4>2. node'[n] = node[n] /\ node'[next[n]] = node[next[n]]
        BY <1>1, <3>1, <4>1
      <4> QED
        BY <3>2, <4>1, <4>2
    <3>3. CASE next'[n] = N + 1 /\ bucket[node[n].key] = bucket[arg[t].key]
      BY <1>1, <3>1, <3>3
    <3> QED
      BY <1>7, <3>1, <3>2, <3>3
  <2> QED
    BY <1>3, <2>1, <2>2 DEF ChainsEnd
<1>10. WalksInBucket'
  <2> SUFFICES ASSUME NEW u \in Thread, pc'[u] \in {"get_walk", "put_walk", "put_link"}
               PROVE  cur'[u] \in 1..(N + 1)
                        /\ bucket[node'[cur'[u]].key] = bucket[arg'[u].key]
    BY <1>1 DEF WalksInBucket
  <2>1. u # t
    BY <1>2
  <2>2. pc'[u] = pc[u] /\ cur'[u] = cur[u] /\ arg'[u] = arg[u]
    BY <1>2, <2>1
  <2>3. cur[u] \in 1..N /\ bucket[node[cur[u]].key] = bucket[arg[u].key]
    BY <2>2 DEF HashInv, WalksInBucket, N
  <2>4. node'[cur[u]] = node[cur[u]]
    BY <1>1, <2>3
  <2> QED
    BY <1>1, <2>2, <2>3, <2>4
<1> QED
  BY <1>8, <1>9, <1>10 DEF HashInv

(* A first node of a bucket, even of one that another put() has filled in  *)
(* the meantime, ends in Null.                                             *)
LEMMA PutFirstInv ==
  ASSUME HashInv, NEW t \in Thread, PutFirst(t)
  PROVE  HashInv'
<1>1. /\ Create(t, next) /\ AfterPut(t)
      /\ head' = [head EXCEPT ![bucket[arg[t].key]] = Len(node) + 1]
  BY DEF PutFirst
<1>2. next \in Seq(Nat) /\ Len(next) = Len(node)
  BY DEF HashInv, TableTypeOK
<1> QED
  BY <1>1, <1>2, InsertInv

(* A node linked behind another is the later of the two.                   *)
LEMMA PutLinkInv ==
  ASSUME HashInv, NEW t \in Thread, PutLink(t)
  PROVE  HashInv'
<1> DEFINE links == [next EXCEPT ![cur[t]] = Len(node) + 1]
<1>1. Create(t, links) /\ AfterPut(t) /\ head' = head /\ pc[t] = "put_link"
  BY DEF PutLink
<1>2. next \in Seq(Nat) /\ Len(next) = Len(node) /\ Len(node) \in Nat
  BY LenProperties DEF HashInv, TableTypeOK
<1>3. cur[t] \in 1..Len(node) /\ bucket[node[cur[t]].key] = bucket[arg[t].key]
  BY <1>1 DEF HashInv, WalksInBucket
<1>4. /\ links \in Seq(Nat) /\ Len(links) = Len(node)
      /\ \A n \in 1..Len(node) : links[n] = IF n = cur[t] THEN Len(node) + 1 ELSE next[n]
  BY <1>2, <1>3, ExceptSeq
<1> HIDE DEF links
<1> QED
  BY <1>1, <1>3, <1>4, InsertInv

(* A put() that walks changes values, and stays in its bucket.             *)
LEMMA PutWalkInv ==
  ASSUME HashInv, NEW t \in Thread, PutWalk(t)
  PROVE  HashInv'
<1> DEFINE n == cur[t]
<1>1. pc[t] = "put_walk" /\ head' = head /\ next' = next
  BY DEF PutWalk
<1>2. n \in 1..Len(node) /\ bucket[node[n].key] = bucket[arg[t].key]
  BY <1>1 DEF HashInv, WalksInBucket
<1>3. /\ Len(node) \in Nat /\ DOMAIN node = 1..Len(node)
      /\ node \in Seq(Entries) /\ node[n] \in Entries /\ arg[t] \in Entries
  BY <1>2, LenProperties, ElementOfSeq DEF HashInv, TableTypeOK
<1>4. CASE node[n].key = arg[t].key
  <2>1. node' = [node EXCEPT ![n].value = arg[t].value] /\ AfterPut(t)
    BY <1>4 DEF PutWalk
  <2>2. [node[n] EXCEPT !.value = arg[t].value] \in Entries
    BY <1>3 DEF Entries
  <2>3. node' = [node EXCEPT ![n] = [node[n] EXCEPT !.value = arg[t].value]]
    BY <2>1
  <2>4. node' \in Seq(Entries) /\ Len(node') = Len(node) /\ DOMAIN node' = 1..Len(node)
    BY <1>2, <1>3, <2>2, <2>3, ExceptSeq, LenProperties
  <2>5. \A m \in 1..Len(node) : node'[m].key = node[m].key
    <3>1. node[n] \in [key : Key, value : Stored \cup {NotFound}]
      BY <1>3 DEF Entries
    <3>2. node'[n].key = node[n].key
      BY <1>2, <1>3, <2>3, <3>1
    <3>3. \A m \in 1..Len(node) : m # n => node'[m] = node[m]
      BY <1>2, <1>3, <2>3
    <3> QED
      BY <3>2, <3>3
  <2>6. /\ pc' \in [Thread -> PC] /\ cur' \in [Thread -> Nat] /\ arg' \in [Thread -> Entries]
        /\ pc'[t] \notin {"get_walk", "put_walk", "put_link"}
        /\ \A u \in Thread \ {t} : pc'[u] = pc[u] /\ cur'[u] = cur[u] /\ arg'[u] = arg[u]
    BY <2>1, AfterPutFacts
  <2>7. TableTypeOK'
    BY <1>1, <2>4, <2>6 DEF HashInv, TableTypeOK
  <2>8. ChainsEnd'
    <3>1. ASSUME NEW b \in 1..Buckets, head'[b] # Null
          PROVE  bucket[node'[head'[b]].key] = b
      <4>1. head[b] \in 1..Len(node)
        BY <1>1, <1>3, <3>1 DEF HashInv, TableTypeOK, Null
      <4> QED
        BY <1>1, <2>5, <3>1, <4>1 DEF HashInv, ChainsEnd
    <3>2. ASSUME NEW m \in 1..Len(node), next'[m] # Null
          PROVE  next'[m] > m /\ bucket[node'[next'[m]].key] = bucket[node'[m].key]
      <4>1. next[m] \in 1..Len(node)
        BY <1>1, <3>2, NextInBucket
      <4> QED
        BY <1>1, <1>3, <2>5, <3>2, <4>1 DEF HashInv, ChainsEnd
    <3> QED
      BY <2>4, <3>1, <3>2 DEF ChainsEnd
  <2>9. WalksInBucket'
    <3> SUFFICES ASSUME NEW u \in Thread, pc'[u] \in {"get_walk", "put_walk", "put_link"}
                 PROVE  cur'[u] \in 1..Len(node)
                          /\ bucket[node'[cur'[u]].key] = bucket[arg'[u].key]
      BY <2>4 DEF WalksInBucket
    <3>1. pc'[u] = pc[u] /\ cur'[u] = cur[u] /\ arg'[u] = arg[u]
      BY <2>6
    <3>2. cur[u] \in 1..Len(node) /\ bucket[node[cur[u]].key] = bucket[arg[u].key]
      BY <3>1 DEF HashInv, WalksInBucket
    <3> QED
      BY <2>5, <3>1, <3>2
  <2> QED
    BY <2>7, <2>8, <2>9 DEF HashInv
<1>5. CASE node[n].key # arg[t].key
  <2> DEFINE q == IF next[n] = Null THEN "put_link" ELSE "put_walk"
             m == IF next[n] = Null THEN n ELSE next[n]
  <2>1. Goto(t, q, m) /\ UNCHANGED <<node, arg>>
    BY <1>5 DEF PutWalk
  <2>2. m \in 1..Len(node) /\ bucket[node[m].key] = bucket[arg[t].key] /\ m \in Nat
    BY <1>2, <1>3, NextInBucket
  <2>3. q \in PC
    BY DEF PC, PutSteps
  <2> HIDE DEF q, m
  <2>4. PICK k \in Key : TRUE
    BY HashConstants
  <2>5. /\ pc' \in [Thread -> PC] /\ cur' \in [Thread -> Nat] /\ arg' \in [Thread -> Entries]
        /\ cur'[t] = m
        /\ \A u \in Thread \ {t} : pc'[u] = pc[u] /\ cur'[u] = cur[u] /\ arg'[u] = arg[u]
    BY <2>1, <2>2, <2>3, <2>4, ThreadTypes
  <2>6. UNCHANGED memory
    BY <1>1, <2>1 DEF memory
  <2> QED
    BY <2>1, <2>2, <2>5, <2>6, TableStays
<1> QED
  BY <1>4, <1>5

(* dump() changes no chain.                                                *)
LEMMA DumpInv ==
  ASSUME HashInv, NEW t \in Thread, DumpOpen(t) \/ DumpScan(t) \/ DumpClose(t)
  PROVE  HashInv'
<1>1. UNCHANGED memory
  BY DEF DumpOpen, DumpScan, DumpClose
<1>2. NoCall.key \in Key /\ NoCall.value \in Stored \cup {NotFound}
  BY EntryFacts DEF Entries
<1>3. /\ {"dump_scan", "dump_close", "idle"} \subseteq PC
      /\ 1 \in Nat /\ Null \in Nat /\ cur[t] + 1 \in Nat
  BY DEF PC, DumpSteps, Null, HashInv, TableTypeOK
<1>4. PICK q \in {"dump_scan", "dump_close", "idle"}, n \in Nat :
        Goto(t, q, n) /\ (Call(t, NoCall.key, NoCall.value) \/ UNCHANGED arg)
  <2>1. CASE DumpOpen(t)
    BY <1>3, <2>1 DEF DumpOpen
  <2>2. CASE DumpScan(t)
    BY <1>3, <2>2 DEF DumpScan
  <2>3. CASE DumpClose(t)
    BY <1>3, <2>3 DEF DumpClose
  <2> QED
    BY <2>1, <2>2, <2>3
<1>5. /\ pc' \in [Thread -> PC] /\ cur' \in [Thread -> Nat] /\ arg' \in [Thread -> Entries]
      /\ pc'[t] = q
      /\ \A u \in Thread \ {t} : pc'[u] = pc[u] /\ cur'[u] = cur[u] /\ arg'[u] = arg[u]
  BY <1>2, <1>3, <1>4, ThreadTypes
<1> QED
  BY <1>1, <1>5, TableStays

(* A client that starts has an empty table.                                *)
LEMMA EmptyTable ==
  /\ HashInit => HashInv
  /\ HashInv /\ Crash => HashInv'
<1>1. <<>> \in Seq(Entries) /\ <<>> \in Seq(Nat) /\ Len(<<>>) = 0 /\ DOMAIN <<>> = {}
  BY EmptySeq
<1>2. /\ NoTable \in [1..Buckets -> 0..0] /\ \A b \in 1..Buckets : NoTable[b] = Null
      /\ \A x : DOMAIN All(x) = Thread /\ \A t \in Thread : All(x)[t] = x
      /\ All("idle") \in [Thread -> PC] /\ All(Null) \in [Thread -> Nat]
      /\ All(NoCall) \in [Thread -> Entries]
  BY EntryFacts DEF NoTable, Null, All, PC
<1>3. ASSUME HashInit PROVE HashInv
  BY <1>1, <1>2, <1>3 DEF HashInit, HashInv, TableTypeOK, ChainsEnd, WalksInBucket
<1>4. ASSUME HashInv, Crash PROVE HashInv'
  <2>1. /\ head' = NoTable /\ next' = <<>> /\ node' = <<>>
        /\ pc' = All("idle") /\ arg' = All(NoCall) /\ cur' = All(Null)
    BY <1>4 DEF Crash
  <2> QED
    BY <1>1, <1>2, <2>1 DEF HashInv, TableTypeOK, ChainsEnd, WalksInBucket
<1> QED
  BY <1>3, <1>4

-----------------------------------------------------------------------------
(***************************************************************************)
(* The theorem.                                                            *)
(***************************************************************************)
LEMMA HashNextInv == HashInv /\ [HashNext]_hashVars => HashInv'
<1> SUFFICES ASSUME HashInv, [HashNext]_hashVars PROVE HashInv'
  OBVIOUS
<1>1. ASSUME NEW t \in Thread, Run(t)
      PROVE  HashInv'
  <2>1. CASE GetBegin(t) \/ GetWalk(t) \/ GetReturn(t)
    BY <2>1, GetInv
  <2>2. CASE PutBegin(t)
    <3>1. PICK p \in Puts : Put(t, p[1], p[2])
      BY <2>2 DEF PutBegin
    <3>2. UNCHANGED memory
      BY <2>2 DEF PutBegin
    <3> QED
      BY <3>1, <3>2, EntryFacts, PutInv
  <2>3. CASE ReadLine(t)
    <3> DEFINE e == Entry(LineTo(db, offset'))
    <3>1. UNCHANGED memory
      BY <2>3 DEF ReadLine
    <3>2. CASE e = NoEntry
      <4>1. UNCHANGED <<pc, arg, cur>>
        BY <2>3, <3>2 DEF ReadLine, thread
      <4> QED
        BY <3>1, <4>1 DEF HashInv, TableTypeOK, ChainsEnd, WalksInBucket, memory
    <3>3. CASE e # NoEntry
      <4>1. Put(t, e.key, e.value)
        BY <2>3, <3>3 DEF ReadLine
      <4>2. e.key \in Key /\ e.value \in Stored
        BY <3>3, LineIsEntry
      <4> HIDE DEF e
      <4> QED
        BY <3>1, <4>1, <4>2, PutInv
    <3> QED
      BY <3>2, <3>3
  <2>4. CASE PutFirst(t) \/ PutWalk(t) \/ PutLink(t)
    BY <2>4, PutFirstInv, PutWalkInv, PutLinkInv
  <2>5. CASE DumpOpen(t) \/ DumpScan(t) \/ DumpClose(t)
    BY <2>5, DumpInv
  <2> QED
    BY <1>1, <2>1, <2>2, <2>3, <2>4, <2>5 DEF Run, Step
<1>2. CASE Started /\ Track
  <2>1. UNCHANGED <<head, next, node, pc, arg, cur>>
    BY <1>2 DEF Started, memory, thread
  <2> QED
    BY <2>1 DEF HashInv, TableTypeOK, ChainsEnd, WalksInBucket
<1>3. CASE Crash
  BY <1>3, EmptyTable
<1>4. CASE UNCHANGED hashVars
  <2>1. UNCHANGED <<head, next, node, pc, arg, cur>>
    BY <1>4 DEF hashVars, memory, thread
  <2> QED
    BY <2>1 DEF HashInv, TableTypeOK, ChainsEnd, WalksInBucket
<1> QED
  BY <1>1, <1>2, <1>3, <1>4 DEF HashNext

(* For every number of threads, keys, buckets and nodes, and whatever      *)
(* put()s, get()s, dump()s, crashes and starts overlap: each link of a     *)
(* chain leads to a later node of the same bucket.  Every walk comes to an *)
(* end, and no put() without a lock mixes two buckets or closes a ring.    *)
THEOREM ChainsAlwaysEnd == HashSpec => []ChainsEnd
<1>1. HashInit => HashInv
  BY EmptyTable
<1>2. HashInv => ChainsEnd
  BY DEF HashInv
<1> QED
  BY <1>1, <1>2, HashNextInv, PTL DEF HashSpec

=============================================================================
