----------------------- MODULE AfsHashDatabaseProofs -----------------------
(***************************************************************************)
(* What database.txt says of the hash table of AfsHash, for every number   *)
(* of threads, keys, buckets and nodes, and every text of keys and values. *)
(***************************************************************************)
EXTENDS AfsHashTableProofs

-----------------------------------------------------------------------------
(***************************************************************************)
(* Lines.  What dump() appends to a text that ends with a newline is read  *)
(* back as a line of its own, and as the entry that was printed.           *)
(***************************************************************************)
Char == Key \cup STRING \cup {Comma, Newline}

(* Every line of a text is ended, and none makes the reader fail.          *)
Whole(text) == text = <<>> \/ text[Len(text)] = Newline
Readable(text) == \A i \in Ends(text) : ~Faults(LineTo(text, i))

(* An entry as it is printed, without the newline.                         *)
Record(e) == <<e.key, Comma>> \o digits[e.value]

(* A text to which the line of an entry is printed.                        *)
WithLine(text, e) == text \o (Record(e) \o <<Newline>>)

(* The largest and the smallest element of a bounded set.                  *)
LEMMA MaxFacts ==
  ASSUME NEW M \in Nat, NEW T, T \subseteq 0..M, T # {}
  PROVE  Max(T) \in T /\ \A m \in T : m <= Max(T)
<1>1. PICK n \in T : \A m \in T : m <= n
  BY Largest
<1>2. \A m \in T : n >= m
  BY <1>1
<1>3. Max(T) \in T /\ \A m \in T : Max(T) >= m
  BY <1>2, Zenon DEF Max
<1> QED
  BY <1>3

LEMMA Smallest ==
  ASSUME NEW M \in Nat, NEW T, T \subseteq 0..M, T # {}
  PROVE  \E n \in T : \A m \in T : n <= m
<1> DEFINE U == {M - m : m \in T}
<1>1. U \subseteq 0..M /\ U # {}
  OBVIOUS
<1>2. PICK u \in U : \A w \in U : w <= u
  <2> HIDE DEF U
  <2> QED
    BY <1>1, Largest
<1>3. PICK n \in T : u = M - n
  BY <1>2
<1>4. \A m \in T : M - m <= M - n
  BY <1>2, <1>3
<1> QED
  BY <1>3, <1>4

LEMMA MinFacts ==
  ASSUME NEW M \in Nat, NEW T, T \subseteq 0..M, T # {}
  PROVE  Min(T) \in T /\ \A m \in T : Min(T) <= m
<1>1. PICK n \in T : \A m \in T : n =< m
  BY Smallest
<1>2. Min(T) \in T /\ \A m \in T : Min(T) =< m
  BY <1>1, Zenon DEF Min
<1> QED
  BY <1>2

(* The lines of a text end within it, the last one with it.                *)
LEMMA EndsFacts ==
  ASSUME NEW text \in Seq(Char)
  PROVE  /\ Len(text) \in Nat
         /\ Ends(text) \subseteq 1..Len(text)
         /\ Ends(text) = {i \in 1..Len(text) : text[i] = Newline \/ i = Len(text)}
         /\ text # <<>> => Len(text) \in Ends(text)
         /\ text = <<>> => Ends(text) = {}
<1>1. Len(text) \in Nat /\ DOMAIN text = 1..Len(text)
  BY LenProperties
<1>2. text # <<>> => Len(text) # 0
  BY EmptySeq
<1>3. text = <<>> => Len(text) = 0
  BY EmptySeq
<1> QED
  BY <1>1, <1>2, <1>3 DEF Ends

(* What is printed for an entry is one line, and is read as the entry.     *)
LEMMA RecordIsRead ==
  ASSUME NEW e \in [key : Key, value : Stored]
  PROVE  /\ Record(e) \in Seq(Char)
         /\ \A i \in 1..Len(Record(e)) : Record(e)[i] # Newline
         /\ ~Faults(Record(e))
         /\ Entry(Record(e)) = e
<1> DEFINE start == <<e.key, Comma>>
           d == digits[e.value]
           r == Record(e)
<1>1. /\ e.key \in Key /\ e.value \in Stored
      /\ e.key # Comma /\ e.key # Newline /\ Comma # Newline
      /\ e = [key |-> e.key, value |-> e.value]
  BY HashConstants DEF Comma, Newline
<1>2. Key \subseteq Char /\ Comma \in Char /\ STRING \subseteq Char
  BY DEF Char
<1>3. d \in Seq(Char) /\ d \in Seq(STRING)
  <2>1. d \in Seq(STRING)
    BY <1>1, HashConstants
  <2> QED
    BY <1>2, <2>1, SeqMonotonic
<1>4. start \in Seq(Char) /\ Len(start) = 2 /\ start[1] = e.key /\ start[2] = Comma
  BY <1>1, <1>2
<1>5. Len(d) \in Nat /\ \A i \in 1..Len(d) : d[i] # Comma /\ d[i] # Newline
  <2>1. Len(d) \in Nat /\ DOMAIN d = 1..Len(d)
    BY <1>3, LenProperties
  <2>2. Range(d) \cap {Comma, Newline} = {}
    BY <1>1, HashConstants
  <2> HIDE DEF d
  <2> QED
    BY <2>1, <2>2 DEF Range
<1> HIDE DEF d, start
<1>6. /\ r \in Seq(Char) /\ Len(r) = 2 + Len(d)
      /\ \A i \in 1..(2 + Len(d)) : r[i] = IF i <= 2 THEN start[i] ELSE d[i - 2]
  <2>1. r = start \o d
    BY DEF Record, start, d
  <2> HIDE DEF r
  <2>2. /\ start \o d \in Seq(Char) /\ Len(start \o d) = Len(start) + Len(d)
        /\ \A i \in 1..(Len(start) + Len(d)) :
             (start \o d)[i] = IF i <= Len(start) THEN start[i] ELSE d[i - Len(start)]
    BY <1>3, <1>4, ConcatProperties, Zenon
  <2>3. Len(start) = 2
    BY <1>4
  <2> QED
    BY <2>1, <2>2, <2>3
<1> HIDE DEF r
<1>7. /\ r[1] = e.key /\ r[2] = Comma
      /\ \A i \in 3..(2 + Len(d)) : r[i] = d[i - 2] /\ r[i] # Comma /\ r[i] # Newline
  BY <1>4, <1>5, <1>6
<1>8. \A i \in 1..Len(r) : r[i] # Newline
  BY <1>1, <1>5, <1>6, <1>7
<1>9. ~Faults(r)
  <2>1. DOMAIN r = 1..(2 + Len(d))
    BY <1>6, LenProperties
  <2>2. {i \in DOMAIN r : r[i] = Comma} = {2}
    BY <1>1, <1>5, <1>7, <2>1
  <2>3. Cardinality({2}) = 1
    BY FS_Singleton
  <2> QED
    BY <2>2, <2>3 DEF Faults
<1>10. Entry(r) = e
  <2>1. SubSeq(r, 3, Len(r)) = d
    <3>1. \A i \in 3..Len(r) : r[i] \in Char
      BY <1>5, <1>6, ElementOfSeq
    <3>2. /\ SubSeq(r, 3, Len(r)) \in Seq(Char)
          /\ Len(SubSeq(r, 3, Len(r))) = Len(d)
          /\ \A i \in 1..Len(d) : SubSeq(r, 3, Len(r))[i] = r[3 + i - 1]
      <4>1. 3 \in Int /\ Len(r) \in Int
        BY <1>5, <1>6
      <4> QED
        BY <1>5, <1>6, <3>1, <4>1, SubSeqProperties
    <3>3. \A i \in 1..Len(d) : SubSeq(r, 3, Len(r))[i] = d[i]
      BY <1>5, <1>7, <3>2
    <3> QED
      BY <1>3, <3>2, <3>3, SeqEqual
  <2>2. (CHOOSE v \in Stored : digits[v] = d) = e.value
    <3>1. \E v \in Stored : digits[v] = d
      BY <1>1 DEF d
    <3>2. \A v \in Stored : digits[v] = d => v = e.value
      BY <1>1, HashConstants DEF d
    <3> QED
      BY <3>1, <3>2
  <2>3. \E v \in Stored : digits[v] = d
    BY <1>1 DEF d
  <2>4. Len(r) >= 2
    BY <1>5, <1>6
  <2>5. Entry(r) = [key |-> r[1], value |-> CHOOSE v \in Stored : digits[v] = d]
    BY <1>1, <1>7, <2>1, <2>3, <2>4, Zenon DEF Entry
  <2> QED
    BY <1>1, <1>7, <2>2, <2>5
<1> QED
  BY <1>6, <1>8, <1>9, <1>10 DEF r

(* A line appended to a text that ends with one leaves the others.         *)
LEMMA LineAppended ==
  ASSUME NEW text \in Seq(Char), Whole(text),
         NEW r \in Seq(Char), \A i \in 1..Len(r) : r[i] # Newline,
         NEW longer, longer = text \o (r \o <<Newline>>)
  PROVE  /\ longer \in Seq(Char) /\ Whole(longer)
         /\ Ends(longer) = Ends(text) \cup {Len(longer)}
         /\ Len(longer) \notin Ends(text) /\ Len(longer) \in Nat
         /\ \A i \in Ends(text) : i < Len(longer) /\ LineTo(longer, i) = LineTo(text, i)
         /\ LineTo(longer, Len(longer)) = r
<1> DEFINE L == Len(text)
           R == Len(r)
           line == r \o <<Newline>>
           start(s, i) == 1 + Max({0} \cup {j \in Ends(s) : j < i})
<1>1. /\ L \in Nat /\ R \in Nat /\ DOMAIN text = 1..L /\ DOMAIN r = 1..R
      /\ \A i \in 1..L : text[i] \in Char
  BY LenProperties, ElementOfSeq
<1>2. /\ line \in Seq(Char) /\ Len(line) = R + 1
      /\ \A i \in 1..(R + 1) : line[i] = IF i <= R THEN r[i] ELSE Newline
  <2>1. /\ <<Newline>> \in Seq(Char) /\ Len(<<Newline>>) = 1
        /\ \A i \in 1..1 : <<Newline>>[i] = Newline
    BY DEF Char
  <2>2. /\ line \in Seq(Char) /\ Len(line) = R + Len(<<Newline>>)
        /\ \A i \in 1..(R + Len(<<Newline>>)) :
              line[i] = IF i <= R THEN r[i] ELSE <<Newline>>[i - R]
    BY <2>1, ConcatProperties, Zenon
  <2> HIDE DEF line
  <2> QED
    BY <1>1, <2>1, <2>2
<1>3. /\ longer \in Seq(Char) /\ Len(longer) = L + R + 1
      /\ DOMAIN longer = 1..(L + R + 1)
      /\ \A i \in 1..L : longer[i] = text[i]
      /\ \A i \in 1..R : longer[L + i] = r[i]
      /\ longer[L + R + 1] = Newline
  <2>1. /\ longer \in Seq(Char) /\ Len(longer) = L + Len(line)
        /\ \A i \in 1..(L + Len(line)) :
              longer[i] = IF i <= L THEN text[i] ELSE line[i - L]
    BY <1>2, ConcatProperties, Zenon
  <2> HIDE DEF line
  <2>2. DOMAIN longer = 1..(L + R + 1)
    BY <1>1, <1>2, <2>1, LenProperties
  <2> QED
    BY <1>1, <1>2, <2>1, <2>2
<1> HIDE DEF line
<1>4. Ends(longer) = Ends(text) \cup {Len(longer)}
  <2>1. Ends(longer) = {i \in 1..(L + R + 1) : longer[i] = Newline \/ i = L + R + 1}
    BY <1>3 DEF Ends
  <2>2. Ends(text) = {i \in 1..L : text[i] = Newline \/ i = L}
    BY EndsFacts, Zenon
  <2>3. ASSUME NEW i \in 1..L
        PROVE  longer[i] = Newline <=> text[i] = Newline \/ i = L
    <3>1. L # 0
      BY <1>1, <2>3
    <3>2. text[L] = Newline
      BY <3>1, EmptySeq DEF Whole
    <3>3. longer[i] = text[i]
      BY <1>3, <2>3
    <3> QED
      BY <3>2, <3>3, Zenon
  <2>4. ASSUME NEW i \in 1..(L + R + 1), i \notin 1..L, i # L + R + 1
        PROVE  longer[i] # Newline
    <3>1. i - L \in 1..R /\ i = L + (i - L)
      BY <1>1, <2>4
    <3> QED
      BY <1>3, <3>1
  <2> QED
    <3>1. \A i \in 1..L : i \in 1..(L + R + 1) /\ i # L + R + 1
      BY <1>1
    <3>2. L + R + 1 \in 1..(L + R + 1) /\ L + R + 1 \notin 1..L
      BY <1>1
    <3>3. \A i : i \in Ends(longer) <=> i \in Ends(text) \/ i = L + R + 1
      <4> HIDE DEF L, R
      <4> QED
        BY <2>1, <2>2, <2>3, <2>4, <3>1, <3>2
    <3> HIDE DEF L, R
    <3> QED
      BY <1>3, <3>3
<1>5. Whole(longer) /\ Len(longer) \in Nat
  BY <1>1, <1>3 DEF Whole
<1>6. Ends(text) \subseteq 1..L /\ (L # 0 => L \in Ends(text))
  BY <1>1, EndsFacts, EmptySeq
<1>7. ASSUME NEW i \in Ends(text)
      PROVE  i < Len(longer) /\ LineTo(longer, i) = LineTo(text, i)
  <2>1. i \in 1..L /\ longer[i] = text[i] /\ i < Len(longer)
    BY <1>1, <1>3, <1>6
  <2>2. {j \in Ends(longer) : j < i} = {j \in Ends(text) : j < i}
    BY <1>1, <1>3, <1>4, <2>1
  <2>3. start(longer, i) = start(text, i)
    BY <2>2
  <2>4. start(text, i) \in 1..L
    <3> DEFINE T == {0} \cup {j \in Ends(text) : j < i}
    <3>1. T \subseteq 0..(L - 1) /\ T # {} /\ L - 1 \in Nat
      BY <1>1, <1>6, <2>1
    <3>2. Max(T) \in 0..(L - 1)
      <4> HIDE DEF T
      <4> QED
        BY <3>1, MaxFacts
    <3> QED
      BY <1>1, <3>2
  <2>5. ASSUME NEW a \in 1..L, NEW b \in 0..L
        PROVE  SubSeq(longer, a, b) = SubSeq(text, a, b)
    <3>1. CASE b = 0
      <4>1. a \in Int /\ b \in Int /\ b < a
        BY <1>1, <3>1
      <4> QED
        BY <4>1, SubSeqEmpty
    <3>2. CASE b # 0
      <4>1. b \in 1..L
        BY <1>1, <3>2
      <4> QED
        BY <1>2, <4>1, SubSeqOfConcat1 DEF line
    <3> QED
      BY <3>1, <3>2
  <2>6. (IF text[i] = Newline THEN i - 1 ELSE i) \in 0..L
    BY <1>1, <2>1
  <2> HIDE DEF start
  <2>7. SubSeq(longer, start(text, i), IF text[i] = Newline THEN i - 1 ELSE i)
          = SubSeq(text, start(text, i), IF text[i] = Newline THEN i - 1 ELSE i)
    BY <2>4, <2>5, <2>6
  <2>8. /\ LineTo(longer, i) = SubSeq(longer, start(longer, i), IF longer[i] = Newline THEN i - 1 ELSE i)
        /\ LineTo(text, i) = SubSeq(text, start(text, i), IF text[i] = Newline THEN i - 1 ELSE i)
    BY Zenon DEF LineTo, start
  <2> QED
    BY <2>1, <2>3, <2>7, <2>8
<1>8. LineTo(longer, Len(longer)) = r
  <2> DEFINE T == {0} \cup {j \in Ends(longer) : j < L + R + 1}
  <2>1. T \subseteq 0..L /\ L \in T /\ T # {}
    BY <1>1, <1>3, <1>4, <1>6
  <2>2. Max(T) = L
    <3> HIDE DEF T
    <3>1. Max(T) \in T /\ \A m \in T : m <= Max(T)
      BY <1>1, <2>1, MaxFacts
    <3>2. Max(T) \in 0..L /\ L <= Max(T)
      BY <2>1, <3>1
    <3> QED
      BY <1>1, <3>2
  <2>3. LineTo(longer, L + R + 1) = SubSeq(longer, 1 + L, L + R)
    <3> DEFINE from == 1 + Max(T)
    <3>1. LineTo(longer, L + R + 1) =
            SubSeq(longer, from, IF longer[L + R + 1] = Newline THEN (L + R + 1) - 1 ELSE L + R + 1)
      BY DEF LineTo
    <3>2. from = 1 + L
      BY <2>2
    <3> HIDE DEF from
    <3> QED
      BY <1>1, <1>3, <3>1, <3>2
  <2>4. \A i \in (1 + L)..(L + R) : longer[i] \in Char
    BY <1>1, <1>3, ElementOfSeq
  <2>5. 1 + L \in Int /\ L + R \in Int
    BY <1>1
  <2>6. /\ SubSeq(longer, 1 + L, L + R) \in Seq(Char)
        /\ Len(SubSeq(longer, 1 + L, L + R)) =
              IF 1 + L <= L + R THEN (L + R) - (1 + L) + 1 ELSE 0
        /\ \A i \in 1..((L + R) - (1 + L) + 1) :
              SubSeq(longer, 1 + L, L + R)[i] = longer[(1 + L) + i - 1]
    BY <2>4, <2>5, SubSeqProperties
  <2>7. Len(SubSeq(longer, 1 + L, L + R)) = R
    BY <1>1, <2>6
  <2>8. \A i \in 1..R : SubSeq(longer, 1 + L, L + R)[i] = r[i]
    BY <1>1, <1>3, <2>6
  <2> QED
    BY <1>3, <2>3, <2>6, <2>7, <2>8, SeqEqual
<1>9. Len(longer) \notin Ends(text)
  BY <1>1, <1>3, <1>6
<1> QED
  BY <1>3, <1>4, <1>5, <1>7, <1>8, <1>9

(* So the reader finds the entry of an appended line, and for other keys   *)
(* what it found before.                                                   *)
LEMMA EntryAppended ==
  ASSUME NEW text \in Seq(Char), Whole(text), NEW e \in [key : Key, value : Stored],
         NEW longer, longer = WithLine(text, e)
  PROVE  /\ longer \in Seq(Char) /\ Whole(longer)
         /\ Readable(text) => Readable(longer)
         /\ \A k \in Key :
              LookupIn(longer, k) = IF k = e.key THEN e.value ELSE LookupIn(text, k)
<1> DEFINE r == Record(e)
           last == Len(longer)
           found(s, k) == {i \in Ends(s) : Entry(LineTo(s, i)).key = k}
<1>1. /\ r \in Seq(Char) /\ \A i \in 1..Len(r) : r[i] # Newline
      /\ ~Faults(r) /\ Entry(r) = e
  BY RecordIsRead
<1> HIDE DEF r
<1>2. longer = text \o (r \o <<Newline>>)
  BY DEF r, WithLine
<1>3. /\ longer \in Seq(Char) /\ Whole(longer)
      /\ Ends(longer) = Ends(text) \cup {last}
      /\ last \notin Ends(text) /\ last \in Nat
      /\ \A i \in Ends(text) : i < last /\ LineTo(longer, i) = LineTo(text, i)
      /\ LineTo(longer, last) = r
  BY <1>1, <1>2, LineAppended, Zenon
<1>4. Ends(text) \subseteq 1..Len(text) /\ Len(text) \in Nat
  BY EndsFacts
<1> HIDE DEF last
<1>5. Readable(text) => Readable(longer)
  BY <1>1, <1>3 DEF Readable
<1>6. ASSUME NEW k \in Key
      PROVE  LookupIn(longer, k) = IF k = e.key THEN e.value ELSE LookupIn(text, k)
  <2>1. /\ LookupIn(longer, k) = IF found(longer, k) = {} THEN NotFound
                                 ELSE Entry(LineTo(longer, Max(found(longer, k)))).value
        /\ LookupIn(text, k) = IF found(text, k) = {} THEN NotFound
                               ELSE Entry(LineTo(text, Max(found(text, k)))).value
    BY DEF LookupIn
  <2>2. found(longer, k) = IF k = e.key THEN found(text, k) \cup {last} ELSE found(text, k)
    BY <1>1, <1>3
  <2>3. found(text, k) \subseteq Ends(text)
    OBVIOUS
  <2>4. CASE k = e.key
    <3> DEFINE T == found(longer, k)
    <3>1. T \subseteq 0..last /\ last \in T /\ T # {}
      <4>1. T = found(text, k) \cup {last}
        BY <2>2, <2>4
      <4>2. \A i \in found(text, k) : i \in 0..last
        BY <1>3, <1>4, <2>3
      <4>3. last \in 0..last
        BY <1>3
      <4> HIDE DEF T, found
      <4> QED
        BY <4>1, <4>2, <4>3
    <3>2. Max(T) = last
      <4> HIDE DEF T
      <4>1. Max(T) \in T /\ \A m \in T : m <= Max(T)
        BY <1>3, <3>1, MaxFacts
      <4>2. Max(T) \in 0..last /\ last <= Max(T)
        BY <3>1, <4>1
      <4> QED
        BY <1>3, <4>2
    <3>3. LookupIn(longer, k) = Entry(LineTo(longer, Max(T))).value
      BY <2>1, <3>1
    <3> QED
      BY <1>1, <1>3, <2>4, <3>2, <3>3
  <2>5. CASE k # e.key
    <3> DEFINE T == found(text, k)
    <3>1. found(longer, k) = T /\ T \subseteq Ends(text) /\ T \subseteq 0..Len(text)
      BY <1>4, <2>2, <2>3, <2>5
    <3>2. T # {} => LineTo(longer, Max(T)) = LineTo(text, Max(T))
      <4> HIDE DEF T
      <4>1. T # {} => Max(T) \in T
        BY <1>4, <3>1, MaxFacts
      <4> QED
        BY <1>3, <3>1, <4>1
    <3> QED
      BY <2>1, <2>5, <3>1, <3>2
  <2> QED
    BY <2>4, <2>5
<1> QED
  BY <1>3, <1>5, <1>6

-----------------------------------------------------------------------------
(***************************************************************************)
(* Chains.                                                                 *)
(***************************************************************************)

(* FlattenSeq puts one piece after the other.                              *)
LEMMA FlattenUnfolds ==
  ASSUME NEW n \in Nat, NEW pieces, Len(pieces) = n
  PROVE  \E f : /\ n # 0 => FlattenSeq(pieces) = f[n]
                /\ \A i \in 1..n : f[i] = IF i = 1 THEN pieces[i] ELSE f[i - 1] \o pieces[i]
<1> DEFINE From(f, i) == IF i = 1 THEN pieces[i] ELSE f[i - 1] \o pieces[i]
           Follows(f) == f = [i \in 1..n |-> From(f, i)]
           Fails == {i \in 1..n : ~ \E f : /\ f = [m \in 1..n |-> f[m]]
                                          /\ \A m \in 1..i : f[m] = From(f, m)}
<1>1. ASSUME NEW i \in 1..n, NEW g, g = [m \in 1..n |-> g[m]],
             \A m \in 1..(i - 1) : g[m] = From(g, m)
      PROVE  i \notin Fails
  <2> DEFINE f == [m \in 1..n |-> IF m = i THEN From(g, i) ELSE g[m]]
  <2>1. ASSUME NEW m \in 1..i PROVE f[m] = From(f, m)
    <3>1. f[m] = From(g, m)
      <4>1. m \in 1..n /\ (m = i \/ m \in 1..(i - 1))
        OBVIOUS
      <4> HIDE DEF From
      <4> QED
        BY <1>1, <4>1
    <3>2. m # 1 => f[m - 1] = g[m - 1]
      OBVIOUS
    <3> HIDE DEF f
    <3> QED
      BY <3>1, <3>2
  <2>2. f = [m \in 1..n |-> f[m]]
    OBVIOUS
  <2> HIDE DEF f
  <2> QED
    BY <2>1, <2>2
<1>2. Fails = {}
  <2> SUFFICES ASSUME Fails # {} PROVE FALSE
    OBVIOUS
  <2>1. PICK i \in Fails : \A j \in Fails : i <= j
    <3>1. Fails \subseteq 0..n
      OBVIOUS
    <3> HIDE DEF Fails
    <3> QED
      BY <3>1, Smallest
  <2>2. CASE i = 1
    <3> DEFINE g == [m \in 1..n |-> <<>>]
    <3>1. g = [m \in 1..n |-> g[m]] /\ 1..(i - 1) = {}
      BY <2>2
    <3> QED
      BY <1>1, <2>1, <3>1
  <2>3. CASE i # 1
    <3>1. i - 1 \in 1..n /\ i - 1 \notin Fails
      BY <2>1, <2>3
    <3>2. PICK g : g = [m \in 1..n |-> g[m]] /\ \A m \in 1..(i - 1) : g[m] = From(g, m)
      BY <3>1
    <3> QED
      BY <1>1, <2>1, <3>2
  <2> QED
    BY <2>2, <2>3
<1>3. CASE n = 0
  BY <1>3
<1>4. CASE n # 0
  <2>1. \E f : Follows(f)
    <3>1. n \in 1..n /\ n \notin Fails
      BY <1>2, <1>4
    <3>2. PICK f : f = [m \in 1..n |-> f[m]] /\ \A m \in 1..n : f[m] = From(f, m)
      BY <3>1
    <3>3. f = [m \in 1..n |-> From(f, m)]
      <4> HIDE DEF From
      <4> QED
        BY <3>2
    <3> QED
      BY <3>3
  <2> DEFINE flatten == CHOOSE f : Follows(f)
  <2>2. FlattenSeq(pieces) = flatten[n]
    BY <1>4 DEF FlattenSeq
  <2>3. Follows(flatten)
    <3> HIDE DEF Follows
    <3> QED
      BY <2>1, Zenon
  <2> HIDE DEF flatten
  <2>4. \A i \in 1..n : flatten[i] = From(flatten, i)
    BY <2>3
  <2> QED
    BY <2>2, <2>4
<1> QED
  BY <1>3, <1>4

(* The nodes of a bucket's chain, one after the other.                     *)
LEMMA ChainFacts ==
  ASSUME TableInv, NEW c \in 1..Buckets
  PROVE  /\ Chain(c) \in Seq(1..Len(node))
         /\ \A i \in 1..Len(Chain(c)) :
              /\ node[Chain(c)[i]] \in [key : Key, value : Stored]
              /\ bucket[node[Chain(c)[i]].key] = c
              /\ Lookup(node[Chain(c)[i]].key) = node[Chain(c)[i]].value
         /\ \A k \in Key :
              bucket[k] = c /\ (\A i \in 1..Len(Chain(c)) : node[Chain(c)[i]].key # k)
                => Lookup(k) = NotFound
<1> DEFINE chain == Chain(c)
           R == Reached[head[c]]
<1>1. head[c] \in 0..Len(node) /\ ToSet(chain) = R
  BY ChainOfBucket DEF TableInv
<1>2. chain \in Seq(1..Len(node))
  BY <1>1, ChainIsSeq DEF TableInv, Chain
<1>3. DOMAIN chain = 1..Len(chain)
  BY <1>2, LenProperties
<1>4. /\ \A i \in 1..Len(chain) : chain[i] \in R
      /\ \A m \in R : \E i \in 1..Len(chain) : chain[i] = m
  BY <1>1, <1>3 DEF ToSet
<1>5. \A m \in R : m \in 1..Len(node) /\ bucket[node[m].key] = c
  BY ChainOfBucket DEF TableInv
<1>6. \A m \in 1..Len(node) : node[m] \in [key : Key, value : Stored]
  <2>1. \A m \in 1..Len(node) : node[m] \in Entries /\ node[m].value \in Stored
    BY ElementOfSeq DEF TableInv, HashInv, TableTypeOK, ValuesInv
  <2> QED
    BY <2>1 DEF Entries
<1>7. \A k \in Key : Found(k)
  BY FoundNow
<1> HIDE DEF chain
<1>8. ASSUME NEW i \in 1..Len(chain)
      PROVE  /\ node[chain[i]] \in [key : Key, value : Stored]
             /\ bucket[node[chain[i]].key] = c
             /\ Lookup(node[chain[i]].key) = node[chain[i]].value
  <2>1. /\ chain[i] \in R /\ chain[i] \in 1..Len(node)
        /\ bucket[node[chain[i]].key] = c
        /\ node[chain[i]].key \in Key /\ node[chain[i]] \in [key : Key, value : Stored]
    BY <1>4, <1>5, <1>6
  <2> QED
    BY <1>7, <2>1 DEF Found
<1>9. ASSUME NEW k \in Key, bucket[k] = c, \A i \in 1..Len(chain) : node[chain[i]].key # k
      PROVE  Lookup(k) = NotFound
  <2>1. \A m \in R : node[m].key # k
    BY <1>4, <1>9
  <2> QED
    BY <1>7, <1>9, <2>1 DEF Found
<1> QED
  BY <1>2, <1>8, <1>9 DEF chain

(* The text of a chain is read as what its bucket holds.                   *)
LEMMA ChainIsRead ==
  ASSUME TableInv, NEW c \in 1..Buckets,
         NEW text \in Seq(Char), Whole(text), Readable(text)
  PROVE  /\ Text(Chain(c)) \in Seq(Char)
         /\ text \o Text(Chain(c)) \in Seq(Char)
         /\ Whole(text \o Text(Chain(c))) /\ Readable(text \o Text(Chain(c)))
         /\ \A k \in Key : LookupIn(text \o Text(Chain(c)), k) =
              IF bucket[k] = c /\ Lookup(k) # NotFound THEN Lookup(k) ELSE LookupIn(text, k)
<1> DEFINE chain == Chain(c)
           n == Len(chain)
           pieces == [i \in DOMAIN chain |-> Line(chain[i])]
<1>1. /\ n \in Nat /\ DOMAIN chain = 1..n
      /\ \A i \in 1..n : /\ node[chain[i]] \in [key : Key, value : Stored]
                          /\ bucket[node[chain[i]].key] = c
                          /\ Lookup(node[chain[i]].key) = node[chain[i]].value
      /\ \A k \in Key : bucket[k] = c /\ (\A i \in 1..n : node[chain[i]].key # k)
                          => Lookup(k) = NotFound
  BY ChainFacts, LenProperties
<1>2. Text(chain) = FlattenSeq(pieces)
  BY DEF Text
<1> HIDE DEF chain, n
<1>3. /\ Len(pieces) = n /\ (n = 0 => pieces = <<>>)
      /\ \A i \in 1..n : pieces[i] = Record(node[chain[i]]) \o <<Newline>>
  <2>1. \A i \in 1..n : pieces[i] = Record(node[chain[i]]) \o <<Newline>>
    BY <1>1, Zenon DEF Line, Record
  <2>2. pieces = [i \in 1..n |-> Line(chain[i])]
    BY <1>1
  <2> HIDE DEF pieces
  <2>3. Len(pieces) = n /\ (n = 0 => pieces = <<>>)
    BY <1>1, <2>2
  <2> QED
    BY <2>1, <2>3
<1> HIDE DEF pieces
<1>4. PICK f : /\ n # 0 => FlattenSeq(pieces) = f[n]
               /\ \A i \in 1..n : f[i] = IF i = 1 THEN pieces[i] ELSE f[i - 1] \o pieces[i]
  <2>1. n \in Nat /\ Len(pieces) = n
    BY <1>1, <1>3
  <2> QED
    BY <2>1, FlattenUnfolds
<1> DEFINE g(i) == IF i = 0 THEN <<>> ELSE f[i]
           Hit(i, k) == \E j \in 1..i : node[chain[j]].key = k
           Good(i) == /\ g(i) \in Seq(Char) /\ text \o g(i) \in Seq(Char)
                      /\ Whole(text \o g(i)) /\ Readable(text \o g(i))
                      /\ \A k \in Key : LookupIn(text \o g(i), k) =
                            IF Hit(i, k) THEN Lookup(k) ELSE LookupIn(text, k)
           Fails == {i \in 0..n : ~Good(i)}
<1>5. Good(0)
  <2>1. text \o <<>> = text /\ <<>> \in Seq(Char)
    BY ConcatEmptySeq, EmptySeq
  <2> QED
    BY <2>1
<1>6. ASSUME NEW i \in 1..n, Good(i - 1)
      PROVE  Good(i)
  <2> DEFINE e == node[chain[i]]
             before == text \o g(i - 1)
             after == text \o g(i)
             line == Record(e) \o <<Newline>>
  <2>1. e \in [key : Key, value : Stored] /\ Lookup(e.key) = e.value
    BY <1>1
  <2>2. line \in Seq(Char)
    <3>1. Record(e) \in Seq(Char)
      BY <2>1, RecordIsRead
    <3>2. <<Newline>> \in Seq(Char)
      BY DEF Char
    <3> HIDE DEF e
    <3> QED
      BY <3>1, <3>2, ConcatProperties
  <2>3. pieces[i] = line /\ i # 0 /\ (i # 1 => i - 1 # 0)
    <3>1. i # 0 /\ (i # 1 => i - 1 # 0)
      BY <1>1
    <3>2. pieces[i] = line
      BY <1>3, Zenon
    <3> QED
      BY <3>1, <3>2
  <2>4. g(i) = g(i - 1) \o line
    <3>1. CASE i = 1
      BY <1>4, <2>2, <2>3, <3>1, ConcatEmptySeq
    <3>2. CASE i # 1
      <4>1. g(i) = f[i] /\ g(i - 1) = f[i - 1]
        BY <2>3, <3>2
      <4>2. f[i] = f[i - 1] \o pieces[i]
        BY <1>4, <3>2
      <4> HIDE DEF g, line
      <4> QED
        BY <2>3, <4>1, <4>2
    <3> QED
      BY <3>1, <3>2
  <2>5. g(i - 1) \in Seq(Char) /\ before \in Seq(Char) /\ Whole(before) /\ Readable(before)
    BY <1>6
  <2>6. \A k \in Key : LookupIn(before, k) = IF Hit(i - 1, k) THEN Lookup(k) ELSE LookupIn(text, k)
    BY <1>6
  <2> HIDE DEF g, line
  <2>7. g(i) \in Seq(Char) /\ after = before \o line
    <3>1. g(i) \in Seq(Char)
      BY <2>2, <2>4, <2>5, ConcatProperties
    <3>2. text \o (g(i - 1) \o line) = (text \o g(i - 1)) \o line
      BY <2>2, <2>5, ConcatAssociative
    <3> QED
      BY <2>4, <3>1, <3>2
  <2> HIDE DEF before, after, e
  <2>8. /\ after \in Seq(Char) /\ Whole(after) /\ Readable(after)
        /\ \A k \in Key : LookupIn(after, k) = IF k = e.key THEN e.value ELSE LookupIn(before, k)
    <3>1. after = WithLine(before, e)
      BY <2>7 DEF line, WithLine
    <3>2. /\ before \in Seq(Char) /\ Whole(before) /\ Readable(before)
          /\ e \in [key : Key, value : Stored]
      BY <2>1, <2>5
    <3> QED
      BY <3>1, <3>2, EntryAppended
  <2>9. \A k : Hit(i, k) <=> Hit(i - 1, k) \/ k = e.key
    <3>1. 1..i = 1..(i - 1) \cup {i}
      BY <1>1
    <3>2. e = node[chain[i]]
      BY DEF e
    <3> QED
      BY <3>1, <3>2
  <2>10. \A k \in Key : LookupIn(after, k) = IF Hit(i, k) THEN Lookup(k) ELSE LookupIn(text, k)
    <3> HIDE DEF Hit
    <3> QED
      BY <2>1, <2>6, <2>8, <2>9
  <2> QED
    BY <2>7, <2>8, <2>10 DEF after
<1>7. Good(n)
  <2> SUFFICES ASSUME Fails # {} PROVE FALSE
    BY <1>1
  <2>1. PICK i \in Fails : \A j \in Fails : i <= j
    <3>1. Fails \subseteq 0..n
      OBVIOUS
    <3> HIDE DEF Fails
    <3> QED
      BY <1>1, <3>1, Smallest
  <2>2. i \in 0..n /\ ~Good(i) /\ \A j \in 0..n : ~Good(j) => i <= j
    BY <2>1
  <2> HIDE DEF Good, Fails
  <2>3. i \in 1..n
    BY <1>1, <1>5, <2>2
  <2>4. i - 1 \in 0..n /\ ~(i <= i - 1)
    BY <1>1, <2>3
  <2> QED
    BY <1>6, <2>2, <2>3, <2>4
<1>8. g(n) = Text(chain)
  <2>1. CASE n = 0
    <3>1. FlattenSeq(pieces) = pieces
      BY <1>3, <2>1 DEF FlattenSeq
    <3> QED
      BY <1>2, <1>3, <2>1, <3>1
  <2>2. CASE n # 0
    BY <1>2, <1>4, <2>2
  <2> QED
    BY <2>1, <2>2
<1>9. ASSUME NEW k \in Key
      PROVE  Hit(n, k) <=> bucket[k] = c /\ Lookup(k) # NotFound
  <2>1. Hit(n, k) => bucket[k] = c /\ Lookup(k) # NotFound
    <3>1. NotFound \notin Stored
      BY HashConstants
    <3> QED
      BY <1>1, <3>1
  <2>2. ~Hit(n, k) /\ bucket[k] = c => Lookup(k) = NotFound
    BY <1>1
  <2> QED
    BY <2>1, <2>2
<1> HIDE DEF g, Hit
<1> QED
  BY <1>7, <1>8, <1>9 DEF chain

(* A text whose lines are those of the buckets before c.                   *)
Restores(text, c) ==
  /\ text \in Seq(Char) /\ Whole(text) /\ Readable(text)
  /\ \A k \in Key : LookupIn(text, k) = IF bucket[k] < c THEN Lookup(k) ELSE NotFound

(* dump() prints one more bucket.                                          *)
LEMMA ChainPrinted ==
  ASSUME TableInv, NEW c \in 1..Buckets, NEW text, Restores(text, c)
  PROVE  Restores(text \o Text(Chain(c)), c + 1)
<1> DEFINE after == text \o Text(Chain(c))
<1>1. /\ after \in Seq(Char) /\ Whole(after) /\ Readable(after)
      /\ \A k \in Key : LookupIn(after, k) =
           IF bucket[k] = c /\ Lookup(k) # NotFound THEN Lookup(k) ELSE LookupIn(text, k)
  BY ChainIsRead DEF Restores
<1> HIDE DEF after
<1>2. \A k \in Key : bucket[k] \in 1..Buckets
  BY EntryFacts
<1>3. \A k \in Key : LookupIn(after, k) = IF bucket[k] < c + 1 THEN Lookup(k) ELSE NotFound
  BY <1>1, <1>2, HashConstants DEF Restores
<1> QED
  BY <1>1, <1>3 DEF Restores, after

(* An empty text restores no bucket.                                       *)
LEMMA NothingPrinted ==
  /\ <<>> \in Seq(Char) /\ Whole(<<>>) /\ Readable(<<>>)
  /\ \A k \in Key : LookupIn(<<>>, k) = NotFound
  /\ Restores(<<>>, 1)
<1>1. <<>> \in Seq(Char) /\ Ends(<<>>) = {}
  <2>1. <<>> \in Seq(Char)
    OBVIOUS
  <2> QED
    BY <2>1, EndsFacts
<1>2. /\ Whole(<<>>) /\ Readable(<<>>)
      /\ \A k \in Key : LookupIn(<<>>, k) = NotFound
  BY <1>1 DEF Whole, Readable, LookupIn
<1>3. \A k \in Key : ~(bucket[k] < 1)
  BY EntryFacts, HashConstants
<1> QED
  BY <1>1, <1>2, <1>3 DEF Restores

-----------------------------------------------------------------------------
(***************************************************************************)
(* The invariant.                                                          *)
(***************************************************************************)
TextsOK == db \in Seq(Char) /\ out \in [Thread -> Seq(Char)]

(* Only a dump() has printed something; it goes through the buckets.       *)
DumpsOK ==
  /\ IsFiniteSet(Dumping)
  /\ \A t \in Thread :
       /\ pc[t] \notin DumpSteps => out[t] = <<>>
       /\ pc[t] = "dump_scan" => cur[t] \in 1..Buckets
       /\ pc[t] = "dump_close" => cur[t] = Buckets + 1

(* A put() that has been done, and whose dump() has not begun.             *)
Pending == \E t \in Thread : pc[t] = "dump_open"

DatabaseRestores == Readable(db) /\ \A k \in Key : LookupIn(db, k) = Lookup(k)

(* While the client runs and dump()s do not overlap: the text of the one   *)
(* that runs restores the buckets it has walked, and if none runs, the     *)
(* database restores the table, unless another dump() is still to come.    *)
RunningOK ==
  up /\ ~tangled =>
    /\ \A t, u \in Dumping : t = u
    /\ \A t \in Dumping : db = <<>> /\ (Pending \/ Restores(out[t], cur[t]))
    /\ Dumping = {} => Pending \/ DatabaseRestores

(* What the lines that have been read give a key.                          *)
ReadSoFar(k) ==
  LET found == {i \in Ends(db) : i <= offset /\ Entry(LineTo(db, i)).key = k}
  IN IF found = {} THEN NotFound ELSE Entry(LineTo(db, Max(found))).value

(* While it starts, one thread puts line after line, and the table is what *)
(* has been read, up to the put() under way.                               *)
Putting == {t \in Thread : pc[t] # "idle"}

StartingOK ==
  ~up =>
    /\ contended = {} /\ ~tangled
    /\ offset \in {0} \cup Ends(db)
    /\ \A i \in Ends(db) : i <= offset => ~Faults(LineTo(db, i))
    /\ \A t, u \in Putting : t = u
    /\ \A t \in Putting : pc[t] \in PutSteps /\ ReadSoFar(arg[t].key) = arg[t].value
    /\ \A k \in Key : (\A t \in Putting : arg[t].key # k) => ReadSoFar(k) = Lookup(k)

DatabaseInv == TextsOK /\ DumpsOK /\ RunningOK /\ StartingOK

-----------------------------------------------------------------------------
(***************************************************************************)
(* Steps.                                                                  *)
(***************************************************************************)

(* A step within a get(), or within a put() and not its last.              *)
Quiet(t) ==
  /\ UNCHANGED <<memory, db, up, offset, out>>
  /\ pc[t] \notin DumpSteps \cup {"dump_open"}
  /\ pc'[t] \notin DumpSteps \cup {"dump_open"}
  /\ pc[t] = "idle" => up
  /\ pc[t] \in PutSteps => pc'[t] \in PutSteps /\ arg'[t] = arg[t]

(* The step of a put() that changes the table.                             *)
PutDone(t) ==
  /\ UNCHANGED <<db, up, offset, out>>
  /\ pc[t] \in PutSteps /\ (Updates(t) \/ Inserts(t))
  /\ pc'[t] = IF up THEN "dump_open" ELSE "idle"

(* Every step of a thread is one of these.                                 *)
LEMMA RunKinds ==
  ASSUME HashInv, NEW t \in Thread, Run(t)
  PROVE  \/ Quiet(t) \/ PutDone(t) \/ ReadLine(t)
         \/ DumpOpen(t) \/ DumpScan(t) \/ DumpClose(t)
<1>1. /\ pc \in [Thread -> PC]
      /\ \A q, n : Goto(t, q, n) => pc'[t] = q
  BY DEF HashInv, TableTypeOK, Goto
<1>2. CASE GetBegin(t) \/ GetWalk(t) \/ GetReturn(t)
  <2>1. UNCHANGED <<memory, db, up, offset, out>>
    BY <1>2 DEF GetBegin, GetWalk, GetReturn
  <2>2. \E q \in {"got", "get_walk", "idle"} : \E n : Goto(t, q, n)
    BY <1>2, Zenon DEF GetBegin, GetWalk, GetReturn
  <2>3. pc[t] \in {"idle", "get_walk", "got"} /\ (pc[t] = "idle" => up)
    <3>1. pc[t] = "idle" => GetBegin(t)
      BY <1>2 DEF GetWalk, GetReturn
    <3> QED
      BY <1>2, <3>1 DEF GetBegin, GetWalk, GetReturn
  <2> QED
    BY <1>1, <2>1, <2>2, <2>3 DEF Quiet, DumpSteps, PutSteps
<1>3. CASE PutBegin(t)
  <2>1. \E p \in Puts : Put(t, p[1], p[2])
    BY <1>3 DEF PutBegin
  <2>2. \E q \in {"put_first", "put_walk"} : \E n : Goto(t, q, n)
    BY <2>1, Zenon DEF Put
  <2> QED
    BY <1>1, <1>3, <2>2 DEF PutBegin, Quiet, DumpSteps, PutSteps
<1>4. ASSUME AfterPut(t)
      PROVE  pc'[t] = IF up THEN "dump_open" ELSE "idle"
  BY <1>1, <1>4 DEF AfterPut
<1>5. CASE PutFirst(t) \/ PutLink(t)
  <2>1. UNCHANGED <<db, up, offset, out>> /\ pc[t] \in {"put_first", "put_link"} /\ AfterPut(t)
    BY <1>5 DEF PutFirst, PutLink
  <2>2. Inserts(t)
    BY <2>1, StepKinds DEF Begins, Passes, Finds, Updates, Leaves, PutSteps
  <2> QED
    BY <1>4, <2>1, <2>2 DEF PutDone, PutSteps
<1>6. CASE PutWalk(t)
  <2>1. UNCHANGED <<db, up, offset, out>> /\ pc[t] = "put_walk"
    BY <1>6 DEF PutWalk
  <2>2. Passes(t) \/ Updates(t)
    BY <2>1, StepKinds DEF Begins, Finds, Inserts, Leaves, PutSteps
  <2>3. CASE Passes(t)
    BY <2>1, <2>3 DEF Passes, Quiet, DumpSteps, PutSteps
  <2>4. CASE Updates(t)
    <3>1. AfterPut(t)
      BY <1>6, <2>4 DEF PutWalk, Updates
    <3> QED
      BY <1>4, <2>1, <2>4, <3>1 DEF PutDone, PutSteps
  <2> QED
    BY <2>2, <2>3, <2>4
<1> QED
  BY <1>2, <1>3, <1>5, <1>6 DEF Run, Step

(* What the table has does not change with where threads are.              *)
LEMMA SameTable ==
  ASSUME UNCHANGED memory
  PROVE  \A k : Lookup(k)' = Lookup(k)
BY DEF memory, Lookup, Chain, ChainFrom

(* If dump()s do not overlap after a step, one runs at most; and if they   *)
(* did before, the step begins a dump().                                   *)
LEMMA NotTangled ==
  ASSUME IsFiniteSet(Dumping'), Track, ~tangled', tangled \in BOOLEAN
  PROVE  /\ \A t, u \in Dumping' : t = u
         /\ tangled => Dumping = {} /\ Dumping' # {}
<1> DEFINE D == Dumping'
           A == Cardinality(D) > 1
           B == tangled /\ (Dumping # {} \/ D = {})
<1>1. ~A /\ ~B
  <2>1. tangled' = (A \/ B)
    BY DEF Track
  <2> HIDE DEF A, B
  <2> QED
    BY <2>1, Zenon
<1>2. ASSUME NEW t \in D, NEW u \in D, t # u PROVE FALSE
  <2>1. IsFiniteSet(D) /\ {t, u} \subseteq D
    BY <1>2 DEF D
  <2>2. Cardinality({t, u}) = 2
    <3>1. IsFiniteSet({t}) /\ Cardinality({t}) = 1
      BY FS_Singleton
    <3>2. Cardinality({t} \cup {u}) = Cardinality({t}) + 1
      BY <1>2, <3>1, FS_AddElement
    <3>3. {t} \cup {u} = {t, u}
      OBVIOUS
    <3> QED
      BY <3>1, <3>2, <3>3
  <2>3. Cardinality({t, u}) <= Cardinality(D) /\ Cardinality(D) \in Nat
    BY <2>1, FS_Subset, FS_CardinalityType
  <2> QED
    BY <1>1, <2>2, <2>3
<1>3. tangled => Dumping = {} /\ D # {}
  BY <1>1
<1> QED
  BY <1>2, <1>3 DEF D

(* A line that is read is put by a thread that does nothing else.          *)
LEMMA ReadLineMoves ==
  ASSUME HashInv, NEW t \in Thread, ReadLine(t)
  PROVE  /\ ~up /\ UNCHANGED <<memory, db, up, out>>
         /\ pc = All("idle") /\ pc'[t] \in {"idle", "put_first", "put_walk"}
<1>1. pc \in [Thread -> PC] /\ \A q, n : Goto(t, q, n) => pc'[t] = q
  BY DEF HashInv, TableTypeOK, Goto
<1>2. ~up /\ UNCHANGED <<memory, db, up>> /\ pc = All("idle") /\ pc[t] = "idle"
  BY DEF ReadLine, All
<1>3. UNCHANGED thread \/ (UNCHANGED out /\ \E k, v : Put(t, k, v))
  BY DEF ReadLine
<1>4. CASE UNCHANGED thread
  BY <1>2, <1>4 DEF thread
<1>5. CASE UNCHANGED out /\ \E k, v : Put(t, k, v)
  <2>1. \E q \in {"put_first", "put_walk"} : \E n : Goto(t, q, n)
    BY <1>5, Zenon DEF Put
  <2> QED
    BY <1>1, <1>2, <1>5, <2>1
<1> QED
  BY <1>3, <1>4, <1>5

(* What dump() does.                                                       *)
LEMMA DumpMoves ==
  ASSUME HashInv, TextsOK, DumpsOK, NEW t \in Thread
  PROVE  /\ DumpOpen(t) =>
              /\ UNCHANGED <<memory, up, out>> /\ db' = <<>>
              /\ pc[t] = "dump_open" /\ pc'[t] = "dump_scan" /\ cur'[t] = 1
         /\ DumpScan(t) =>
              /\ UNCHANGED <<memory, db, up>>
              /\ out' = [out EXCEPT ![t] = out[t] \o Text(Chain(cur[t]))]
              /\ pc[t] = "dump_scan" /\ cur[t] \in 1..Buckets /\ cur'[t] = cur[t] + 1
              /\ pc'[t] = IF cur[t] = Buckets THEN "dump_close" ELSE "dump_scan"
         /\ DumpClose(t) =>
              /\ UNCHANGED <<memory, up>> /\ db' = Overwrite(db, out[t])
              /\ out' = [out EXCEPT ![t] = <<>>]
              /\ pc[t] = "dump_close" /\ cur[t] = Buckets + 1 /\ pc'[t] = "idle"
<1>1. /\ pc \in [Thread -> PC] /\ cur \in [Thread -> Nat] /\ out \in [Thread -> Seq(Char)]
      /\ \A q, n : Goto(t, q, n) => pc'[t] = q /\ cur'[t] = n
  BY DEF HashInv, TableTypeOK, TextsOK, Goto
<1>2. CASE DumpOpen(t)
  <2>1. Goto(t, "dump_scan", 1)
    BY <1>2 DEF DumpOpen
  <2> QED
    BY <1>1, <1>2, <2>1 DEF DumpOpen, DumpScan, DumpClose
<1>3. CASE DumpScan(t)
  <2>1. Goto(t, IF cur[t] = Buckets THEN "dump_close" ELSE "dump_scan", cur[t] + 1)
    BY <1>3 DEF DumpScan
  <2>2. pc[t] = "dump_scan" /\ cur[t] \in 1..Buckets
    BY <1>3 DEF DumpScan, DumpsOK
  <2> QED
    BY <1>1, <1>3, <2>1, <2>2 DEF DumpOpen, DumpScan, DumpClose
<1>4. CASE DumpClose(t)
  <2>1. Goto(t, "idle", Null)
    BY <1>4 DEF DumpClose
  <2>2. pc[t] = "dump_close" /\ cur[t] = Buckets + 1
    BY <1>4 DEF DumpClose, DumpsOK
  <2> QED
    BY <1>1, <1>4, <2>1, <2>2 DEF DumpOpen, DumpScan, DumpClose
<1> QED
  BY <1>2, <1>3, <1>4

(* What is written over a file is characters, too, and a text that is      *)
(* written to an empty file is all there is in it.                         *)
LEMMA OverwriteFacts ==
  ASSUME NEW file \in Seq(Char), NEW text \in Seq(Char)
  PROVE  /\ Overwrite(file, text) \in Seq(Char)
         /\ file = <<>> => Overwrite(file, text) = text
<1> DEFINE from == Len(text) + 1
           rest == SubSeq(file, from, Len(file))
<1>1. Len(text) \in Nat /\ Len(file) \in Nat /\ from \in Int /\ Len(file) \in Int /\ 1 <= from
  BY LenProperties
<1>2. \A i \in from..Len(file) : file[i] \in Char
  BY <1>1, ElementOfSeq
<1>3. rest \in Seq(Char)
  <2> HIDE DEF from
  <2> QED
    BY <1>1, <1>2, SubSeqProperties
<1>4. file = <<>> => rest = <<>>
  <2>1. file = <<>> => Len(file) < from
    BY <1>1
  <2> HIDE DEF from
  <2> QED
    BY <1>1, <2>1, SubSeqEmpty
<1>5. Overwrite(file, text) = text \o rest
  BY DEF Overwrite
<1> HIDE DEF rest
<1> QED
  BY <1>3, <1>4, <1>5, ConcatProperties, ConcatEmptySeq


(* The texts stay texts, and the dump()s in order.                         *)
LEMMA TextsKept ==
  ASSUME TableInv, TextsOK, DumpsOK, NEW t \in Thread, Run(t)
  PROVE  TextsOK'
<1>1. HashInv /\ db \in Seq(Char) /\ out \in [Thread -> Seq(Char)]
  BY DEF TableInv, TextsOK
<1>2. CASE Quiet(t) \/ PutDone(t) \/ ReadLine(t)
  <2>1. UNCHANGED <<db, out>>
    BY <1>1, <1>2, ReadLineMoves DEF Quiet, PutDone
  <2> QED
    BY <1>1, <2>1 DEF TextsOK
<1>3. CASE DumpOpen(t)
  <2>1. UNCHANGED out /\ db' = <<>>
    BY <1>1, <1>3, DumpMoves
  <2> QED
    BY <1>1, <2>1, NothingPrinted DEF TextsOK
<1>4. CASE DumpScan(t)
  <2> DEFINE text == out[t] \o Text(Chain(cur[t]))
  <2>1. UNCHANGED db /\ out' = [out EXCEPT ![t] = text] /\ cur[t] \in 1..Buckets
    BY <1>1, <1>4, DumpMoves
  <2>2. Text(Chain(cur[t])) \in Seq(Char) /\ out[t] \in Seq(Char)
    BY <1>1, <2>1, NothingPrinted, ChainIsRead
  <2>3. text \in Seq(Char)
    BY <2>2, ConcatProperties
  <2> HIDE DEF text
  <2> QED
    BY <1>1, <2>1, <2>3 DEF TextsOK
<1>5. CASE DumpClose(t)
  <2>1. db' = Overwrite(db, out[t]) /\ out' = [out EXCEPT ![t] = <<>>]
    BY <1>1, <1>5, DumpMoves
  <2>2. db' \in Seq(Char)
    BY <1>1, <2>1, OverwriteFacts
  <2> QED
    BY <1>1, <2>1, <2>2, NothingPrinted DEF TextsOK
<1> QED
  BY <1>1, <1>2, <1>3, <1>4, <1>5, RunKinds

LEMMA DumpsKept ==
  ASSUME TableInv, TextsOK, DumpsOK, NEW t \in Thread, Run(t)
  PROVE  DumpsOK'
<1>1. /\ HashInv /\ out \in [Thread -> Seq(Char)]
      /\ \A u \in Thread \ {t} : pc'[u] = pc[u] /\ cur'[u] = cur[u]
      /\ Buckets \in Nat
  BY StepKinds, HashConstants DEF TableInv, TextsOK
<1>2. IsFiniteSet(Dumping')
  <2>1. Dumping' \subseteq Dumping \cup {t}
    BY <1>1 DEF Dumping
  <2>2. IsFiniteSet(Dumping \cup {t})
    BY FS_AddElement DEF DumpsOK
  <2> QED
    BY <2>1, <2>2, FS_Subset
<1>3. ASSUME \A u \in Thread \ {t} : out'[u] = out[u],
             pc'[t] \notin DumpSteps => out'[t] = <<>>,
             pc'[t] = "dump_scan" => cur'[t] \in 1..Buckets,
             pc'[t] = "dump_close" => cur'[t] = Buckets + 1
      PROVE  DumpsOK'
  BY <1>1, <1>2, <1>3 DEF DumpsOK
<1>4. CASE Quiet(t) \/ PutDone(t) \/ ReadLine(t)
  <2>1. out' = out /\ pc[t] \notin DumpSteps /\ pc'[t] \notin DumpSteps
    BY <1>1, <1>4, ReadLineMoves DEF Quiet, PutDone, PutSteps, DumpSteps, All
  <2> QED
    BY <1>3, <2>1 DEF DumpsOK, DumpSteps
<1>5. CASE DumpOpen(t)
  <2>1. out' = out /\ pc'[t] = "dump_scan" /\ cur'[t] = 1
    BY <1>1, <1>5, DumpMoves
  <2> QED
    BY <1>3, <2>1, HashConstants DEF DumpSteps
<1>6. CASE DumpScan(t)
  <2> DEFINE text == out[t] \o Text(Chain(cur[t]))
  <2>1. /\ out' = [out EXCEPT ![t] = text]
        /\ cur[t] \in 1..Buckets /\ cur'[t] = cur[t] + 1
        /\ pc'[t] = IF cur[t] = Buckets THEN "dump_close" ELSE "dump_scan"
    BY <1>1, <1>6, DumpMoves
  <2> HIDE DEF text
  <2>2. \A u \in Thread \ {t} : out'[u] = out[u]
    BY <1>1, <2>1
  <2>3. pc'[t] = "dump_scan" => cur'[t] \in 1..Buckets
    BY <1>1, <2>1
  <2>4. pc'[t] = "dump_close" => cur'[t] = Buckets + 1
    BY <2>1
  <2>5. pc'[t] \in DumpSteps
    BY <2>1 DEF DumpSteps
  <2> QED
    BY <1>3, <2>2, <2>3, <2>4, <2>5
<1>7. CASE DumpClose(t)
  <2>1. out' = [out EXCEPT ![t] = <<>>] /\ pc'[t] = "idle"
    BY <1>1, <1>7, DumpMoves
  <2> QED
    BY <1>1, <1>3, <2>1 DEF DumpSteps
<1> QED
  BY <1>1, <1>4, <1>5, <1>6, <1>7, RunKinds

(* While the client runs.                                                  *)
LEMMA RunningKept ==
  ASSUME TableInv, TableInv', DumpsOK, DumpsOK', TextsOK, RunningOK, NEW t \in Thread, Run(t)
  PROVE  RunningOK'
<1>1. /\ HashInv /\ tangled \in BOOLEAN /\ Track /\ IsFiniteSet(Dumping')
      /\ \A u \in Thread \ {t} : pc'[u] = pc[u] /\ cur'[u] = cur[u]
      /\ out \in [Thread -> Seq(Char)]
  BY StepKinds DEF TableInv, ValuesInv, DumpsOK, TextsOK, Run
<1> SUFFICES ASSUME up', ~tangled'
             PROVE  /\ \A u, v \in Dumping' : u = v
                    /\ \A u \in Dumping' : db' = <<>> /\ (Pending' \/ Restores(out[u], cur[u])')
                    /\ Dumping' = {} => Pending' \/ DatabaseRestores'
  BY DEF RunningOK
<1>2. /\ \A u, v \in Dumping' : u = v
      /\ tangled => Dumping = {} /\ Dumping' # {}
  BY <1>1, NotTangled
<1>3. ASSUME UNCHANGED memory
      PROVE  /\ \A text, c : Restores(text, c)' <=> Restores(text, c)
             /\ UNCHANGED db => (DatabaseRestores' <=> DatabaseRestores)
  <2>1. \A k : Lookup(k)' = Lookup(k)
    BY <1>3, SameTable
  <2> QED
    BY <2>1 DEF Restores, DatabaseRestores
<1>4. ASSUME up' = up, Dumping' = Dumping
      PROVE  /\ up /\ ~tangled
             /\ \A u \in Dumping : db = <<>> /\ (Pending \/ Restores(out[u], cur[u]))
             /\ Dumping = {} => Pending \/ DatabaseRestores
  <2>1. up /\ ~tangled
    BY <1>2, <1>4
  <2> QED
    BY <2>1 DEF RunningOK
<1>5. CASE Quiet(t)
  <2>1. /\ UNCHANGED <<memory, db, up, out>>
        /\ pc[t] \notin DumpSteps \cup {"dump_open"}
        /\ pc'[t] \notin DumpSteps \cup {"dump_open"}
    BY <1>5 DEF Quiet
  <2>2. Dumping' = Dumping /\ (Pending' <=> Pending) /\ t \notin Dumping
    BY <1>1, <2>1 DEF Dumping, Pending
  <2>3. \A u \in Dumping : Restores(out[u], cur[u])' <=> Restores(out[u], cur[u])
    <3>1. \A u \in Dumping : out'[u] = out[u] /\ cur'[u] = cur[u]
      BY <1>1, <2>1, <2>2 DEF Dumping
    <3> QED
      BY <1>3, <2>1, <3>1
  <2> QED
    BY <1>2, <1>3, <1>4, <2>1, <2>2, <2>3
<1>6. CASE PutDone(t)
  <2>1. /\ UNCHANGED <<db, up, out>> /\ pc[t] \in PutSteps
        /\ pc'[t] = "dump_open"
    BY <1>6 DEF PutDone
  <2>2. Dumping' = Dumping /\ Pending'
    BY <1>1, <2>1 DEF Dumping, Pending, PutSteps, DumpSteps
  <2> QED
    BY <1>2, <1>4, <2>1, <2>2
<1>7. CASE DumpOpen(t)
  <2>1. /\ UNCHANGED <<memory, up, out>> /\ db' = <<>>
        /\ pc[t] = "dump_open" /\ pc'[t] = "dump_scan" /\ cur'[t] = 1
    BY <1>1, <1>7, DumpMoves
  <2>2. t \in Dumping'
    BY <2>1 DEF Dumping, DumpSteps
  <2>3. out'[t] = <<>> /\ cur'[t] = 1
    BY <2>1 DEF DumpsOK, DumpSteps
  <2>4. Restores(out[t], cur[t])'
    <3>1. Restores(<<>>, 1)'
      BY <1>3, <2>1, NothingPrinted
    <3> QED
      BY <2>3, <3>1
  <2> QED
    BY <1>2, <2>1, <2>2, <2>4
<1>8. CASE DumpScan(t)
  <2> DEFINE text == out[t] \o Text(Chain(cur[t]))
  <2>1. /\ UNCHANGED <<memory, db, up>> /\ out' = [out EXCEPT ![t] = text]
        /\ pc[t] = "dump_scan" /\ cur[t] \in 1..Buckets /\ cur'[t] = cur[t] + 1
        /\ pc'[t] \in DumpSteps
    BY <1>1, <1>8, DumpMoves DEF DumpSteps
  <2>2. Restores(out[t], cur[t]) => Restores(text, cur[t] + 1)
    BY <2>1, ChainPrinted
  <2> HIDE DEF text
  <2>3. out'[t] = text
    BY <1>1, <2>1
  <2>4. Dumping' = Dumping /\ (Pending' <=> Pending) /\ t \in Dumping
    BY <1>1, <2>1 DEF Dumping, Pending, DumpSteps
  <2>5. Restores(text, cur[t] + 1) => Restores(out[t], cur[t])'
    BY <1>3, <2>1, <2>3
  <2> QED
    BY <1>2, <1>4, <2>1, <2>2, <2>4, <2>5
<1>9. CASE DumpClose(t)
  <2>1. /\ UNCHANGED <<memory, up>> /\ db' = Overwrite(db, out[t])
        /\ pc[t] = "dump_close" /\ cur[t] = Buckets + 1 /\ pc'[t] = "idle"
    BY <1>1, <1>9, DumpMoves
  <2>2. t \in Dumping /\ (Pending' <=> Pending) /\ Dumping' \subseteq Dumping /\ t \notin Dumping'
    BY <1>1, <2>1 DEF Dumping, Pending, DumpSteps
  <2>3. ~tangled /\ up
    BY <1>2, <2>1, <2>2
  <2>4. Dumping' = {} /\ db = <<>> /\ (Pending \/ Restores(out[t], Buckets + 1))
    BY <2>1, <2>2, <2>3 DEF RunningOK
  <2>5. db' = out[t]
    BY <1>1, <2>1, <2>4, OverwriteFacts DEF TextsOK
  <2>6. Restores(out[t], Buckets + 1) => DatabaseRestores'
    <3>1. \A k \in Key : bucket[k] < Buckets + 1
      BY EntryFacts, HashConstants
    <3>2. \A k : Lookup(k)' = Lookup(k)
      BY <2>1, SameTable
    <3> QED
      BY <2>5, <3>1, <3>2 DEF Restores, DatabaseRestores
  <2> QED
    BY <2>2, <2>4, <2>6
<1>10. ~ReadLine(t)
  BY <1>1, ReadLineMoves
<1> QED
  BY <1>1, <1>5, <1>6, <1>7, <1>8, <1>9, <1>10, RunKinds


(* One more line is read: what it gives its key is what counts from then.  *)
LEMMA LineRead ==
  ASSUME db \in Seq(Char), offset \in {0} \cup Ends(db), NEW t \in Thread, ReadLine(t)
  PROVE  /\ offset' \in Ends(db)
         /\ \A i \in Ends(db) : i <= offset' <=> i <= offset \/ i = offset'
         /\ ~Faults(LineTo(db, offset'))
         /\ \A k \in Key : ReadSoFar(k)' =
              IF k = Entry(LineTo(db, offset')).key
              THEN Entry(LineTo(db, offset')).value ELSE ReadSoFar(k)
<1> DEFINE T == {i \in Ends(db) : i > offset}
           N == Len(db)
           found(k) == {i \in Ends(db) : i <= offset /\ Entry(LineTo(db, i)).key = k}
           found1(k) == {i \in Ends(db) : i <= offset' /\ Entry(LineTo(db, i)).key = k}
<1>1. /\ N \in Nat /\ Ends(db) \subseteq 1..N /\ (db # <<>> => N \in Ends(db))
      /\ offset \in 0..N
  BY EndsFacts
<1>2. offset < N /\ offset' = Min(T) /\ db' = db /\ ~Faults(LineTo(db, offset'))
  BY DEF ReadLine
<1>3. offset' \in T /\ \A i \in T : offset' <= i
  <2>1. T \subseteq 0..N /\ N \in T
    <3>1. db # <<>>
      BY <1>1, <1>2
    <3> QED
      BY <1>1, <1>2, <3>1
  <2> HIDE DEF T
  <2> QED
    BY <1>1, <1>2, <2>1, MinFacts
<1>4. offset' \in Ends(db) /\ offset' \in Nat /\ offset' > offset
  BY <1>1, <1>3
<1>5. \A i \in Ends(db) : i <= offset' <=> i <= offset \/ i = offset'
  <2> TAKE i \in Ends(db)
  <2>1. i \in 0..N /\ offset \in 0..N /\ offset' \in 0..N
    BY <1>1, <1>4
  <2>2. i > offset => offset' <= i
    BY <1>3
  <2> QED
    BY <1>4, <2>1, <2>2
<1> HIDE DEF T
<1>6. ASSUME NEW k \in Key
      PROVE  ReadSoFar(k)' = IF k = Entry(LineTo(db, offset')).key
                             THEN Entry(LineTo(db, offset')).value ELSE ReadSoFar(k)
  <2>1. /\ ReadSoFar(k) = IF found(k) = {} THEN NotFound
                          ELSE Entry(LineTo(db, Max(found(k)))).value
        /\ ReadSoFar(k)' = IF found1(k) = {} THEN NotFound
                           ELSE Entry(LineTo(db, Max(found1(k)))).value
    BY <1>2 DEF ReadSoFar
  <2>2. CASE k = Entry(LineTo(db, offset')).key
    <3>1. offset' \in found1(k) /\ found1(k) \subseteq 0..N /\ \A i \in found1(k) : i <= offset'
      BY <1>1, <1>4, <2>2
    <3>2. Max(found1(k)) = offset'
      <4> DEFINE F == found1(k)
      <4> HIDE DEF F
      <4>1. Max(F) \in F /\ \A m \in F : m <= Max(F)
        BY <1>1, <3>1, MaxFacts DEF F
      <4>2. Max(F) \in 0..N /\ Max(F) <= offset' /\ offset' <= Max(F)
        BY <3>1, <4>1 DEF F
      <4> QED
        BY <1>4, <4>2 DEF F
    <3> QED
      BY <2>1, <2>2, <3>1, <3>2
  <2>3. CASE k # Entry(LineTo(db, offset')).key
    <3>1. found1(k) = found(k)
      BY <1>5, <2>3
    <3> QED
      BY <2>1, <2>3, <3>1
  <2> QED
    BY <2>2, <2>3
<1> QED
  BY <1>2, <1>4, <1>5, <1>6

(* While the client starts.                                                *)
LEMMA StartingKept ==
  ASSUME TableInv, TableInv', TextsOK, DumpsOK, StartingOK, NEW t \in Thread, Run(t)
  PROVE  StartingOK'
<1>1. /\ HashInv /\ db \in Seq(Char) /\ tangled \in BOOLEAN /\ Track
      /\ pc \in [Thread -> PC] /\ arg \in [Thread -> Entries]
      /\ \A u \in Thread \ {t} : pc'[u] = pc[u] /\ arg'[u] = arg[u]
      /\ \A u \in Thread : arg[u].key \in Key
  BY StepKinds, HomeFacts DEF TableInv, HashInv, TableTypeOK, ValuesInv, TextsOK, Run
<1> SUFFICES ASSUME ~up'
             PROVE  StartingOK'
  BY DEF StartingOK
<1>2. ~up
  BY <1>1, RunKinds, ReadLineMoves, DumpMoves DEF Quiet, PutDone
<1>3. /\ contended = {} /\ ~tangled
      /\ offset \in {0} \cup Ends(db)
      /\ \A i \in Ends(db) : i <= offset => ~Faults(LineTo(db, i))
      /\ \A u, v \in Putting : u = v
      /\ \A u \in Putting : pc[u] \in PutSteps /\ ReadSoFar(arg[u].key) = arg[u].value
      /\ \A k \in Key : (\A u \in Putting : arg[u].key # k) => ReadSoFar(k) = Lookup(k)
  BY <1>2 DEF StartingOK
(* One thread puts at most, before the step and after it.                  *)
<1>4. ASSUME \A u, v \in Putting' : u = v, \A u \in Putting' : pc'[u] \in PutSteps
      PROVE  contended' = {} /\ ~tangled'
  <2>1. InsertingTogether' = {}
    <3>1. \A u \in Thread : Inserting(u)' => u \in Putting'
      BY DEF Inserting, Putting, PutSteps
    <3> QED
      BY <1>4, <3>1 DEF InsertingTogether
  <2>2. Dumping' = {}
    BY <1>4 DEF Dumping, Putting, PutSteps, DumpSteps
  <2>3. Cardinality({}) = 0
    BY FS_EmptySet
  <2>4. contended' = {}
    BY <1>1, <1>3, <2>1 DEF Track
  <2>5. ~tangled'
    <3>1. tangled' = (Cardinality(Dumping') > 1 \/ (tangled /\ (Dumping # {} \/ Dumping' = {})))
      BY <1>1 DEF Track
    <3>2. ~(Cardinality(Dumping') > 1)
      BY <2>2, <2>3
    <3> QED
      BY <1>3, <3>1, <3>2
  <2> QED
    BY <2>4, <2>5
<1>5. CASE Quiet(t)
  <2>1. /\ UNCHANGED <<memory, db, offset>>
        /\ pc[t] # "idle" /\ (pc[t] \in PutSteps => pc'[t] \in PutSteps /\ arg'[t] = arg[t])
    BY <1>2, <1>5 DEF Quiet
  <2>2. /\ pc[t] \in PutSteps /\ pc'[t] \in PutSteps
        /\ \A u \in Thread : arg'[u] = arg[u]
    BY <1>1, <1>3, <2>1 DEF Putting
  <2>3. Putting' = Putting
    BY <1>1, <2>2 DEF Putting, PutSteps
  <2>4. \A u \in Putting' : pc'[u] \in PutSteps
    BY <1>1, <1>3, <2>2, <2>3 DEF Putting
  <2>5. \A k : Lookup(k)' = Lookup(k) /\ ReadSoFar(k)' = ReadSoFar(k)
    BY <2>1, SameTable DEF ReadSoFar
  <2>6. contended' = {} /\ ~tangled'
    BY <1>3, <1>4, <2>3, <2>4
  <2>7. \A u \in Putting' : ReadSoFar(arg[u].key)' = arg'[u].value
    <3>1. \A u \in Putting : ReadSoFar(arg[u].key)' = ReadSoFar(arg[u].key)
      BY <2>1, <2>2 DEF ReadSoFar, Putting
    <3> QED
      BY <1>3, <2>2, <2>3, <3>1 DEF Putting
  <2>8. \A k \in Key : (\A u \in Putting' : arg'[u].key # k) => ReadSoFar(k)' = Lookup(k)'
    BY <1>3, <2>2, <2>3, <2>5 DEF Putting
  <2>9. \A u, v \in Putting' : u = v
    BY <1>3, <2>3
  <2> QED
    BY <1>3, <2>1, <2>4, <2>6, <2>7, <2>8, <2>9 DEF StartingOK
<1>6. CASE PutDone(t)
  <2>1. /\ UNCHANGED <<db, offset>> /\ pc[t] \in PutSteps /\ pc'[t] = "idle"
        /\ Updates(t) \/ Inserts(t)
    BY <1>2, <1>6 DEF PutDone
  <2>2. Putting = {t} /\ Putting' = {}
    <3>1. t \in Putting
      BY <2>1 DEF Putting, PutSteps
    <3> QED
      BY <1>1, <1>3, <2>1, <3>1 DEF Putting
  <2>3. Promise!PutStamp(arg[t].key, arg[t].value)
    BY <1>3, <2>1, UpdateIsPut, InsertIsPut
  <2>4. \A k \in Key : Lookup(k)' = IF k = arg[t].key THEN arg[t].value ELSE Lookup(k)
    <3>1. Table' = [k \in Key |-> Lookup(k)']
      BY DEF Table
    <3>2. Table = [k \in Key |-> Lookup(k)]
      BY DEF Table
    <3>3. Table' = [Table EXCEPT ![arg[t].key] = arg[t].value]
      BY <2>3 DEF Promise!PutStamp
    <3> HIDE DEF Table
    <3> QED
      BY <3>1, <3>2, <3>3
  <2>5. \A k : ReadSoFar(k)' = ReadSoFar(k)
    BY <2>1 DEF ReadSoFar
  <2>6. \A k \in Key : ReadSoFar(k)' = Lookup(k)'
    BY <1>3, <2>2, <2>4, <2>5
  <2>7. contended' = {} /\ ~tangled'
    BY <1>4, <2>2
  <2> QED
    BY <1>3, <2>1, <2>2, <2>6, <2>7 DEF StartingOK
<1>7. CASE ReadLine(t)
  <2> DEFINE e == Entry(LineTo(db, offset'))
  <2>1. /\ UNCHANGED <<memory, db>> /\ pc = All("idle")
        /\ pc'[t] \in {"idle", "put_first", "put_walk"}
    BY <1>1, <1>7, ReadLineMoves
  <2>2. /\ offset' \in Ends(db)
        /\ \A i \in Ends(db) : i <= offset' <=> i <= offset \/ i = offset'
        /\ ~Faults(LineTo(db, offset'))
        /\ \A k \in Key : ReadSoFar(k)' = IF k = e.key THEN e.value ELSE ReadSoFar(k)
    BY <1>1, <1>3, <1>7, LineRead
  <2>3. IF e = NoEntry THEN UNCHANGED thread ELSE Put(t, e.key, e.value)
    BY <1>7, <2>1 DEF ReadLine
  <2>4. e # NoEntry => e.key \in Key /\ e.value \in Stored
    BY LineIsEntry
  <2> HIDE DEF e
  <2>5. Putting = {} /\ \A u \in Thread \ {t} : pc'[u] = "idle"
    BY <1>1, <2>1 DEF Putting, All
  <2>6. \A k \in Key : Lookup(k)' = Lookup(k) /\ ReadSoFar(k) = Lookup(k)
    BY <1>3, <2>1, <2>5, SameTable
  <2>7. Putting' \subseteq {t}
    BY <2>5 DEF Putting
  <2>8. \A i \in Ends(db) : i <= offset' => ~Faults(LineTo(db, i))
    BY <1>3, <2>2
  <2>9. /\ \A u \in Putting' : pc'[u] \in PutSteps /\ ReadSoFar(arg[u].key)' = arg'[u].value
        /\ \A k \in Key : (\A u \in Putting' : arg'[u].key # k) => ReadSoFar(k)' = Lookup(k)'
    <3>1. CASE e = NoEntry
      <4>1. UNCHANGED pc
        BY <2>3, <3>1 DEF thread
      <4>2. Putting' = {}
        BY <2>5, <4>1 DEF Putting
      <4>3. e.key \notin Key
        BY <3>1, HashConstants DEF NoEntry
      <4> QED
        BY <2>2, <2>6, <4>2, <4>3
    <3>2. CASE e # NoEntry
      <4>1. arg'[t] = [key |-> e.key, value |-> e.value]
        BY <1>1, <2>3, <3>2 DEF Put, Call
      <4>2. ReadSoFar(arg[t].key)' = arg'[t].value
        <5>1. arg'[t].key = e.key /\ arg'[t].value = e.value /\ e.key \in Key
          BY <2>4, <3>2, <4>1
        <5>2. ReadSoFar(arg[t].key)' = e.value
          BY <2>2, <5>1 DEF ReadSoFar
        <5> QED
          BY <5>1, <5>2
      <4>3. pc'[t] \in {"put_first", "put_walk"}
        BY <1>1, <2>3, <3>2 DEF Put, Goto
      <4>4. Putting' = {t} /\ pc'[t] \in PutSteps
        BY <2>7, <4>3 DEF Putting, PutSteps
      <4> QED
        BY <2>2, <2>6, <4>1, <4>2, <4>4
    <3> QED
      BY <3>1, <3>2
  <2>10. contended' = {} /\ ~tangled'
    BY <1>4, <2>7, <2>9
  <2> QED
    BY <2>1, <2>2, <2>7, <2>8, <2>9, <2>10 DEF StartingOK
<1>8. ~DumpOpen(t) /\ ~DumpScan(t) /\ ~DumpClose(t)
  <2>1. pc[t] # "dump_open" /\ pc[t] # "dump_scan" /\ pc[t] # "dump_close"
    BY <1>3 DEF Putting, PutSteps
  <2> QED
    BY <2>1 DEF DumpOpen, DumpScan, DumpClose
<1> QED
  BY <1>1, <1>5, <1>6, <1>7, <1>8, RunKinds


(* While no line is read, and no thread runs: init, crash, start.          *)
LEMMA DatabaseStarts ==
  /\ HashInit => DatabaseInv
  /\ TableInv' /\ TextsOK /\ Crash => DatabaseInv'
<1>1. TableInv => \A k \in Key : head[bucket[k]] = Null => Lookup(k) = NotFound
  <2>1. TableInv => \A k \in Key : Found(k)
    BY FoundNow
  <2> QED
    BY <2>1, EntryFacts, ChainOfBucket DEF TableInv, Found
<1>2. TableInv' => (\A k \in Key : head[bucket[k]] = Null => Lookup(k) = NotFound)'
  BY <1>1, PTL
<1>3. \A k \in Key : NoTable[bucket[k]] = Null
  BY EntryFacts DEF NoTable
<1>4. /\ IsFiniteSet({}) /\ Cardinality({}) = 0
      /\ \A q \in DumpSteps : q # "idle"
  BY FS_EmptySet DEF DumpSteps
<1>5. ASSUME HashInit PROVE DatabaseInv
  <2>1. /\ db = <<>> /\ out = All(<<>>) /\ pc = All("idle") /\ up
        /\ head = NoTable
    BY <1>5 DEF HashInit
  <2>2. TextsOK
    BY <2>1, NothingPrinted DEF TextsOK, All
  <2>3. Dumping = {}
    BY <1>4, <2>1 DEF Dumping, All
  <2>4. DumpsOK
    BY <1>4, <2>1, <2>3 DEF DumpsOK, All, DumpSteps
  <2>5. TableInv
    BY <1>5, TableStarts
  <2>6. DatabaseRestores
    BY <1>1, <1>3, <2>1, <2>5, NothingPrinted DEF DatabaseRestores
  <2> QED
    BY <2>1, <2>2, <2>3, <2>4, <2>6 DEF DatabaseInv, RunningOK, StartingOK
<1>6. ASSUME TableInv', TextsOK, Crash PROVE DatabaseInv'
  <2>1. /\ out' = All(<<>>) /\ pc' = All("idle") /\ ~up' /\ head' = NoTable
        /\ offset' = 0 /\ contended' = {} /\ ~tangled'
    BY <1>6 DEF Crash
  <2>2. db' \in Seq(Char)
    <3>1. CASE UNCHANGED db
      BY <1>6, <3>1 DEF TextsOK
    <3>2. ASSUME NEW t \in Thread, NEW n \in 1..Len(out[t]),
                 db' = Overwrite(db, SubSeq(out[t], 1, n))
          PROVE  db' \in Seq(Char)
      <4>1. out[t] \in Seq(Char) /\ db \in Seq(Char)
        BY <1>6 DEF TextsOK
      <4>2. SubSeq(out[t], 1, n) \in Seq(Char)
        <5>1. Len(out[t]) \in Nat /\ 1 \in Int /\ n \in Int
          BY <4>1, LenProperties
        <5>2. \A i \in 1..n : out[t][i] \in Char
          BY <4>1, <5>1, ElementOfSeq
        <5> QED
          BY <4>1, <5>1, <5>2, SubSeqProperties
      <4> QED
        BY <3>2, <4>1, <4>2, OverwriteFacts
    <3> QED
      BY <1>6, <3>1, <3>2 DEF Crash
  <2>3. TextsOK'
    BY <2>1, <2>2, NothingPrinted DEF TextsOK, All
  <2>4. Dumping' = {} /\ Putting' = {}
    BY <1>4, <2>1 DEF Dumping, Putting, All
  <2>5. DumpsOK'
    BY <1>4, <2>1, <2>4 DEF DumpsOK, All, DumpSteps
  <2>6. \A k \in Key : Lookup(k)' = NotFound
    BY <1>2, <1>3, <1>6, <2>1
  <2>7. \A i \in Ends(db') : ~(i <= offset')
    BY <2>1, <2>2, EndsFacts
  <2>8. \A k \in Key : ReadSoFar(k)' = NotFound
    BY <2>7 DEF ReadSoFar
  <2>9. StartingOK'
    BY <2>1, <2>4, <2>6, <2>7, <2>8 DEF StartingOK
  <2> QED
    BY <2>1, <2>3, <2>5, <2>9 DEF DatabaseInv, RunningOK
<1> QED
  BY <1>5, <1>6

(* The client has read the database, and begins to serve.                  *)
LEMMA DatabaseIsRead ==
  ASSUME TableInv, DatabaseInv, Started, Track
  PROVE  DatabaseInv'
<1>1. /\ ~up /\ pc = All("idle") /\ offset = Len(db) /\ up'
      /\ UNCHANGED <<memory, db, pc, cur, out>>
  BY DEF Started, thread
<1>2. Putting = {} /\ Dumping = {} /\ Dumping' = {}
  BY <1>1 DEF Putting, Dumping, All, DumpSteps
<1>3. /\ ~tangled
      /\ \A i \in Ends(db) : i <= offset => ~Faults(LineTo(db, i))
      /\ \A k \in Key : ReadSoFar(k) = Lookup(k)
  BY <1>1, <1>2 DEF DatabaseInv, StartingOK
<1>4. \A i \in Ends(db) : i <= offset
  BY <1>1, EndsFacts DEF DatabaseInv, TextsOK
<1>5. ASSUME NEW k \in Key PROVE LookupIn(db, k) = Lookup(k)
  <2>1. ReadSoFar(k) = LookupIn(db, k)
    <3>1. {i \in Ends(db) : i <= offset /\ Entry(LineTo(db, i)).key = k}
            = {i \in Ends(db) : Entry(LineTo(db, i)).key = k}
      BY <1>4
    <3> QED
      BY <3>1 DEF ReadSoFar, LookupIn
  <2> QED
    BY <1>3, <2>1
<1>6. DatabaseRestores'
  <2>1. \A k : Lookup(k)' = Lookup(k)
    BY <1>1, SameTable
  <2> QED
    BY <1>1, <1>3, <1>4, <1>5, <2>1 DEF DatabaseRestores, Readable
<1>7. TextsOK' /\ DumpsOK'
  BY <1>1, <1>2 DEF DatabaseInv, TextsOK, DumpsOK
<1> QED
  BY <1>1, <1>2, <1>6, <1>7 DEF DatabaseInv, RunningOK, StartingOK

(* DatabaseInv is inductive, given what holds of the table.                *)
LEMMA DatabaseNextInv ==
  TableInv /\ TableInv' /\ DatabaseInv /\ [HashNext]_hashVars => DatabaseInv'
<1> SUFFICES ASSUME TableInv, TableInv', DatabaseInv, [HashNext]_hashVars
             PROVE  DatabaseInv'
  OBVIOUS
<1>1. ASSUME NEW t \in Thread, Run(t)
      PROVE  DatabaseInv'
  <2>1. TextsOK' /\ DumpsOK'
    BY <1>1, TextsKept, DumpsKept DEF DatabaseInv
  <2>2. RunningOK'
    BY <1>1, <2>1, RunningKept DEF DatabaseInv
  <2>3. StartingOK'
    BY <1>1, StartingKept DEF DatabaseInv
  <2> QED
    BY <2>1, <2>2, <2>3 DEF DatabaseInv
<1>2. CASE Started /\ Track
  BY <1>2, DatabaseIsRead
<1>3. CASE Crash
  BY <1>3, DatabaseStarts DEF DatabaseInv
<1>4. CASE UNCHANGED hashVars
  <2>1. /\ UNCHANGED <<memory, db, up, offset, contended, tangled>>
        /\ UNCHANGED <<pc, arg, cur, out>>
    BY <1>4 DEF hashVars, thread, history
  <2>2. \A k : Lookup(k)' = Lookup(k)
    BY <2>1, SameTable
  <2>3. UNCHANGED <<Dumping, Putting>> /\ (Pending' <=> Pending)
    BY <2>1 DEF Dumping, Putting, Pending
  <2>4. TextsOK' /\ DumpsOK'
    BY <2>1, <2>3 DEF DatabaseInv, TextsOK, DumpsOK
  <2>5. /\ \A text, c : Restores(text, c)' <=> Restores(text, c)
        /\ DatabaseRestores' <=> DatabaseRestores
        /\ \A k : ReadSoFar(k)' = ReadSoFar(k)
    BY <2>1, <2>2 DEF Restores, DatabaseRestores, ReadSoFar
  <2>6. RunningOK'
    BY <2>1, <2>3, <2>5 DEF DatabaseInv, RunningOK
  <2>7. StartingOK'
    BY <2>1, <2>2, <2>3, <2>5 DEF DatabaseInv, StartingOK
  <2> QED
    BY <2>4, <2>6, <2>7 DEF DatabaseInv
<1> QED
  BY <1>1, <1>2, <1>3, <1>4 DEF HashNext

LEMMA DatabaseAlways == HashSpec => []DatabaseInv
<1>1. HashInit => DatabaseInv
  BY DatabaseStarts
<1> QED
  BY <1>1, DatabaseNextInv, TableAlways, PTL DEF HashSpec

(* When no put() or dump() is under way and no two dump()s overlapped, the *)
(* database restores the table there is: a crash then loses no flag and no *)
(* time, and the client starts again.                                      *)
THEOREM DatabaseIsKept == HashSpec => []DatabaseIsTable
<1>1. DatabaseInv => DatabaseIsTable
  <2> SUFFICES ASSUME DatabaseInv, up, ~tangled,
                      \A t \in Thread : pc[t] \in {"idle", "get_walk", "got"}
               PROVE  DatabaseRestores
    BY DEF DatabaseIsTable, DatabaseRestores, Readable
  <2>1. Dumping = {} /\ ~Pending
    BY DEF Dumping, DumpSteps, Pending
  <2> QED
    BY <2>1 DEF DatabaseInv, RunningOK
<1> QED
  BY <1>1, DatabaseAlways, PTL

=============================================================================
