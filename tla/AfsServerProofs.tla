-------------------------- MODULE AfsServerProofs --------------------------
(***************************************************************************)
(* What AfsServer guarantees for every number of handlers and inodes, and  *)
(* for any images, whatever system calls of handlers interleave.           *)
(***************************************************************************)
EXTENDS AfsServer, SequenceTheorems, TLAPS

-----------------------------------------------------------------------------
(***************************************************************************)
(* Lemmas about data and time.                                             *)
(***************************************************************************)

(* An image is data; so are no bytes.                                      *)
LEMMA DataFacts ==
  /\ <<>> \in Data /\ Len(<<>>) = 0
  /\ Image \subseteq Data
  /\ \A d \in Data : Len(d) \in Nat
<1>1. \A image \in Image : image \in Seq(Block \cup {Junk})
  <2> SUFFICES ASSUME NEW image \in Image PROVE image \in Seq(Block \cup {Junk})
    OBVIOUS
  <2>1. image \in Seq(Block)
    BY ServerConstants
  <2>2. image \in [1..Len(image) -> Block] /\ Len(image) \in Nat
    BY <2>1, LenProperties
  <2>3. image \in [1..Len(image) -> Block \cup {Junk}]
    BY <2>2
  <2> QED
    BY <2>2, <2>3
<1> QED
  BY <1>1, EmptySeq, LenProperties DEF Data

(* write() at offset 0 leaves the image, and behind it the old bytes that  *)
(* it does not reach.                                                      *)
LEMMA OverlayFacts ==
  ASSUME NEW image \in Data, NEW old \in Data
  PROVE  /\ Overlay(image, old) \in Data
         /\ Len(Overlay(image, old)) = IF Len(image) < Len(old) THEN Len(old) ELSE Len(image)
         /\ \A k \in 1..Len(image) : Overlay(image, old)[k] = image[k]
         /\ \A k \in (Len(image) + 1)..Len(old) : Overlay(image, old)[k] = old[k]
<1> DEFINE S == Block \cup {Junk}
           tail == SubSeq(old, Len(image) + 1, Len(old))
<1>1. image \in Seq(S) /\ old \in Seq(S) /\ Len(image) \in Nat /\ Len(old) \in Nat
  BY LenProperties DEF Data
<1>2. /\ tail \in Seq(S)
      /\ Len(tail) = IF Len(image) < Len(old) THEN Len(old) - Len(image) ELSE 0
      /\ \A j \in 1..Len(tail) : tail[j] = old[Len(image) + j]
  <2>1. CASE Len(image) < Len(old)
    <3>1. Len(image) + 1 \in 1..Len(old) /\ Len(old) \in (Len(image) + 1 - 1)..Len(old)
      BY <1>1, <2>1
    <3>2. \A i \in Len(image) + 1 .. Len(old) : old[i] \in S
      BY <1>1, ElementOfSeq
    <3> QED
      BY <1>1, <2>1, <3>1, <3>2, SubSeqProperties
  <2>2. CASE ~(Len(image) < Len(old))
    <3>1. \A i \in Len(image) + 1 .. Len(old) : old[i] \in S
      BY <1>1, <2>2
    <3> QED
      BY <1>1, <2>2, <3>1, SubSeqProperties
  <2> QED
    BY <2>1, <2>2
<1> HIDE DEF tail
<1>3. /\ image \o tail \in Seq(S)
      /\ Len(image \o tail) = Len(image) + Len(tail)
      /\ \A k \in 1..(Len(image) + Len(tail)) :
           (image \o tail)[k] = IF k <= Len(image) THEN image[k] ELSE tail[k - Len(image)]
  BY <1>1, <1>2, ConcatProperties
<1>4. Overlay(image, old) = image \o tail
  BY DEF Overlay, tail
<1>5. \A k \in (Len(image) + 1)..Len(old) : (image \o tail)[k] = old[k]
  <2> SUFFICES ASSUME NEW k \in (Len(image) + 1)..Len(old)
               PROVE  (image \o tail)[k] = old[k]
    OBVIOUS
  <2>1. k \in 1..(Len(image) + Len(tail)) /\ ~(k <= Len(image)) /\ k - Len(image) \in 1..Len(tail)
    BY <1>1, <1>2
  <2>2. (image \o tail)[k] = tail[k - Len(image)]
    BY <1>3, <2>1
  <2>3. tail[k - Len(image)] = old[Len(image) + (k - Len(image))]
    BY <1>2, <2>1
  <2> QED
    BY <1>1, <2>2, <2>3
<1>6. Overlay(image, old) \in Data
  BY <1>3, <1>4 DEF Data
<1>7. Len(Overlay(image, old)) = IF Len(image) < Len(old) THEN Len(old) ELSE Len(image)
  BY <1>1, <1>2, <1>3, <1>4
<1>8. \A k \in 1..Len(image) : (image \o tail)[k] = image[k]
  BY <1>1, <1>2, <1>3
<1> QED
  BY <1>4, <1>5, <1>6, <1>7, <1>8

(* read() into a buffer of any size leaves data.                           *)
LEMMA ReadFacts ==
  ASSUME NEW d \in Data, NEW n \in Nat
  PROVE  Read(d, n) \in Data /\ Read(d, Len(d)) = d
<1>1. Len(d) \in Nat /\ d \in Seq(Block \cup {Junk}) /\ d \in [1..Len(d) -> Block \cup {Junk}]
  BY LenProperties DEF Data
<1>2. Read(d, n) \in [1..n -> Block \cup {Junk}]
  BY <1>1 DEF Read
<1>3. Read(d, n) \in Data
  BY <1>2 DEF Data
<1>4. Read(d, Len(d)) = d
  BY <1>1 DEF Read
<1> QED
  BY <1>3, <1>4

(* Within the first second of the clock the time in a reply is the file's. *)
LEMMA NsecFacts ==
  ASSUME NEW t \in Nat
  PROVE  Nsec(t) \in Nat /\ Nsec(t) <= t /\ (t < NSEC => Nsec(t) = t)
<1>1. NSEC \in Nat /\ NSEC > 0
  BY ServerConstants
<1> QED
  BY <1>1 DEF Nsec

-----------------------------------------------------------------------------
(***************************************************************************)
(* The invariants.                                                         *)
(***************************************************************************)

(* A handler between open() and close() has the inode it works on, and one *)
(* that stores has a client's image.                                       *)
HandlersInv ==
  \A h \in Handler :
    /\ pc[h] \in {"store_write", "fetch_fstat", "fetch_read", "fetch_time"} => fd[h] \in Inode
    /\ pc[h] = "store_write" => buf[h] \in Image

(* No file is from the future, and the time that a fetch takes of its      *)
(* inode in the end is not older than the bytes it has read.               *)
TimesInv ==
  /\ \A i \in Inode : mtime[i] <= now
  /\ \A h \in Handler :
       /\ pc[h] = "fetch_time" => asof[h] <= mtime[fd[h]]
       /\ pc[h] = "fetched" /\ now < NSEC => asof[h] <= time[h]

ServerInv == ServerTypeOK /\ HandlersInv /\ EveryByteIsStored /\ TimesInv

(* What a modification does to the disk.                                   *)
LEMMA ModifyFacts ==
  ASSUME ServerTypeOK, NEW i \in Inode, NEW d \in Data, NEW steps \in SUBSET Nat,
         Modify(i, d, steps)
  PROVE  /\ now' \in Nat /\ now <= now'
         /\ data' \in [Inode -> Data] /\ data'[i] = d
         /\ mtime' \in [Inode -> Nat] /\ mtime'[i] = now'
         /\ \A j \in Inode \ {i} : data'[j] = data[j] /\ mtime'[j] = mtime[j]
         /\ 0 \notin steps => now < now'
<1>1. PICK s \in steps : now' = now + s
  BY DEF Modify
<1>2. s \in Nat /\ now \in Nat
  BY DEF ServerTypeOK
<1>3. now' \in Nat /\ now <= now' /\ (s # 0 => now < now')
  BY <1>1, <1>2
<1>4. data' = [data EXCEPT ![i] = d] /\ mtime' = [mtime EXCEPT ![i] = now']
  BY DEF Modify
<1> QED
  BY <1>3, <1>4 DEF ServerTypeOK

(* Every step that changes bytes makes a file empty, or writes an image.   *)
LEMMA DiskStep ==
  ASSUME ServerTypeOK, HandlersInv, NEW h \in Handler, Handle(h)
  PROVE  \/ UNCHANGED <<data, mtime, now>>
         \/ \E i \in Inode : Modify(i, <<>>, ClockSteps)
         \/ /\ StoreWrite(h) /\ fd[h] \in Inode /\ buf[h] \in Image
            /\ Modify(fd[h], Overlay(buf[h], data[fd[h]]), ClockSteps \cup {0})
<1> USE DEF disk
<1>1. CASE StoreOpen(h)
  BY <1>1 DEF StoreOpen, Free, ServerTypeOK
<1>2. CASE StoreWrite(h)
  <2>1. fd[h] \in Inode /\ buf[h] \in Image
    BY <1>2 DEF StoreWrite, HandlersInv
  <2> QED
    BY <1>2, <2>1 DEF StoreWrite
<1>3. CASE StoreLstat(h) \/ FetchOpen(h) \/ FetchFstat(h) \/ FetchRead(h) \/ FetchTime(h)
  BY <1>3 DEF StoreLstat, FetchOpen, FetchFstat, FetchRead, FetchTime
<1>4. CASE CreateOpen(h)
  BY <1>4 DEF CreateOpen, Free
<1>5. CASE CreateLstat(h) \/ Unlink(h) \/ Delivered(h)
  BY <1>5 DEF CreateLstat, Unlink, Delivered
<1> QED
  BY <1>1, <1>2, <1>3, <1>4, <1>5 DEF Handle

(* A handler's step leaves data on the disk, and moves the times of files  *)
(* to the clock's or not at all.                                           *)
LEMMA DiskType ==
  ASSUME ServerTypeOK, HandlersInv, NEW h \in Handler, Handle(h)
  PROVE  /\ data' \in [Inode -> Data] /\ mtime' \in [Inode -> Nat] /\ now' \in Nat
         /\ now <= now'
         /\ \A i \in Inode : mtime'[i] = mtime[i] \/ mtime'[i] = now'
<1>1. CASE UNCHANGED <<data, mtime, now>>
  BY <1>1 DEF ServerTypeOK
<1>2. ASSUME NEW i \in Inode, NEW d \in Data, NEW steps \in SUBSET Nat,
             Modify(i, d, steps)
      PROVE  /\ data' \in [Inode -> Data] /\ mtime' \in [Inode -> Nat] /\ now' \in Nat
             /\ now <= now'
             /\ \A j \in Inode : mtime'[j] = mtime[j] \/ mtime'[j] = now'
  BY <1>2, ModifyFacts
<1>3. CASE \E i \in Inode : Modify(i, <<>>, ClockSteps)
  BY <1>2, <1>3, DataFacts, ServerConstants
<1>4. CASE /\ fd[h] \in Inode /\ buf[h] \in Image
           /\ Modify(fd[h], Overlay(buf[h], data[fd[h]]), ClockSteps \cup {0})
  <2>1. Overlay(buf[h], data[fd[h]]) \in Data
    BY <1>4, DataFacts, OverlayFacts DEF ServerTypeOK
  <2>2. ClockSteps \cup {0} \in SUBSET Nat
    BY ServerConstants
  <2> QED
    BY <1>2, <1>4, <2>1, <2>2
<1> QED
  BY <1>1, <1>3, <1>4, DiskStep

-----------------------------------------------------------------------------
(***************************************************************************)
(* Type correctness.                                                       *)
(***************************************************************************)
(* lstat() brings a time, or what was in memory.                           *)
LEMMA ReplyTime ==
  ASSUME ServerTypeOK, NEW h \in Handler, LstatAndClose(h)
  PROVE  time' \in [Handler -> Int] /\ fd' = [fd EXCEPT ![h] = NoInode]
<1>1. PICK t \in IF path = NoInode THEN JunkTime ELSE {Nsec(mtime[path])} :
        time' = [time EXCEPT ![h] = t]
  BY DEF LstatAndClose
<1>2. t \in Int
  <2>1. CASE path = NoInode
    BY <1>1, <2>1, ServerConstants
  <2>2. CASE path # NoInode
    <3>1. mtime[path] \in Nat
      BY <2>2 DEF ServerTypeOK
    <3> QED
      BY <1>1, <2>2, <3>1, NsecFacts
  <2> QED
    BY <2>1, <2>2
<1> QED
  BY <1>1, <1>2 DEF LstatAndClose, ServerTypeOK

(* Handlers keep the types.                                                *)
LEMMA TypeStep ==
  ASSUME ServerTypeOK, HandlersInv, NEW h \in Handler, Handle(h)
  PROVE  ServerTypeOK' /\ HandlersInv'
<1>1. data' \in [Inode -> Data] /\ mtime' \in [Inode -> Nat] /\ now' \in Nat
  BY DiskType
<1>2. Image \subseteq Data /\ <<>> \in Data /\ \A d \in Data : Len(d) \in Nat
  BY DataFacts
<1>0. NoInode \notin Inode
  BY ServerConstants
<1> USE <1>0 DEF ServerTypeOK, HandlersInv, Step, Others, Meets, Running, Answered, PC,
             disk, thread
<1>3. CASE StoreOpen(h)
  <2>1. PICK image \in Image : buf' = [buf EXCEPT ![h] = image]
    BY <1>3 DEF StoreOpen
  <2>2. PICK i \in Inode : path' = i /\ fd' = [fd EXCEPT ![h] = i]
    BY <1>3 DEF StoreOpen, Free
  <2> QED
    BY <1>1, <1>2, <1>3, <2>1, <2>2 DEF StoreOpen
<1>4. CASE StoreWrite(h)
  <2>1. fd[h] \in Inode
    BY <1>4 DEF StoreWrite
  <2>2. mtime'[fd[h]] \in Nat
    BY <1>1, <2>1
  <2> QED
    BY <1>1, <1>4, <2>2 DEF StoreWrite
<1>5. CASE StoreLstat(h)
  <2>1. time' \in [Handler -> Int] /\ fd' = [fd EXCEPT ![h] = NoInode]
    BY <1>5, ReplyTime DEF StoreLstat
  <2> QED
    BY <1>5, <2>1 DEF StoreLstat, LstatAndClose
<1>6. CASE FetchOpen(h)
  BY <1>6 DEF FetchOpen
<1>7. CASE FetchFstat(h)
  <2>1. Len(data[fd[h]]) \in Nat /\ Nsec(mtime[fd[h]]) \in Nat
    BY <1>2, <1>7, NsecFacts DEF FetchFstat
  <2> QED
    BY <1>7, <2>1 DEF FetchFstat
<1>8. CASE FetchRead(h)
  <2>1. Read(data[fd[h]], size[h]) \in Data /\ mtime[fd[h]] \in Nat
    BY <1>8, ReadFacts DEF FetchRead
  <2> QED
    BY <1>8, <2>1 DEF FetchRead
<1>9. CASE FetchTime(h)
  <2>1. Nsec(mtime[fd[h]]) \in Nat
    BY <1>9, NsecFacts DEF FetchTime
  <2> QED
    BY <1>9, <2>1 DEF FetchTime
<1>10. CASE CreateOpen(h)
  <2>1. path' \in Inode \cup {NoInode} /\ fd' \in [Handler -> Inode \cup {NoInode}]
        /\ fd'[h] # NoInode /\ \A g \in Handler \ {h} : fd'[g] = fd[g]
    BY <1>10 DEF CreateOpen, Free
  <2>2. disturbed' \subseteq Handler
    BY <1>10 DEF CreateOpen
  <2> QED
    BY <1>1, <1>10, <2>1, <2>2 DEF CreateOpen
<1>11. CASE CreateLstat(h)
  <2>1. time' \in [Handler -> Int] /\ fd' = [fd EXCEPT ![h] = NoInode]
    BY <1>11, ReplyTime DEF CreateLstat
  <2> QED
    BY <1>11, <2>1 DEF CreateLstat, LstatAndClose
<1>12. CASE Unlink(h)
  BY <1>12 DEF Unlink
<1>13. CASE Delivered(h)
  BY <1>2, <1>13 DEF Delivered
<1> QED
  BY <1>3, <1>4, <1>5, <1>6, <1>7, <1>8, <1>9, <1>10, <1>11, <1>12, <1>13 DEF Handle

-----------------------------------------------------------------------------
(***************************************************************************)
(* The bytes of a file, and the time of a fetch.                           *)
(***************************************************************************)

(* EveryByteIsStored of one file.                                          *)
StoredBytes(d) ==
  /\ Len(d) \in {Len(image) : image \in Image} \cup {0}
  /\ \A k \in 1..Len(d) : \E image \in Image : k <= Len(image) /\ d[k] = image[k]

(* Writing an image over stored bytes leaves stored bytes.                 *)
LEMMA OverlayIsStored ==
  ASSUME NEW image \in Image, NEW old \in Data, StoredBytes(old)
  PROVE  StoredBytes(Overlay(image, old))
<1> DEFINE d == Overlay(image, old)
<1>1. image \in Data /\ Len(image) \in Nat /\ Len(old) \in Nat
  BY DataFacts
<1>2. /\ Len(d) = IF Len(image) < Len(old) THEN Len(old) ELSE Len(image)
      /\ \A k \in 1..Len(image) : d[k] = image[k]
      /\ \A k \in (Len(image) + 1)..Len(old) : d[k] = old[k]
  BY <1>1, OverlayFacts
<1> HIDE DEF d
<1>3. Len(d) \in {Len(x) : x \in Image} \cup {0}
  BY <1>2 DEF StoredBytes
<1>4. ASSUME NEW k \in 1..Len(d)
      PROVE  \E x \in Image : k <= Len(x) /\ d[k] = x[k]
  <2>1. CASE k \in 1..Len(image)
    BY <1>1, <1>2, <2>1
  <2>2. CASE k \notin 1..Len(image)
    <3>1. k \in (Len(image) + 1)..Len(old) /\ k \in 1..Len(old)
      BY <1>1, <1>2, <2>2
    <3> QED
      BY <1>2, <3>1 DEF StoredBytes
  <2> QED
    BY <2>1, <2>2
<1> QED
  BY <1>3, <1>4 DEF StoredBytes, d

(* Handlers keep every byte of every inode in its place.                   *)
LEMMA BytesStep ==
  ASSUME ServerTypeOK, HandlersInv, EveryByteIsStored, NEW h \in Handler, Handle(h)
  PROVE  EveryByteIsStored'
<1>1. \A i \in Inode : data[i] \in Data /\ StoredBytes(data[i])
  BY DEF EveryByteIsStored, StoredBytes, ServerTypeOK
<1>2. ASSUME NEW i \in Inode, NEW d \in Data, NEW steps \in SUBSET Nat,
             Modify(i, d, steps), StoredBytes(d)
      PROVE  \A j \in Inode : StoredBytes(data'[j])
  BY <1>1, <1>2, ModifyFacts
<1>3. StoredBytes(<<>>)
  BY DataFacts DEF StoredBytes
<1>4. CASE UNCHANGED <<data, mtime, now>>
  BY <1>4 DEF EveryByteIsStored
<1>5. CASE \E i \in Inode : Modify(i, <<>>, ClockSteps)
  <2>1. \A j \in Inode : StoredBytes(data'[j])
    BY <1>2, <1>3, <1>5, DataFacts, ServerConstants
  <2> QED
    BY <2>1 DEF EveryByteIsStored, StoredBytes
<1>6. CASE /\ fd[h] \in Inode /\ buf[h] \in Image
           /\ Modify(fd[h], Overlay(buf[h], data[fd[h]]), ClockSteps \cup {0})
  <2>0. ClockSteps \cup {0} \in SUBSET Nat
    BY ServerConstants
  <2>1. Overlay(buf[h], data[fd[h]]) \in Data
    BY <1>1, <1>6, DataFacts, OverlayFacts
  <2>2. StoredBytes(Overlay(buf[h], data[fd[h]]))
    BY <1>1, <1>6, OverlayIsStored
  <2>3. \A j \in Inode : StoredBytes(data'[j])
    BY <1>2, <1>6, <2>0, <2>1, <2>2
  <2> QED
    BY <2>3 DEF EveryByteIsStored, StoredBytes
<1> QED
  BY <1>4, <1>5, <1>6, DiskStep

(* A handler's steps leave the others alone.                               *)
LEMMA OtherHandlers ==
  ASSUME ServerTypeOK, NEW h \in Handler, Handle(h), NEW g \in Handler \ {h}
  PROVE  /\ pc'[g] = pc[g] /\ fd'[g] = fd[g] /\ size'[g] = size[g] /\ buf'[g] = buf[g]
         /\ time'[g] = time[g] /\ asof'[g] = asof[g]
<1> USE DEF ServerTypeOK, Step, thread
<1>1. CASE StoreOpen(h) \/ StoreWrite(h) \/ StoreLstat(h)
  BY <1>1 DEF StoreOpen, StoreWrite, StoreLstat, LstatAndClose
<1>2. CASE FetchOpen(h) \/ FetchFstat(h) \/ FetchRead(h) \/ FetchTime(h)
  BY <1>2 DEF FetchOpen, FetchFstat, FetchRead, FetchTime
<1>3. CASE CreateOpen(h) \/ CreateLstat(h) \/ Unlink(h) \/ Delivered(h)
  BY <1>3 DEF CreateOpen, CreateLstat, LstatAndClose, Unlink, Delivered
<1> QED
  BY <1>1, <1>2, <1>3 DEF Handle

(* Handlers keep the order of times: file, handler, clock.                 *)
LEMMA TimesStep ==
  ASSUME ServerTypeOK, ServerTypeOK', HandlersInv, TimesInv, NEW h \in Handler, Handle(h)
  PROVE  TimesInv'
<1>1. /\ now \in Nat /\ now' \in Nat /\ now <= now'
      /\ \A i \in Inode : mtime[i] \in Nat /\ mtime'[i] \in Nat /\ mtime[i] <= now
      /\ \A i \in Inode : mtime'[i] = mtime[i] \/ mtime'[i] = now'
  BY DiskType DEF ServerTypeOK, TimesInv
<1>2. \A i \in Inode : mtime[i] <= mtime'[i] /\ mtime'[i] <= now'
  BY <1>1
<1>3. NSEC \in Nat
  BY ServerConstants
<1>4. ASSUME NEW g \in Handler \ {h}
      PROVE  /\ pc'[g] = "fetch_time" => asof'[g] <= mtime'[fd'[g]]
             /\ pc'[g] = "fetched" /\ now' < NSEC => asof'[g] <= time'[g]
  <2>1. /\ pc'[g] = pc[g] /\ fd'[g] = fd[g] /\ time'[g] = time[g] /\ asof'[g] = asof[g]
    BY OtherHandlers
  <2>2. asof[g] \in Nat /\ time[g] \in Int
    BY DEF ServerTypeOK
  <2>3. pc[g] = "fetch_time" => fd[g] \in Inode /\ asof[g] <= mtime[fd[g]]
    BY DEF HandlersInv, TimesInv
  <2>4. pc[g] = "fetch_time" => asof[g] <= mtime'[fd[g]]
    BY <1>1, <1>2, <2>2, <2>3
  <2>5. now' < NSEC => now < NSEC
    BY <1>1, <1>3
  <2> QED
    BY <2>1, <2>4, <2>5 DEF TimesInv
<1>5. /\ pc'[h] = "fetch_time" => asof'[h] <= mtime'[fd'[h]]
      /\ pc'[h] = "fetched" /\ now' < NSEC => asof'[h] <= time'[h]
  <2> USE DEF ServerTypeOK, Step, thread, disk
  <2>1. CASE StoreOpen(h) \/ StoreWrite(h) \/ StoreLstat(h)
    BY <2>1 DEF StoreOpen, StoreWrite, StoreLstat
  <2>2. CASE FetchOpen(h) \/ FetchFstat(h)
    BY <2>2 DEF FetchOpen, FetchFstat
  <2>3. CASE FetchRead(h)
    <3>1. /\ pc'[h] = "fetch_time" /\ asof'[h] = mtime[fd[h]] /\ fd' = fd /\ mtime' = mtime
          /\ fd[h] \in Inode
      BY <2>3 DEF FetchRead, HandlersInv
    <3> QED
      BY <1>1, <3>1
  <2>4. CASE FetchTime(h)
    <3>1. /\ pc[h] = "fetch_time" /\ pc'[h] = "fetched" /\ asof'[h] = asof[h]
          /\ time'[h] = Nsec(mtime[fd[h]]) /\ now' = now
      BY <2>4 DEF FetchTime
    <3>2. fd[h] \in Inode /\ asof[h] <= mtime[fd[h]] /\ mtime[fd[h]] <= now
      BY <3>1 DEF HandlersInv, TimesInv
    <3>3. now < NSEC => mtime[fd[h]] < NSEC
      BY <1>1, <1>3, <3>2
    <3>4. now < NSEC => Nsec(mtime[fd[h]]) = mtime[fd[h]]
      BY <1>1, <3>2, <3>3, NsecFacts
    <3> QED
      BY <3>1, <3>2, <3>4
  <2>5. CASE CreateOpen(h) \/ CreateLstat(h) \/ Unlink(h) \/ Delivered(h)
    BY <2>5 DEF CreateOpen, CreateLstat, Unlink, Delivered, Answered
  <2> QED
    BY <2>1, <2>2, <2>3, <2>4, <2>5 DEF Handle
<1> QED
  BY <1>2, <1>4, <1>5 DEF TimesInv

-----------------------------------------------------------------------------
(***************************************************************************)
(* Answers that no other handler disturbed.                                *)
(***************************************************************************)

(* The assumption: no two handlers truncate or create files within one     *)
(* tick of the clock.  The write() of a STORE may share the tick of its    *)
(* own open().                                                             *)
ClockMoves == 0 \notin ClockSteps

(* No other handler has the file truncated and is yet to write it.         *)
NoneStores(h) ==
  \A g \in Handler \ {h} : pc[g] = "store_write" => fd[g] # path

Vouching == {"store_write", "store_lstat", "fetch_fstat", "fetch_read", "fetch_time"}

(* What a handler that nobody disturbed knows of the file at each of its   *)
(* system calls, and of it ever after it has answered.                     *)
AnswerInv(h) ==
  /\ pc[h] = "store_write" => path = fd[h] /\ data[fd[h]] = <<>>
  /\ pc[h] = "store_lstat" => path = fd[h] /\ data[fd[h]] = buf[h] /\ fd[h] \in Inode
  /\ pc[h] = "fetch_fstat" => path = fd[h]
  /\ pc[h] = "fetch_read" => path = fd[h] /\ size[h] = Len(data[fd[h]])
  /\ pc[h] = "fetch_time" => path = fd[h] /\ buf[h] = data[fd[h]]
  /\ pc[h] \in Vouching => NoneStores(h)
  /\ pc[h] \in {"stored", "fetched"} /\ now < NSEC =>
       /\ time[h] <= now
       /\ path \in Inode /\ mtime[path] = time[h] => buf[h] = data[path]
       /\ NoneStores(h) \/ time[h] < now

AnswersInv == \A h \in Handler \ disturbed : AnswerInv(h)

(* A file that has its name still, or a new one, is as it was, or has a    *)
(* time that no file had before, or the time at which a STORE writes what  *)
(* it has truncated.                                                       *)
LEMMA PathStep ==
  ASSUME ClockMoves, ServerTypeOK, HandlersInv, NEW h \in Handler, Handle(h), path' \in Inode
  PROVE  \/ path' = path /\ data'[path] = data[path] /\ mtime'[path] = mtime[path]
         \/ mtime'[path'] = now' /\ now < now'
         \/ /\ mtime'[path'] = now' /\ now <= now'
            /\ pc[h] = "store_write" /\ fd[h] = path
<1>0. NoInode \notin Inode
  BY ServerConstants
<1>1. CASE StoreOpen(h)
  <2>1. PICK i \in Inode : path' = i /\ Modify(i, <<>>, ClockSteps)
    BY <1>1 DEF StoreOpen, Free, ServerTypeOK
  <2> QED
    BY <2>1, ModifyFacts, DataFacts, ServerConstants DEF ClockMoves
<1>2. CASE StoreWrite(h)
  <2>1. CASE buf[h] = <<>>
    BY <1>2, <2>1 DEF StoreWrite, disk
  <2>2. CASE buf[h] # <<>>
    <3>1. /\ fd[h] \in Inode /\ path' = path /\ pc[h] = "store_write"
          /\ Modify(fd[h], Overlay(buf[h], data[fd[h]]), ClockSteps \cup {0})
      BY <1>2, <2>2 DEF StoreWrite, HandlersInv
    <3>2. Overlay(buf[h], data[fd[h]]) \in Data /\ ClockSteps \cup {0} \in SUBSET Nat
      BY <3>1, OverlayFacts, ServerConstants DEF ServerTypeOK
    <3>3. /\ mtime'[fd[h]] = now' /\ now <= now'
          /\ \A j \in Inode \ {fd[h]} : data'[j] = data[j] /\ mtime'[j] = mtime[j]
      BY <3>1, <3>2, ModifyFacts
    <3> QED
      BY <3>1, <3>3
  <2> QED
    BY <2>1, <2>2
<1>3. CASE StoreLstat(h) \/ FetchOpen(h) \/ FetchFstat(h) \/ FetchRead(h) \/ FetchTime(h)
  BY <1>3 DEF StoreLstat, FetchOpen, FetchFstat, FetchRead, FetchTime, disk
<1>4. CASE CreateOpen(h)
  <2>1. CASE path = NoInode
    <3>1. PICK i \in Inode : path' = i /\ Modify(i, <<>>, ClockSteps)
      BY <1>4, <2>1 DEF CreateOpen, Free
    <3> QED
      BY <3>1, ModifyFacts, DataFacts, ServerConstants DEF ClockMoves
  <2>2. CASE path # NoInode
    BY <1>4, <2>2 DEF CreateOpen, disk
  <2> QED
    BY <2>1, <2>2
<1>5. CASE CreateLstat(h) \/ Unlink(h) \/ Delivered(h)
  BY <1>0, <1>5 DEF CreateLstat, Unlink, Delivered, disk
<1> QED
  BY <1>1, <1>2, <1>3, <1>4, <1>5 DEF Handle

(* A STORE comes to have the file truncated by its open(), which moves the *)
(* clock: a name never comes to an inode that is open.                     *)
LEMMA StoreEnters ==
  ASSUME ClockMoves, ServerTypeOK, HandlersInv, NEW h \in Handler, Handle(h),
         NEW g \in Handler, pc'[g] = "store_write", fd'[g] = path'
  PROVE  \/ g = h /\ now < now'
         \/ pc[g] = "store_write" /\ fd[g] = path
<1> USE DEF ServerTypeOK, Step, thread, disk
<1>1. CASE g # h
  <2>1. pc[g] = "store_write" /\ fd[g] = path' /\ path' \in Inode
    BY <1>1, OtherHandlers DEF HandlersInv
  <2>2. path' = path \/ path' = NoInode \/ path' \in Free
    BY DEF Handle, StoreOpen, StoreWrite, StoreLstat, FetchOpen, FetchFstat, FetchRead,
           FetchTime, CreateOpen, CreateLstat, Unlink, Delivered
  <2> QED
    BY <2>1, <2>2, ServerConstants DEF Free
<1>2. CASE g = h
  <2>1. StoreOpen(h)
    BY <1>2 DEF Handle, StoreWrite, StoreLstat, FetchOpen, FetchFstat, FetchRead,
                FetchTime, CreateOpen, CreateLstat, Unlink, Delivered, Answered
  <2>2. PICK i \in Inode : Modify(i, <<>>, ClockSteps)
    BY <2>1 DEF StoreOpen, Free
  <2> QED
    BY <1>2, <2>2, ModifyFacts, DataFacts, ServerConstants DEF ClockMoves
<1> QED
  BY <1>1, <1>2

(* Only a step that leaves the file alone leaves a running handler         *)
(* undisturbed.                                                            *)
LEMMA StaysUndisturbed ==
  ASSUME NEW h \in Handler, Handle(h), NEW g \in Handler, g \notin disturbed'
  PROVE  /\ g \notin disturbed \/ (g = h /\ Delivered(h))
         /\ g # h /\ g \in Running => UNCHANGED disk
<1> USE DEF Others
<1>1. CASE StoreOpen(h) \/ StoreWrite(h) \/ StoreLstat(h)
  BY <1>1 DEF StoreOpen, StoreWrite, StoreLstat
<1>2. CASE FetchOpen(h) \/ FetchFstat(h) \/ FetchRead(h) \/ FetchTime(h)
  BY <1>2 DEF FetchOpen, FetchFstat, FetchRead, FetchTime
<1>3. CASE CreateOpen(h) \/ CreateLstat(h) \/ Unlink(h) \/ Delivered(h)
  BY <1>3 DEF CreateOpen, CreateLstat, Unlink, Delivered
<1> QED
  BY <1>1, <1>2, <1>3 DEF Handle

(* A handler that is not disturbed keeps what it knows when another one    *)
(* steps.                                                                  *)
LEMMA OtherAnswers ==
  ASSUME ClockMoves, ServerTypeOK, ServerTypeOK', HandlersInv, NEW h \in Handler, Handle(h),
         NEW g \in Handler \ {h}, g \notin disturbed', AnswerInv(g)
  PROVE  AnswerInv(g)'
<1>1. /\ pc'[g] = pc[g] /\ fd'[g] = fd[g] /\ size'[g] = size[g] /\ buf'[g] = buf[g]
      /\ time'[g] = time[g]
  BY OtherHandlers
<1>2. CASE g \in Running
  <2>1. UNCHANGED <<path, data, mtime, now>>
    BY <1>2, StaysUndisturbed DEF disk
  <2>2. NoneStores(g) => NoneStores(g)'
    BY <2>1, StoreEnters DEF NoneStores, ServerTypeOK
  <2> QED
    BY <1>1, <1>2, <2>1, <2>2 DEF AnswerInv, Running, Answered
<1>3. CASE pc[g] \in {"stored", "fetched"}
  <2> SUFFICES ASSUME now' < NSEC
               PROVE  /\ time[g] <= now'
                      /\ path' \in Inode /\ mtime'[path'] = time[g] => buf[g] = data'[path']
                      /\ NoneStores(g)' \/ time[g] < now'
    BY <1>1, <1>3 DEF AnswerInv, Vouching
  <2>1. now <= now' /\ now \in Nat /\ now' \in Nat /\ time[g] \in Int /\ NSEC \in Nat
    BY DiskType, ServerConstants DEF ServerTypeOK
  <2>2. /\ time[g] <= now
        /\ path \in Inode /\ mtime[path] = time[g] => buf[g] = data[path]
        /\ NoneStores(g) \/ time[g] < now
    BY <1>3, <2>1 DEF AnswerInv
  <2>3. ASSUME path' \in Inode, mtime'[path'] = time[g]
        PROVE  buf[g] = data'[path']
    <3>1. \/ path' = path /\ data'[path] = data[path] /\ mtime'[path] = mtime[path]
          \/ mtime'[path'] = now' /\ now < now'
          \/ /\ mtime'[path'] = now' /\ now <= now'
             /\ pc[h] = "store_write" /\ fd[h] = path
      BY <2>3, PathStep
    <3>2. ~(mtime'[path'] = now' /\ now < now')
      BY <2>1, <2>2, <2>3
    <3>3. pc[h] = "store_write" /\ fd[h] = path => time[g] < now
      BY <2>2 DEF NoneStores
    <3> QED
      BY <2>1, <2>2, <2>3, <3>1, <3>2, <3>3
  <2>4. CASE ~NoneStores(g)'
    <3>1. PICK k \in Handler \ {g} : pc'[k] = "store_write" /\ fd'[k] = path'
      BY <2>4 DEF NoneStores
    <3>2. now < now' \/ ~NoneStores(g)
      BY <3>1, StoreEnters DEF NoneStores
    <3> QED
      BY <2>1, <2>2, <2>3, <3>2
  <2> QED
    BY <2>1, <2>2, <2>3, <2>4
<1>4. CASE g \notin Running /\ pc[g] \notin {"stored", "fetched"}
  BY <1>1, <1>4 DEF AnswerInv, Running, Answered, Vouching
<1> QED
  BY <1>2, <1>3, <1>4

(* An image over no bytes is the file.                                     *)
LEMMA OverlayOfNone ==
  ASSUME NEW image \in Data
  PROVE  Overlay(image, <<>>) = image
<1>1. <<>> \in Data /\ Len(<<>>) = 0 /\ Len(image) \in Nat
  BY DataFacts
<1>2. /\ Overlay(image, <<>>) \in Data
      /\ Len(Overlay(image, <<>>)) = Len(image)
      /\ \A k \in 1..Len(image) : Overlay(image, <<>>)[k] = image[k]
  BY <1>1, OverlayFacts
<1> QED
  BY <1>2, SeqEqual DEF Data

(* A handler's own step gives it what the next one relies on.              *)
LEMMA OwnAnswer ==
  ASSUME ClockMoves, ServerTypeOK, ServerTypeOK', HandlersInv, TimesInv,
         NEW h \in Handler, Handle(h),
         h \notin disturbed', h \notin disturbed => AnswerInv(h)
  PROVE  AnswerInv(h)'
<1>0. h \notin disturbed \/ Delivered(h)
  BY StaysUndisturbed
<1>a. pc'[h] \in Vouching \cup {"stored", "fetched"} => NoneStores(h)'
  <2> SUFFICES ASSUME pc'[h] \in Vouching \cup {"stored", "fetched"},
                      NEW g \in Handler \ {h}, pc'[g] = "store_write", fd'[g] = path'
               PROVE  FALSE
    BY DEF NoneStores
  <2>1. pc[g] = "store_write" /\ fd[g] = path
    BY StoreEnters
  <2>2. CASE StoreOpen(h) \/ FetchOpen(h)
    BY <2>1, <2>2 DEF StoreOpen, FetchOpen, Meets
  <2>3. CASE pc[h] \in Vouching
    <3>1. h \notin disturbed
      BY <1>0, <2>3 DEF Delivered, Vouching, Answered
    <3> QED
      BY <2>1, <2>3, <3>1 DEF AnswerInv, NoneStores
  <2>4. CASE StoreWrite(h) \/ StoreLstat(h) \/ FetchFstat(h) \/ FetchRead(h) \/ FetchTime(h)
    BY <2>3, <2>4 DEF StoreWrite, StoreLstat, FetchFstat, FetchRead, FetchTime, Vouching
  <2>5. CASE CreateOpen(h) \/ CreateLstat(h) \/ Unlink(h) \/ Delivered(h)
    BY <2>5 DEF CreateOpen, CreateLstat, Unlink, Delivered, Step, thread, Vouching, ServerTypeOK
  <2> QED
    BY <2>2, <2>4, <2>5 DEF Handle
<1>1. ASSUME NEW i \in Inode
      PROVE  /\ mtime[i] \in Nat /\ now \in Nat /\ mtime[i] <= now
             /\ Nsec(mtime[i]) \in Nat /\ Nsec(mtime[i]) <= now
             /\ now < NSEC => Nsec(mtime[i]) = mtime[i]
  <2>1. mtime[i] \in Nat /\ now \in Nat /\ mtime[i] <= now /\ NSEC \in Nat
    BY ServerConstants DEF ServerTypeOK, TimesInv
  <2> QED
    BY <2>1, NsecFacts
<1>b. StoreOpen(h) => \E i \in Inode : /\ path' = i /\ fd' = [fd EXCEPT ![h] = i]
                                      /\ Modify(i, <<>>, ClockSteps)
  <2>1. path \in Inode \cup {NoInode} /\ Free \subseteq Inode
    BY DEF ServerTypeOK, Free
  <2> QED
    BY <2>1 DEF StoreOpen
<1> USE <1>a DEF ServerTypeOK, Step, thread, disk, Answered, Vouching
<1>2. CASE StoreOpen(h)
  <2>1. PICK i \in Inode : /\ path' = i /\ fd' = [fd EXCEPT ![h] = i]
                           /\ Modify(i, <<>>, ClockSteps)
    BY <1>b, <1>2
  <2>2. data'[i] = <<>>
    BY <2>1, ModifyFacts, DataFacts, ServerConstants
  <2> QED
    BY <1>2, <2>1, <2>2 DEF StoreOpen, AnswerInv
<1>3. CASE StoreWrite(h)
  <2>1. /\ pc[h] = "store_write" /\ pc'[h] = "store_lstat" /\ fd' = fd /\ buf' = buf
        /\ fd[h] \in Inode /\ buf[h] \in Data /\ path' = path
    BY <1>3, DataFacts DEF StoreWrite, HandlersInv
  <2>2. h \notin disturbed
    BY <1>0, <2>1 DEF Delivered
  <2>3. path = fd[h] /\ data[fd[h]] = <<>>
    BY <2>1, <2>2 DEF AnswerInv
  <2>4. data'[fd[h]] = buf[h]
    <3>1. CASE buf[h] = <<>>
      BY <1>3, <2>3, <3>1 DEF StoreWrite
    <3>2. CASE buf[h] # <<>>
      <4>1. Modify(fd[h], buf[h], ClockSteps \cup {0})
        BY <1>3, <2>1, <2>3, <3>2, OverlayOfNone DEF StoreWrite
      <4>2. ClockSteps \cup {0} \in SUBSET Nat
        BY ServerConstants
      <4> QED
        BY <2>1, <4>1, <4>2, ModifyFacts
    <3> QED
      BY <3>1, <3>2
  <2> QED
    BY <2>1, <2>3, <2>4 DEF AnswerInv
<1>4. CASE StoreLstat(h)
  <2>1. /\ pc[h] = "store_lstat" /\ pc'[h] = "stored" /\ buf' = buf /\ LstatAndClose(h)
        /\ UNCHANGED <<path, data, mtime, now>>
    BY <1>4 DEF StoreLstat
  <2>2. path \in Inode /\ data[path] = buf[h]
    BY <1>0, <2>1 DEF AnswerInv, Delivered
  <2>3. time'[h] = Nsec(mtime[path])
    <3>1. path # NoInode
      BY <2>2, ServerConstants
    <3> QED
      BY <2>1, <3>1 DEF LstatAndClose
  <2> QED
    BY <1>1, <2>1, <2>2, <2>3 DEF AnswerInv
<1>5. CASE FetchOpen(h)
  BY <1>5 DEF FetchOpen, AnswerInv
<1>6. CASE FetchFstat(h)
  <2>1. pc[h] = "fetch_fstat" /\ h \notin disturbed
    BY <1>0, <1>6 DEF FetchFstat, Delivered
  <2> QED
    BY <1>6, <2>1 DEF FetchFstat, AnswerInv
<1>7. CASE FetchRead(h)
  <2>1. pc[h] = "fetch_read" /\ h \notin disturbed /\ fd[h] \in Inode
    BY <1>0, <1>7 DEF FetchRead, Delivered, HandlersInv
  <2>2. path = fd[h] /\ size[h] = Len(data[fd[h]])
    BY <2>1 DEF AnswerInv
  <2>3. data[fd[h]] \in Data /\ size[h] \in Nat
    BY <2>1
  <2>4. Read(data[fd[h]], size[h]) = data[fd[h]]
    BY <2>2, <2>3, ReadFacts
  <2> QED
    BY <1>7, <2>2, <2>4 DEF FetchRead, AnswerInv
<1>8. CASE FetchTime(h)
  <2>1. pc[h] = "fetch_time" /\ h \notin disturbed /\ fd[h] \in Inode
    BY <1>0, <1>8 DEF FetchTime, Delivered, HandlersInv
  <2>2. path = fd[h] /\ buf[h] = data[fd[h]]
    BY <2>1 DEF AnswerInv
  <2>3. /\ pc'[h] = "fetched" /\ buf' = buf /\ time'[h] = Nsec(mtime[path])
        /\ UNCHANGED <<path, data, mtime, now>>
    BY <1>8, <2>2 DEF FetchTime
  <2> QED
    BY <1>1, <2>1, <2>2, <2>3 DEF AnswerInv
<1>9. CASE CreateOpen(h) \/ CreateLstat(h)
  BY <1>9 DEF CreateOpen, CreateLstat, AnswerInv
<1>10. CASE Unlink(h)
  BY <1>10 DEF Unlink, AnswerInv
<1>11. CASE Delivered(h)
  BY <1>11 DEF Delivered, AnswerInv
<1> QED
  BY <1>2, <1>3, <1>4, <1>5, <1>6, <1>7, <1>8, <1>9, <1>10, <1>11 DEF Handle

-----------------------------------------------------------------------------
(***************************************************************************)
(* The theorems.                                                           *)
(***************************************************************************)
LEMMA ServerInitInv == ServerInit => ServerInv /\ AnswersInv
<1> SUFFICES ASSUME ServerInit PROVE ServerInv /\ AnswersInv
  OBVIOUS
<1> USE DEF ServerInit
<1>1. ServerTypeOK
  BY DataFacts DEF ServerTypeOK, PC, Running
<1>2. HandlersInv /\ TimesInv /\ AnswersInv
  BY DEF HandlersInv, TimesInv, AnswersInv, AnswerInv, Vouching
<1>3. EveryByteIsStored
  BY DataFacts DEF EveryByteIsStored
<1> QED
  BY <1>1, <1>2, <1>3 DEF ServerInv

(* Every step keeps the invariant.                                         *)
LEMMA ServerNextInv == ServerInv /\ [ServerNext]_serverVars => ServerInv'
<1> SUFFICES ASSUME ServerInv, [ServerNext]_serverVars PROVE ServerInv'
  OBVIOUS
<1> USE DEF ServerInv
<1>1. ASSUME NEW h \in Handler, Handle(h) PROVE ServerInv'
  BY <1>1, TypeStep, BytesStep, TimesStep
<1>2. CASE UNCHANGED serverVars
  BY <1>2 DEF serverVars, disk, thread, ServerTypeOK, HandlersInv, EveryByteIsStored,
              TimesInv, Running
<1> QED
  BY <1>1, <1>2 DEF ServerNext

(* It holds in every reachable state.                                      *)
LEMMA ServerInvariant == ServerSpec => []ServerInv
<1> QED
  BY ServerInitInv, ServerNextInv, PTL DEF ServerSpec

(* Every reachable state of the handlers is well typed, and every path     *)
(* through a handler closes the descriptor it opened.  The time in a reply *)
(* is an integer and no more: after an lstat() that failed it is whatever  *)
(* was in memory.                                                          *)
THEOREM ServerTypeCorrect == ServerSpec => []ServerTypeOK
<1>1. ServerInv => ServerTypeOK
  BY DEF ServerInv
<1> QED
  BY <1>1, ServerInvariant, PTL

(* However many stores interleave, no byte of a file is ever out of place. *)
THEOREM BytesAreStored == ServerSpec => []EveryByteIsStored
<1>1. ServerInv => EveryByteIsStored
  BY DEF ServerInv
<1> QED
  BY <1>1, ServerInvariant, PTL

(* However many handlers interleave, the time that a fetch sends is not    *)
(* older than the data it sends.                                           *)
THEOREM FetchesAreNotBehind == ServerSpec => []FetchTimeNotBehindData
<1>1. ServerInv => FetchTimeNotBehindData
  BY DEF ServerInv, TimesInv, FetchTimeNotBehindData
<1> QED
  BY <1>1, ServerInvariant, PTL

(* Within a second of the clock, and when no two handlers truncate or      *)
(* create files within one tick of it, the answer of a handler that no     *)
(* other one disturbed vouches for nothing but the file, for as long as    *)
(* the client has it.  A handler is disturbed when another one changes the *)
(* file while it runs, or has truncated it and not yet written it when it  *)
(* begins; a STORE may truncate and write within one tick.                 *)
THEOREM UndisturbedAnswers ==
  ASSUME ClockMoves
  PROVE  ServerSpec => [](now < NSEC => UndisturbedAnswersVouch)
<1>1. ServerInv /\ ServerInv' /\ AnswersInv /\ [ServerNext]_serverVars => AnswersInv'
  <2> SUFFICES ASSUME ServerInv, ServerInv', AnswersInv, [ServerNext]_serverVars
               PROVE  AnswersInv'
    OBVIOUS
  <2> USE DEF ServerInv
  <2>1. ASSUME NEW h \in Handler, Handle(h), NEW g \in Handler, g \notin disturbed'
        PROVE  AnswerInv(g)'
    <3>1. CASE g = h
      BY <2>1, <3>1, ClockMoves, OwnAnswer DEF AnswersInv
    <3>2. CASE g # h
      <4>1. AnswerInv(g)
        BY <2>1, <3>2, StaysUndisturbed DEF AnswersInv
      <4> QED
        BY <2>1, <3>2, <4>1, ClockMoves, OtherAnswers
    <3> QED
      BY <3>1, <3>2
  <2>2. CASE UNCHANGED serverVars
    BY <2>2 DEF serverVars, disk, thread, AnswersInv, AnswerInv, NoneStores
  <2> QED
    BY <2>1, <2>2 DEF ServerNext, AnswersInv
<1>2. ServerInv /\ AnswersInv => (now < NSEC => UndisturbedAnswersVouch)
  <2> SUFFICES ASSUME ServerInv, AnswersInv, now < NSEC, NEW h \in Handler \ disturbed,
                      pc[h] \in {"stored", "fetched"}, path # NoInode,
                      time[h] = Nsec(mtime[path])
               PROVE  buf[h] = data[path]
    BY DEF UndisturbedAnswersVouch, Vouches
  <2>1. path \in Inode /\ mtime[path] \in Nat /\ now \in Nat /\ mtime[path] <= now /\ NSEC \in Nat
    BY ServerConstants DEF ServerInv, ServerTypeOK, TimesInv
  <2>2. time[h] = mtime[path]
    BY <2>1, NsecFacts
  <2> QED
    BY <2>1, <2>2 DEF AnswersInv, AnswerInv
<1> QED
  BY <1>1, <1>2, ServerInitInv, ServerInvariant, PTL DEF ServerSpec

=============================================================================
