--------------------------- MODULE AfsCacheProofs ---------------------------
(***************************************************************************)
(* What the caching protocol of AfsCache guarantees for every number of    *)
(* machines, descriptors, contents, retries and clock steps.               *)
(***************************************************************************)
EXTENDS AfsCache, SequenceTheorems, TLAPS

-----------------------------------------------------------------------------
(***************************************************************************)
(* Lemmas about the pieces of the handlers.                                *)
(***************************************************************************)

(* Every descriptor is on a machine.                                      *)
LEMMA HostType == \A t \in Thread : host[t] \in Client
BY ConstantsOK

(* The images the protocol handles are sequences of blocks.                *)
LEMMA DataFacts ==
  /\ <<>> \in Data
  /\ <<Junk>> \in Data
  /\ \A d \in Data : Len(d) \in Nat
  /\ \A b \in Block : <<b>> \in Data
  /\ \A d, e \in Data : d \o e \in Data
BY EmptySeq, LenProperties, ConcatProperties DEF Data

(* pwrite() of a block within a file, or at its end, leaves a file.        *)
LEMMA PWriteType ==
  ASSUME NEW d \in Data, NEW b \in Block, NEW off \in 0..Len(d)
  PROVE  PWrite(d, off, b) \in Data
<1>1. Len(d) \in Nat
  BY LenProperties DEF Data
<1>2. CASE off < Len(d)
  <2>1. off + 1 \in 1..Len(d)
    BY <1>1, <1>2
  <2> QED
    BY <1>2, <2>1, ExceptSeq DEF Data, PWrite
<1>3. CASE ~(off < Len(d))
  <2>1. Append(d, b) \in Data
    BY AppendProperties DEF Data
  <2> QED
    BY <1>3, <2>1 DEF PWrite
<1> QED
  BY <1>2, <1>3

(* What is cut off by ftruncate() leaves a file.                           *)
LEMMA SubSeqType ==
  ASSUME NEW d \in Data, NEW n \in 0..(Len(d) - 1)
  PROVE  SubSeq(d, 1, n) \in Data
<1>1. Len(d) \in Nat /\ \A i \in 1..Len(d) : d[i] \in Block \cup {Junk}
  BY LenProperties, ElementOfSeq DEF Data
<1>2. \A i \in 1..n : d[i] \in Block \cup {Junk}
  BY <1>1
<1> QED
  BY <1>2, SubSeqProperties DEF Data

(* Reading a whole file yields an image, even when the file is missing.   *)
LEMMA ImagesType ==
  ASSUME NEW d \in Data \cup {NoFile}, NEW e \in Images(d)
  PROVE  e \in Data
BY DataFacts DEF Images

(* The time the server reports is the file's time as long as the second    *)
(* lasts.                                                                  *)
LEMMA NsecFacts ==
  ASSUME NEW time \in Nat
  PROVE  /\ Nsec(time) \in Nat
         /\ Nsec(time) <= time
         /\ time < NSEC => Nsec(time) = time
<1>1. NSEC \in Nat /\ NSEC > 0
  BY ConstantsOK
<1> QED
  BY <1>1 DEF Nsec

(* write() at offset 0 leaves a file; over an empty one, just the image.   *)
LEMMA OverlayFacts ==
  ASSUME NEW image \in Data, NEW old \in Data
  PROVE  /\ Overlay(image, old) \in Data
         /\ Overlay(image, <<>>) = image
<1>1. image \in Seq(Block \cup {Junk}) /\ Len(image) \in Nat /\ Len(old) \in Nat
  BY LenProperties DEF Data
<1>2. \A i \in Len(image) + 1 .. Len(old) : old[i] \in Block \cup {Junk}
  BY <1>1, ElementOfSeq DEF Data
<1>3. SubSeq(old, Len(image) + 1, Len(old)) \in Data
  BY <1>1, <1>2, SubSeqProperties DEF Data
<1>4. SubSeq(<<>>, Len(image) + 1, Len(<<>>)) = <<>>
  BY <1>1, EmptySeq, SubSeqProperties
<1> QED
  BY <1>1, <1>3, <1>4, DataFacts, ConcatEmptySeq DEF Overlay

(* read() into a buffer of any size leaves an image, and into one of the   *)
(* size of the file the file.                                              *)
LEMMA ReadFacts ==
  ASSUME NEW d \in Data, NEW n \in Nat
  PROVE  /\ ReadInto(n, d) \in Data /\ Len(ReadInto(n, d)) = n
         /\ ReadInto(Len(d), d) = d
<1>1. Len(d) \in Nat /\ d \in [1..Len(d) -> Block \cup {Junk}]
  BY LenProperties DEF Data
<1>2. ReadInto(n, d) \in [1..n -> Block \cup {Junk}]
  BY <1>1 DEF ReadInto
<1>3. ReadInto(n, d) \in Data /\ Len(ReadInto(n, d)) = n
  BY <1>2 DEF Data
<1>4. ReadInto(Len(d), d) = d
  BY <1>1 DEF ReadInto
<1> QED
  BY <1>3, <1>4

-----------------------------------------------------------------------------
(***************************************************************************)
(* Type correctness.                                                       *)
(***************************************************************************)

(* A thread inside OPEN whose descriptor still denotes the cached file has *)
(* one: TypeOK is inductive only with this, since OPEN appends to it.      *)
LinkedIsCached == \A t \in linked : cache[host[t]] # NoFile

(* A handler between two of its system calls has a file: an UNLINK finds   *)
(* none running, or is not among the calls.                                *)
HandledExists ==
  /\ Running # {} => file # NoFile
  /\ \A t \in Thread : pc[t] = "unlink" => "unlink" \in Calls

(* Moving on to another place with an image of a file is well typed.       *)
LEMMA GotoType ==
  ASSUME TypeOK, NEW t \in Thread, NEW q \in PC, NEW d \in Data, Goto(t, q, d)
  PROVE  /\ pc' \in [Thread -> PC]
         /\ stage' \in [Thread -> Stage]
         /\ reply' \in [Thread -> Reply]
         /\ buf' \in [Thread -> Data]
BY DataFacts DEF Goto, TypeOK, Stage, Reply, NoReply

(* An answer with a time and an image is a reply.                         *)
LEMMA AnswerType ==
  ASSUME TypeOK, NEW t \in Thread, NEW err \in BOOLEAN, NEW time \in Nat,
         NEW data \in Data, Answer(t, err, time, data)
  PROVE  /\ stage' \in [Thread -> Stage]
         /\ reply' \in [Thread -> Reply]
         /\ UNCHANGED <<machine, pc, buf>>
BY DEF Answer, TypeOK, Stage, Reply

(* The server's clock stays a number.                                     *)
LEMMA TouchType == ASSUME TypeOK, Touch PROVE mtime' \in Nat
BY ConstantsOK DEF TypeOK, Touch

(* A step of a handler concerns the server and the thread's own reply.     *)
LEMMA ServeFrame ==
  ASSUME TypeOK, NEW t \in Thread, Serve(t)
  PROVE  /\ UNCHANGED <<cache, stamp, linked, retries, pc, buf>>
         /\ \A u \in Thread : u # t => reply'[u] = reply[u] /\ stage'[u] = stage[u]
         /\ stage'[t] # "begin"
<1> USE DEF Answer, Advance, machine, TypeOK
<1>1. CASE ServeGetattr(t) \/ ServeUnlink(t) \/ Refuse(t)
  BY <1>1 DEF ServeGetattr, ServeUnlink, Refuse
<1>2. CASE FetchOpen(t) \/ FetchRead(t) \/ FetchFstat(t)
  BY <1>2 DEF FetchOpen, FetchRead, FetchFstat
<1>3. CASE StoreOpen(t) \/ StoreWrite(t) \/ StoreLstat(t)
  BY <1>3 DEF StoreOpen, StoreWrite, StoreLstat
<1>4. CASE CreateOpen(t) \/ CreateLstat(t)
  BY <1>4 DEF CreateOpen, CreateLstat
<1> QED
  BY <1>1, <1>2, <1>3, <1>4 DEF Serve

(* The initial states are well typed.                                     *)
LEMMA InitType == Init => TypeOK
BY ConstantsOK, DataFacts DEF Init, TypeOK, Stamp, NotFound, PC, Rpcs, Stage, Reply, NoReply

(* One step of the server.                                                 *)
LEMMA ServeType ==
  ASSUME TypeOK, HandledExists, NEW t \in Thread, Serve(t)
  PROVE  TypeOK'
<1> USE DEF TypeOK, server, machine
<1>1. CASE ServeGetattr(t)
  BY <1>1, AnswerType, NsecFacts, DataFacts DEF ServeGetattr
<1>2. CASE FetchOpen(t) /\ file = NoFile
  BY <1>2, AnswerType, NsecFacts, DataFacts DEF FetchOpen
<1>3. CASE FetchOpen(t) /\ file # NoFile
  <2>1. ReadInto(Len(file), <<>>) \in Data
    BY <1>3, ReadFacts, DataFacts
  <2>2. reply' \in [Thread -> Reply]
    BY <1>3, <2>1 DEF FetchOpen, Reply
  <2> QED
    BY <1>3, <2>2 DEF FetchOpen, Advance, Stage
<1>4. CASE FetchRead(t)
  <2>1. file \in Data
    BY <1>4 DEF FetchRead, Handled, HandledExists, Running
  <2>2. reply[t].data \in Data
    BY DEF Reply
  <2>3. ReadInto(Len(reply[t].data), file) \in Data
    BY <2>1, <2>2, ReadFacts, DataFacts
  <2>4. reply' = [reply EXCEPT ![t].data = ReadInto(Len(reply[t].data), file)]
    BY <1>4 DEF FetchRead
  <2>5. reply' \in [Thread -> Reply]
    BY <2>3, <2>4 DEF Reply
  <2> QED
    BY <1>4, <2>5 DEF FetchRead, Advance, Stage
<1>5. CASE FetchFstat(t)
  <2>1. reply[t].data \in Data
    BY DEF Reply
  <2> QED
    BY <1>5, <2>1, AnswerType, NsecFacts DEF FetchFstat
<1>6. CASE StoreOpen(t)
  BY <1>6, TouchType, DataFacts DEF StoreOpen, Advance, Stage
<1>7. CASE StoreWrite(t)
  <2>1. file \in Data /\ buf[t] \in Data
    BY <1>7 DEF StoreWrite, Handled, HandledExists, Running
  <2>2. file' \in Data
    BY <1>7, <2>1, OverlayFacts DEF StoreWrite
  <2>3. mtime' \in Nat
    <3>1. mtime' = mtime \/ \E s \in ClockSteps \cup {0} : mtime' = mtime + s
      BY <1>7 DEF StoreWrite
    <3> QED
      BY <3>1, ConstantsOK
  <2> QED
    BY <1>7, <2>2, <2>3 DEF StoreWrite, Advance, Stage
<1>8. CASE StoreLstat(t)
  BY <1>8, AnswerType, NsecFacts, DataFacts DEF StoreLstat
<1>9. CASE CreateOpen(t)
  BY <1>9, TouchType, DataFacts DEF CreateOpen, Advance, Stage
<1>10. CASE CreateLstat(t)
  BY <1>10, AnswerType, NsecFacts, DataFacts DEF CreateLstat
<1>11. CASE ServeUnlink(t)
  BY <1>11, AnswerType, DataFacts DEF ServeUnlink
<1>12. CASE Refuse(t)
  BY <1>12, AnswerType, DataFacts DEF Refuse
<1> QED
  BY <1>1, <1>2, <1>3, <1>4, <1>5, <1>6, <1>7, <1>8, <1>9, <1>10, <1>11, <1>12
  DEF Serve

(* One step of a call inside afs_OPEN.                                     *)
LEMMA JudgeType ==
  ASSUME TypeOK, NEW t \in Thread, NEW stale \in BOOLEAN, Judge(t, stale)
  PROVE  /\ cache' \in [Client -> Data \cup {NoFile}]
         /\ linked' \subseteq Thread
         /\ pc' \in [Thread -> PC]
         /\ stage' \in [Thread -> Stage]
         /\ reply' \in [Thread -> Reply]
         /\ buf' \in [Thread -> Data]
BY HostType, GotoType, DataFacts DEF Judge, TruncateOwn, TypeOK, PC, Rpcs

(* retry_req counts from one again when a call succeeds or gives up.      *)
LEMMA ResetType ==
  ASSUME TypeOK, NEW t \in Thread, ResetRetries(t)
  PROVE  retries' \in [Client -> 1..(RetryLimit + 1)]
BY ConstantsOK, HostType DEF ResetRetries, TypeOK

(* put() of a time or of the flag leaves an entry.                        *)
LEMMA PutType ==
  ASSUME TypeOK, NEW t \in Thread, NEW time \in Stamp, Put(t, time)
  PROVE  stamp' \in [Client -> Stamp]
BY HostType DEF Put, TypeOK

(* A reply carries a time that a hash-table entry can hold, and an image.  *)
LEMMA ReplyType ==
  ASSUME TypeOK, NEW t \in Thread
  PROVE  /\ reply[t].err \in BOOLEAN
         /\ reply[t].time \in Nat /\ reply[t].time \in Stamp
         /\ reply[t].data \in Data
BY DEF TypeOK, Reply, Stamp

(* One step of afs_OPEN.                                                  *)
LEMMA OpenType ==
  ASSUME TypeOK, LinkedIsCached, NEW t \in Thread,
         OpenBegin(t) \/ OpenCompare(t) \/ OpenFetched(t) \/ OpenInstall(t)
  PROVE  TypeOK'
<1>1. CASE OpenBegin(t)
  <2>1. cache' \in [Client -> Data \cup {NoFile}]
    BY <1>1, HostType, DataFacts DEF OpenBegin, TypeOK
  <2>2. PICK q \in PC : Goto(t, q, <<>>)
    BY <1>1 DEF OpenBegin, PC, Rpcs
  <2> QED
    BY <1>1, <2>1, <2>2, GotoType, DataFacts DEF OpenBegin, TypeOK, server
<1>2. CASE OpenCompare(t)
  BY <1>2, JudgeType, ResetType DEF OpenCompare, TypeOK, server
<1>3. CASE OpenFetched(t)
  <2>1. Goto(t, "install", reply[t].data) /\ "install" \in PC
    BY <1>3 DEF OpenFetched, PC
  <2>2. Put(t, reply[t].time) /\ ResetRetries(t)
    BY <1>3 DEF OpenFetched
  <2>3. UNCHANGED <<file, mtime, cache, linked>>
    BY <1>3 DEF OpenFetched, server
  <2> QED
    BY <2>1, <2>2, <2>3, ReplyType, GotoType, PutType, ResetType DEF TypeOK
<1>4. CASE OpenInstall(t)
  <2>1. cache' \in [Client -> Data \cup {NoFile}]
    <3>1. CASE t \in linked
      <4>1. cache[host[t]] \in Data /\ buf[t] \in Data
        BY <3>1, HostType DEF LinkedIsCached, TypeOK
      <4> QED
        BY <1>4, <3>1, <4>1, DataFacts DEF OpenInstall, TypeOK
    <3>2. CASE t \notin linked
      BY <1>4, <3>2 DEF OpenInstall, TypeOK
    <3> QED
      BY <3>1, <3>2
  <2>2. Goto(t, "open", <<>>) /\ "open" \in PC
    BY <1>4 DEF OpenInstall, PC
  <2>3. linked' \subseteq Thread /\ UNCHANGED <<file, mtime, stamp, retries>>
    BY <1>4 DEF OpenInstall, TypeOK, server
  <2> QED
    BY <2>1, <2>2, <2>3, DataFacts, GotoType DEF TypeOK
<1> QED
  BY <1>1, <1>2, <1>3, <1>4

(* One step of another call.                                               *)
LEMMA CallType ==
  ASSUME TypeOK, NEW t \in Thread,
         Create(t) \/ CreateReturn(t) \/ Write(t) \/ Release(t)
           \/ StoreReturn(t) \/ Unlink(t) \/ UnlinkReturn(t)
  PROVE  TypeOK'
<1>1. CASE Create(t)
  <2>1. cache' \in [Client -> Data \cup {NoFile}]
    BY <1>1, HostType, DataFacts DEF Create, TypeOK
  <2>2. Goto(t, "create", <<>>) /\ "create" \in PC
    BY <1>1 DEF Create, PC, Rpcs
  <2> QED
    BY <1>1, <2>1, <2>2, GotoType, DataFacts DEF Create, TypeOK, server
<1>2. CASE CreateReturn(t)
  <2>1. PICK q \in PC : Goto(t, q, <<>>)
    BY <1>2 DEF CreateReturn, PC
  <2> QED
    BY <1>2, <2>1, ReplyType, GotoType, PutType, DataFacts
    DEF CreateReturn, TypeOK, server
<1>3. CASE Write(t)
  <2>1. cache' \in [Client -> Data \cup {NoFile}]
    <3>1. PICK old \in Images(cache[host[t]]), b \in Block :
            \E off \in 0..Len(old) :
              cache' = [cache EXCEPT ![host[t]] = PWrite(old, off, b)]
      BY <1>3 DEF Write
    <3>2. old \in Data
      BY HostType, ImagesType DEF TypeOK
    <3> QED
      BY <3>1, <3>2, HostType, PWriteType DEF TypeOK
  <2>2. stamp' \in [Client -> Stamp]
    BY <1>3, PutType DEF Write, Stamp
  <2> QED
    BY <1>3, <2>1, <2>2 DEF Write, TypeOK, server
<1>4. CASE Release(t)
  <2>1. PICK q \in PC, d \in Data : Goto(t, q, d)
    BY <1>4, HostType, ImagesType, DataFacts DEF Release, TypeOK, PC, Rpcs
  <2> QED
    BY <1>4, <2>1, GotoType DEF Release, TypeOK, server, machine
<1>5. CASE StoreReturn(t)
  <2>1. Goto(t, "idle", <<>>) /\ "idle" \in PC
    BY <1>5 DEF StoreReturn, PC
  <2>2. Put(t, reply[t].time) /\ ResetRetries(t)
        /\ UNCHANGED <<server, cache, linked>>
    BY <1>5 DEF StoreReturn
  <2> QED
    BY <2>1, <2>2, ReplyType, GotoType, PutType, ResetType, DataFacts
    DEF TypeOK, server
<1>6. CASE Unlink(t)
  <2>1. Goto(t, "unlink", <<>>) /\ "unlink" \in PC
    BY <1>6 DEF Unlink, PC, Rpcs
  <2>2. cache' \in [Client -> Data \cup {NoFile}] /\ linked' \subseteq Thread
    BY <1>6, HostType DEF Unlink, TypeOK
  <2> QED
    BY <1>6, <2>1, <2>2, GotoType, DataFacts DEF Unlink, TypeOK, server
<1>7. CASE UnlinkReturn(t)
  <2>1. Goto(t, "idle", <<>>) /\ "idle" \in PC
    BY <1>7 DEF UnlinkReturn, PC
  <2> QED
    BY <1>7, <2>1, GotoType, DataFacts DEF UnlinkReturn, TypeOK, server, machine
<1> QED
  BY <1>1, <1>2, <1>3, <1>4, <1>5, <1>6, <1>7

(* A truncate of the cached file.                                         *)
LEMMA TruncateType ==
  ASSUME TypeOK, NEW c \in Client, Truncate(c)
  PROVE  TypeOK'
<1>1. PICK n \in 0..(Len(cache[c]) - 1) :
        cache' = [cache EXCEPT ![c] = SubSeq(cache[c], 1, n)]
  BY DEF Truncate
<1>2. cache[c] \in Data
  BY DEF Truncate, TypeOK
<1>3. SubSeq(cache[c], 1, n) \in Data
  BY <1>2, SubSeqType
<1> QED
  BY <1>1, <1>3 DEF Truncate, TypeOK, server

(* A failed RPC.                                                           *)
LEMMA FailType ==
  ASSUME TypeOK, NEW t \in Thread,
         Retry(t) \/ GetattrGiveUp(t) \/ FetchGiveUp(t) \/ StoreGiveUp(t)
           \/ FailOnce(t)
  PROVE  TypeOK'
<1>1. CASE Retry(t)
  <2>1. retries' \in [Client -> 1..(RetryLimit + 1)]
    BY <1>1, ConstantsOK, HostType DEF Retry, TypeOK
  <2>2. Goto(t, pc[t], buf[t]) /\ pc[t] \in PC /\ buf[t] \in Data
    BY <1>1 DEF Retry, TypeOK
  <2> QED
    BY <1>1, <2>1, <2>2, GotoType DEF Retry, TypeOK, server
<1>2. CASE GetattrGiveUp(t)
  BY <1>2, JudgeType, ResetType DEF GetattrGiveUp, GiveUp, TypeOK, server
<1>3. CASE FetchGiveUp(t)
  <2>1. PICK q \in PC, d \in Data : Goto(t, q, d)
    BY <1>3, DataFacts DEF FetchGiveUp, PC
  <2>2. linked' \subseteq Thread
    BY <1>3 DEF FetchGiveUp, TypeOK
  <2> QED
    BY <1>3, <2>1, <2>2, GotoType, ResetType
    DEF FetchGiveUp, GiveUp, TypeOK, server
<1>4. CASE StoreGiveUp(t)
  <2>1. Goto(t, "idle", <<>>) /\ "idle" \in PC
    BY <1>4 DEF StoreGiveUp, PC
  <2> QED
    BY <1>4, <2>1, GotoType, ResetType, DataFacts
    DEF StoreGiveUp, GiveUp, TypeOK, server
<1>5. CASE FailOnce(t)
  <2>1. PICK q \in PC : Goto(t, q, <<>>)
    BY <1>5 DEF FailOnce, PC
  <2> QED
    BY <1>5, <2>1, GotoType, DataFacts DEF FailOnce, TypeOK, server, machine
<1> QED
  BY <1>1, <1>2, <1>3, <1>4, <1>5

(* No step makes a state ill-typed.                                       *)
LEMMA StepType ==
  TypeOK /\ LinkedIsCached /\ HandledExists /\ [Next]_vars => TypeOK'
<1> SUFFICES ASSUME TypeOK, LinkedIsCached, HandledExists, [Next]_vars
             PROVE  TypeOK'
  OBVIOUS
<1>1. ASSUME NEW t \in Thread, Progress(t) \/ Call(t)
      PROVE  TypeOK'
  BY <1>1, ServeType, OpenType, CallType, FailType DEF Progress, Call
<1>2. ASSUME NEW c \in Client, Truncate(c)
      PROVE  TypeOK'
  BY <1>2, TruncateType
<1>3. CASE UNCHANGED vars
  BY <1>3 DEF vars, TypeOK
<1> QED
  BY <1>1, <1>2, <1>3 DEF Next

(* No step takes the cached file from under a descriptor OPEN works on.   *)
LEMMA StepLinked ==
  TypeOK /\ LinkedIsCached /\ HandledExists /\ [Next]_vars => LinkedIsCached'
<1> SUFFICES ASSUME TypeOK, LinkedIsCached, HandledExists, [Next]_vars,
                    NEW u \in linked'
             PROVE  cache'[host[u]] # NoFile
  BY DEF LinkedIsCached
<1>1. TypeOK' /\ u \in Thread
  <2>1. TypeOK'
    BY StepType
  <2> QED
    BY <2>1 DEF TypeOK
<1>2. <<>> # NoFile
  BY ConstantsOK, DataFacts
<1>3. ASSUME NEW t \in Thread, Progress(t) \/ Call(t)
      PROVE  cache'[host[u]] # NoFile
  <2>1. CASE OpenBegin(t)
    BY <2>1, <1>1, <1>2, HostType DEF OpenBegin, LinkedIsCached, TypeOK
  <2>2. CASE OpenCompare(t) \/ GetattrGiveUp(t)
    <3>1. PICK stale \in BOOLEAN : Judge(t, stale)
      BY <2>2 DEF OpenCompare, GetattrGiveUp
    <3> QED
      BY <3>1, <1>1, <1>2, HostType DEF Judge, TruncateOwn, LinkedIsCached, TypeOK
  <2>3. CASE OpenInstall(t)
    <3>1. CASE t \in linked
      <4>1. cache[host[t]] \in Data /\ buf[t] \in Data
        BY <3>1, HostType DEF LinkedIsCached, TypeOK
      <4>2. cache[host[t]] \o buf[t] # NoFile
        BY <4>1, ConstantsOK, DataFacts
      <4> QED
        BY <2>3, <3>1, <4>2, <1>1, HostType DEF OpenInstall, LinkedIsCached, TypeOK
    <3>2. CASE t \notin linked
      BY <2>3, <3>2 DEF OpenInstall, LinkedIsCached
    <3> QED
      BY <3>1, <3>2
  <2>4. CASE Create(t)
    BY <2>4, <1>1, <1>2, HostType DEF Create, LinkedIsCached, TypeOK
  <2>5. CASE Write(t)
    <3>1. u \in linked /\ host[u] # host[t]
      BY <2>5, <1>1 DEF Write, On
    <3> QED
      BY <2>5, <3>1, HostType, <1>1 DEF Write, LinkedIsCached, TypeOK
  <2>6. CASE Unlink(t)
    <3>1. u \in linked /\ host[u] # host[t]
      BY <2>6, <1>1 DEF Unlink, On
    <3> QED
      BY <2>6, <3>1, HostType, <1>1 DEF Unlink, LinkedIsCached, TypeOK
  <2>7. CASE FetchGiveUp(t)
    BY <2>7 DEF FetchGiveUp, LinkedIsCached
  <2>8. CASE Serve(t)
    BY <2>8, ServeFrame DEF LinkedIsCached
  <2>9. CASE \/ OpenFetched(t) \/ CreateReturn(t) \/ StoreReturn(t)
             \/ UnlinkReturn(t) \/ Release(t) \/ Retry(t) \/ StoreGiveUp(t)
             \/ FailOnce(t)
    BY <2>9 DEF OpenFetched, CreateReturn, StoreReturn, UnlinkReturn, Release,
                Retry, StoreGiveUp, FailOnce, machine, LinkedIsCached
  <2> QED
    BY <1>3, <2>1, <2>2, <2>3, <2>4, <2>5, <2>6, <2>7, <2>8, <2>9
    DEF Progress, Call
<1>4. ASSUME NEW c \in Client, Truncate(c)
      PROVE  cache'[host[u]] # NoFile
  <2>1. PICK n \in 0..(Len(cache[c]) - 1) :
          cache' = [cache EXCEPT ![c] = SubSeq(cache[c], 1, n)]
    BY <1>4 DEF Truncate
  <2>2. SubSeq(cache[c], 1, n) # NoFile
    <3>1. cache[c] \in Data
      BY <1>4 DEF Truncate, TypeOK
    <3> QED
      BY <3>1, SubSeqType, ConstantsOK
  <2>3. u \in linked
    BY <1>4 DEF Truncate
  <2> QED
    BY <2>1, <2>2, <2>3, <1>1, HostType DEF LinkedIsCached, TypeOK
<1>5. CASE UNCHANGED vars
  BY <1>5 DEF vars, LinkedIsCached
<1> QED
  BY <1>3, <1>4, <1>5 DEF Next

(* No step takes the file from a handler that works on it.                *)
LEMMA StepHandled ==
  TypeOK /\ HandledExists /\ [Next]_vars => HandledExists'
<1> SUFFICES ASSUME TypeOK, HandledExists, [Next]_vars
             PROVE  HandledExists'
  OBVIOUS
<1>1. <<>> # NoFile
  BY DataFacts, ConstantsOK
<1>2. ASSUME NEW t \in Thread, Serve(t)
      PROVE  HandledExists'
  <2>1. \A u \in Thread : pc'[u] = "unlink" => "unlink" \in Calls
    BY <1>2, ServeFrame DEF HandledExists
  <2>2. Running' # {} => file' # NoFile
    <3>1. CASE ServeUnlink(t)
      <4>1. Running = {}
        BY <3>1, ConstantsOK DEF ServeUnlink, Begins, Waiting, HandledExists
      <4>2. stage' = [stage EXCEPT ![t] = "done"]
        BY <3>1 DEF ServeUnlink, Answer
      <4> QED
        BY <4>1, <4>2 DEF Running, TypeOK
    <3>2. CASE StoreOpen(t)
      BY <1>1, <3>2 DEF StoreOpen
    <3>3. CASE CreateOpen(t)
      BY <1>1, <3>3 DEF CreateOpen, server
    <3>4. CASE StoreWrite(t)
      <4>1. file \in Data /\ buf[t] \in Data
        BY <3>4 DEF StoreWrite, Handled, HandledExists, Running, TypeOK
      <4> QED
        BY <3>4, <4>1, OverlayFacts, ConstantsOK DEF StoreWrite
    <3>5. CASE FetchOpen(t) /\ file # NoFile
      BY <3>5 DEF FetchOpen, server
    <3>6. CASE \/ ServeGetattr(t)
               \/ FetchOpen(t) /\ file = NoFile
               \/ FetchFstat(t)
               \/ StoreLstat(t)
               \/ CreateLstat(t)
               \/ Refuse(t)
      <4>1. file' = file /\ stage' = [stage EXCEPT ![t] = "done"]
        BY <3>6 DEF ServeGetattr, FetchOpen, FetchFstat, StoreLstat, CreateLstat,
                    Refuse, Answer, server
      <4>2. Running' \subseteq Running
        BY <4>1 DEF Running, TypeOK
      <4> QED
        BY <4>1, <4>2 DEF HandledExists
    <3>7. CASE FetchRead(t)
      BY <3>7 DEF FetchRead, Handled, Running, server, HandledExists
    <3> QED
      BY <1>2, <3>1, <3>2, <3>3, <3>4, <3>5, <3>6, <3>7 DEF Serve
  <2> QED
    BY <2>1, <2>2 DEF HandledExists
<1>3. ASSUME NEW t \in Thread, Progress(t) \/ Call(t), ~Serve(t)
      PROVE  HandledExists'
  <2>1. file' = file
    BY <1>3 DEF Progress, Call, OpenBegin, OpenCompare, OpenFetched, OpenInstall,
                Create, CreateReturn, Write, Release, StoreReturn, Unlink,
                UnlinkReturn, Retry, GetattrGiveUp, FetchGiveUp, StoreGiveUp,
                FailOnce, server
  <2>2. stage' = stage \/ stage' = [stage EXCEPT ![t] = "begin"]
    BY <1>3 DEF Progress, Call, OpenBegin, OpenCompare, OpenFetched, OpenInstall,
                Create, CreateReturn, Write, Release, StoreReturn, Unlink,
                UnlinkReturn, Retry, GetattrGiveUp, FetchGiveUp, StoreGiveUp,
                FailOnce, Judge, Goto
  <2>3. Running' \subseteq Running
    BY <2>2 DEF Running, TypeOK
  <2>4. \A u \in Thread :
          pc'[u] = "unlink" => pc[u] = "unlink" \/ "unlink" \in Calls
    BY <1>3 DEF Progress, Call, OpenBegin, OpenCompare, OpenFetched, OpenInstall,
                Create, CreateReturn, Write, Release, StoreReturn, Unlink,
                UnlinkReturn, Retry, GetattrGiveUp, FetchGiveUp, StoreGiveUp,
                FailOnce, Judge, Goto, MayUpdate, TypeOK
  <2> QED
    BY <2>1, <2>3, <2>4 DEF HandledExists
<1>4. ASSUME NEW c \in Client, Truncate(c)
      PROVE  HandledExists'
  BY <1>4 DEF Truncate, server, HandledExists, Running
<1>5. CASE UNCHANGED vars
  BY <1>5 DEF vars, HandledExists, Running
<1> QED
  BY <1>2, <1>3, <1>4, <1>5 DEF Next

(* It holds at first.                                                      *)
LEMMA InitHandled == Init => HandledExists
BY DEF Init, HandledExists, Running

(* Every behaviour of the protocol is well typed: no descriptor ever reads, *)
(* writes, stores or receives anything but a file image, every entry of a  *)
(* hash table is a time, the modified flag or missing, and a retry counter *)
(* never passes the limit of retry_req by more than one.                   *)
THEOREM TypeCorrect == Spec => []TypeOK
<1> DEFINE Inv == TypeOK /\ LinkedIsCached /\ HandledExists
<1>1. Init => Inv
  BY InitType, InitHandled DEF Init, LinkedIsCached
<1>2. Inv /\ [Next]_vars => Inv'
  BY StepType, StepLinked, StepHandled
<1> QED
  BY <1>1, <1>2, PTL DEF Spec

-----------------------------------------------------------------------------
(***************************************************************************)
(* Times.                                                                  *)
(***************************************************************************)

(* The times clients store are those of replies, and those of replies are  *)
(* at most the file's: the invariant must speak of the replies under way.  *)
TimesInv ==
  mtime < NSEC =>
    /\ \A c \in Client : stamp[c] <= mtime
    /\ \A t \in Thread : reply[t].time <= mtime

(* The server's time never decreases.                                      *)
LEMMA ClockMonotonic ==
  TypeOK /\ [Next]_vars => mtime' \in Nat /\ mtime <= mtime'
<1> SUFFICES ASSUME TypeOK, [Next]_vars PROVE mtime' \in Nat /\ mtime <= mtime'
  OBVIOUS
<1>1. /\ mtime \in Nat /\ (mtime' = mtime => mtime <= mtime')
      /\ Touch => mtime' \in Nat /\ mtime <= mtime'
  BY ConstantsOK DEF TypeOK, Touch
<1>2. ASSUME NEW t \in Thread, Serve(t)
      PROVE  mtime' \in Nat /\ mtime <= mtime'
  <2>1. CASE StoreWrite(t)
    BY <1>1, <2>1, ConstantsOK DEF StoreWrite
  <2>2. CASE ~StoreWrite(t)
    BY <1>1, <1>2, <2>2 DEF Serve, ServeGetattr, FetchOpen, FetchRead, FetchFstat,
                            StoreOpen, StoreLstat, CreateOpen, CreateLstat,
                            ServeUnlink, Refuse, server
  <2> QED
    BY <2>1, <2>2
<1>3. ASSUME NEW t \in Thread, Progress(t) \/ Call(t), ~Serve(t)
      PROVE  mtime' = mtime
  BY <1>3 DEF Progress, Call, OpenBegin, OpenCompare, OpenFetched, OpenInstall,
              Create, CreateReturn, Write, Release, StoreReturn, Unlink,
              UnlinkReturn, Retry, GetattrGiveUp, FetchGiveUp, StoreGiveUp,
              FailOnce, server
<1>4. ASSUME NEW c \in Client, Truncate(c)
      PROVE  mtime' = mtime
  BY <1>4 DEF Truncate, server
<1>5. CASE UNCHANGED vars
  BY <1>1, <1>5 DEF vars
<1> QED
  BY <1>1, <1>2, <1>3, <1>4, <1>5 DEF Next

(* The reply of a handler carries a time that is not later than the file's. *)
LEMMA ServeTime ==
  ASSUME TypeOK, HandledExists, NEW t \in Thread, Serve(t)
  PROVE  \/ reply'[t].time = reply[t].time
         \/ reply'[t].time \in Nat /\ reply'[t].time <= mtime'
<1>1. mtime \in Nat /\ mtime' \in Nat
  BY ServeType DEF TypeOK
<1>2. CASE ServeGetattr(t)
  BY <1>1, <1>2, NsecFacts DEF ServeGetattr, server, Answer, TypeOK
<1>3. CASE FetchFstat(t) \/ StoreLstat(t) \/ CreateLstat(t)
  BY <1>1, <1>3, NsecFacts DEF FetchFstat, StoreLstat, CreateLstat, server, Answer, TypeOK
<1>4. CASE StoreOpen(t) \/ StoreWrite(t) \/ CreateOpen(t)
  BY <1>4 DEF StoreOpen, StoreWrite, CreateOpen
<1>5. CASE FetchOpen(t) \/ FetchRead(t)
  BY <1>1, <1>5 DEF FetchOpen, FetchRead, Answer, TypeOK, Reply
<1>6. CASE ServeUnlink(t) \/ Refuse(t)
  BY <1>1, <1>6 DEF ServeUnlink, Refuse, Answer, TypeOK
<1> QED
  BY <1>2, <1>3, <1>4, <1>5, <1>6 DEF Serve

(* Every other step clears a reply or leaves all of them, and leaves every *)
(* entry or puts a time that was in a reply, or the flag, in one of them.  *)
LEMMA StepEntries ==
  ASSUME NEW t \in Thread, Progress(t) \/ Call(t), ~Serve(t)
  PROVE  /\ UNCHANGED reply \/ reply' = [reply EXCEPT ![t] = NoReply]
         /\ UNCHANGED stamp \/ Put(t, reply[t].time) \/ Put(t, Modified)
         /\ UNCHANGED mtime
BY DEF Progress, Call, OpenBegin, OpenCompare, OpenFetched, OpenInstall,
       Create, CreateReturn, Write, Release, StoreReturn, Unlink, UnlinkReturn,
       Retry, GetattrGiveUp, FetchGiveUp, StoreGiveUp, FailOnce, Judge, Goto,
       server, machine

(* No step puts a time later than that of the file in an entry or a reply.*)
LEMMA StepTimes ==
  TypeOK /\ HandledExists /\ TimesInv /\ [Next]_vars => TimesInv'
<1> SUFFICES ASSUME TypeOK, HandledExists, TimesInv, [Next]_vars, mtime' < NSEC
             PROVE  /\ \A c \in Client : stamp'[c] <= mtime'
                    /\ \A t \in Thread : reply'[t].time <= mtime'
  BY DEF TimesInv
<1>1. mtime \in Nat /\ mtime' \in Nat /\ mtime <= mtime'
  BY ClockMonotonic DEF TypeOK
<1>2. mtime < NSEC
  BY <1>1, ConstantsOK
<1>3. /\ \A c \in Client : stamp[c] \in Int /\ stamp[c] <= mtime'
      /\ \A t \in Thread : reply[t].time <= mtime'
  BY <1>1, <1>2, ReplyType DEF TimesInv, TypeOK, Stamp, NotFound, Modified
<1>4. ASSUME NEW t \in Thread, Serve(t)
      PROVE  /\ \A c \in Client : stamp'[c] <= mtime'
             /\ \A u \in Thread : reply'[u].time <= mtime'
  <2>1. reply'[t].time <= mtime'
    BY <1>1, <1>3, <1>4, ServeTime, ReplyType
  <2>2. \A u \in Thread : reply[u].time <= mtime'
    BY <1>1, <1>3, ReplyType
  <2>3. \A u \in Thread : reply'[u].time <= mtime'
    BY <1>4, <2>1, <2>2, ServeFrame
  <2>4. \A c \in Client : stamp'[c] <= mtime'
    BY <1>1, <1>3, <1>4, ServeFrame
  <2> QED
    BY <2>3, <2>4
<1>5. ASSUME NEW t \in Thread, Progress(t) \/ Call(t), ~Serve(t)
      PROVE  /\ \A c \in Client : stamp'[c] <= mtime'
             /\ \A u \in Thread : reply'[u].time <= mtime'
  <2>1. \A u \in Thread : reply'[u].time <= mtime'
    BY <1>1, <1>3, <1>5, StepEntries DEF NoReply, TypeOK
  <2>2. \A c \in Client : stamp'[c] <= mtime'
    BY <1>1, <1>3, <1>5, StepEntries DEF Put, Modified, TypeOK
  <2> QED
    BY <2>1, <2>2
<1>6. ASSUME NEW c \in Client, Truncate(c)
      PROVE  UNCHANGED <<stamp, reply>>
  BY <1>6 DEF Truncate
<1>7. CASE UNCHANGED vars
  BY <1>3, <1>7 DEF vars
<1> QED
  BY <1>3, <1>4, <1>5, <1>6, <1>7 DEF Next

(* Until the server's clock passes a second, no client ever stores a time  *)
(* later than the file's, so no version still to come is hidden from the   *)
(* comparison of afs_OPEN.  It holds for every number of machines and of   *)
(* descriptors on each, whatever calls they make, whichever RPCs fail and  *)
(* however the handlers overlap; files may be unlinked too if the handlers *)
(* do not overlap (ConstantsOK), so that no lstat() fails.                 *)
THEOREM StampsAreNotAhead == Spec => []NoStampAhead
<1> DEFINE Inv == TypeOK /\ LinkedIsCached /\ HandledExists /\ TimesInv
<1>1. Init => Inv
  BY InitType, InitHandled DEF Init, LinkedIsCached, TimesInv, NotFound, NoReply
<1>2. Inv /\ [Next]_vars => Inv'
  BY StepType, StepLinked, StepHandled, StepTimes
<1>3. Inv => NoStampAhead
  BY NsecFacts DEF NoStampAhead, TimesInv, TypeOK
<1> QED
  BY <1>1, <1>2, <1>3, PTL DEF Spec

-----------------------------------------------------------------------------
(***************************************************************************)
(* Descriptors and their cached files.                                     *)
(***************************************************************************)

(* No machine has two descriptors of the file.                             *)
OneDescriptor == \A t, u \in Thread : host[t] = host[u] => t = u

(* A step of one descriptor leaves the others and their machines alone.    *)
LEMMA Frame ==
  ASSUME OneDescriptor, TypeOK, NEW t \in Thread, Progress(t) \/ Call(t)
  PROVE  /\ \A u \in Thread : u # t =>
              /\ pc'[u] = pc[u] /\ stage'[u] = stage[u]
              /\ reply'[u] = reply[u] /\ buf'[u] = buf[u]
              /\ u \in linked' <=> u \in linked
         /\ \A c \in Client : c # host[t] =>
              cache'[c] = cache[c] /\ stamp'[c] = stamp[c]
<1> USE DEF TypeOK
<1>1. CASE Serve(t)
  BY <1>1, ServeFrame
<1>2. CASE OpenBegin(t) \/ OpenFetched(t) \/ OpenInstall(t)
  BY <1>2 DEF OpenBegin, OpenFetched, OpenInstall, Goto, Put
<1>3. CASE OpenCompare(t) \/ GetattrGiveUp(t)
  BY <1>3 DEF OpenCompare, GetattrGiveUp, Judge, TruncateOwn, Goto
<1>4. CASE Create(t) \/ CreateReturn(t) \/ Release(t) \/ StoreReturn(t)
           \/ UnlinkReturn(t)
  BY <1>4 DEF Create, CreateReturn, Release, StoreReturn, UnlinkReturn, Goto,
              Put, machine
<1>5. CASE Write(t) \/ Unlink(t)
  BY <1>5 DEF OneDescriptor, Write, Unlink, On, Goto, Put
<1>6. CASE Retry(t) \/ FetchGiveUp(t) \/ StoreGiveUp(t) \/ FailOnce(t)
  BY <1>6 DEF Retry, FetchGiveUp, StoreGiveUp, FailOnce, Goto, machine
<1> QED
  BY <1>1, <1>2, <1>3, <1>4, <1>5, <1>6 DEF Progress, Call

(* Every call that has passed its open() has a cached file, not only the   *)
(* descriptors that are open: OPEN and CREATE make it, and hand it on.     *)
HeldIsCached ==
  \A t \in Thread : pc[t] \notin {"idle", "unlink"} => cache[host[t]] # NoFile

(* Only an unlink takes a cached file away.                                *)
LEMMA CacheStays ==
  ASSUME TypeOK, LinkedIsCached, NEW t \in Thread, Progress(t) \/ Call(t),
         NEW c \in Client, cache[c] # NoFile, ~(Unlink(t) /\ host[t] = c)
  PROVE  cache'[c] # NoFile
<1>1. <<>> # NoFile
  BY ConstantsOK, DataFacts
<1>2. CASE OpenBegin(t) \/ Create(t) \/ Unlink(t)
  BY <1>1, <1>2, HostType DEF OpenBegin, Create, Unlink, TypeOK
<1>3. CASE OpenCompare(t) \/ GetattrGiveUp(t)
  BY <1>1, <1>3, HostType DEF OpenCompare, GetattrGiveUp, Judge, TruncateOwn, TypeOK
<1>4. CASE OpenInstall(t)
  <2>1. CASE t \in linked
    <3>1. cache[host[t]] \in Data /\ buf[t] \in Data
      BY <2>1, HostType DEF LinkedIsCached, TypeOK
    <3>2. cache[host[t]] \o buf[t] # NoFile
      BY <3>1, ConstantsOK, DataFacts
    <3> QED
      BY <1>4, <2>1, <3>2, HostType DEF OpenInstall, TypeOK
  <2>2. CASE t \notin linked
    BY <1>4, <2>2 DEF OpenInstall
  <2> QED
    BY <2>1, <2>2
<1>5. CASE Write(t)
  <2>1. PICK old \in Images(cache[host[t]]), b \in Block :
          \E off \in 0..Len(old) :
            cache' = [cache EXCEPT ![host[t]] = PWrite(old, off, b)]
    BY <1>5 DEF Write
  <2>2. old \in Data
    BY HostType, ImagesType DEF TypeOK
  <2>3. PICK off \in 0..Len(old) :
          cache' = [cache EXCEPT ![host[t]] = PWrite(old, off, b)]
    BY <2>1
  <2>4. PWrite(old, off, b) # NoFile
    BY <2>2, PWriteType, ConstantsOK
  <2> QED
    BY <2>3, <2>4, HostType DEF TypeOK
<1>6. CASE Serve(t)
  BY <1>6, ServeFrame
<1>7. CASE \/ OpenFetched(t) \/ CreateReturn(t) \/ StoreReturn(t)
           \/ UnlinkReturn(t) \/ Release(t) \/ Retry(t) \/ FetchGiveUp(t)
           \/ StoreGiveUp(t) \/ FailOnce(t)
  BY <1>7 DEF OpenFetched, CreateReturn, StoreReturn, UnlinkReturn, Release,
              Retry, FetchGiveUp, StoreGiveUp, FailOnce, machine
<1> QED
  BY <1>2, <1>3, <1>4, <1>5, <1>6, <1>7 DEF Progress, Call

(* The descriptor that takes the step has a cached file afterwards.        *)
LEMMA ActorHeld ==
  ASSUME TypeOK, LinkedIsCached, HeldIsCached, NEW t \in Thread,
         Progress(t) \/ Call(t), pc'[t] \notin {"idle", "unlink"}
  PROVE  cache'[host[t]] # NoFile
<1>1. CASE OpenBegin(t) \/ Create(t)
  <2>1. <<>> # NoFile
    BY ConstantsOK, DataFacts
  <2> QED
    BY <1>1, <2>1, HostType DEF OpenBegin, Create, TypeOK
<1>2. CASE ~OpenBegin(t) /\ ~Create(t)
  <2>1. ~Unlink(t)
    BY DEF Unlink, Goto, TypeOK
  <2>2. pc[t] \notin {"idle", "unlink"}
    <3>1. CASE Serve(t)
      BY <3>1, ServeFrame
    <3>2. CASE ~Serve(t)
      BY <1>2, <2>1, <3>2
      DEF Progress, Call, OpenCompare, OpenFetched, OpenInstall, CreateReturn,
          Write, Release, StoreReturn, UnlinkReturn, Retry, GetattrGiveUp,
          FetchGiveUp, StoreGiveUp, FailOnce, Replied, Goto, TypeOK
    <3> QED
      BY <3>1, <3>2
  <2> QED
    BY <2>1, <2>2, CacheStays, HostType DEF HeldIsCached
<1> QED
  BY <1>1, <1>2

(* No step takes the cached file from a call that works on it, unless it   *)
(* is the unlink of another descriptor of the machine.                     *)
LEMMA StepHeld ==
  /\ OneDescriptor \/ "unlink" \notin Calls
  /\ TypeOK /\ LinkedIsCached /\ HeldIsCached /\ [Next]_vars
  => HeldIsCached'
<1> SUFFICES ASSUME OneDescriptor \/ "unlink" \notin Calls,
                    TypeOK, LinkedIsCached, HeldIsCached, [Next]_vars,
                    NEW u \in Thread, pc'[u] \notin {"idle", "unlink"}
             PROVE  cache'[host[u]] # NoFile
  BY DEF HeldIsCached
<1>1. ASSUME NEW t \in Thread, Progress(t) \/ Call(t)
      PROVE  cache'[host[u]] # NoFile
  <2>1. CASE u = t
    BY <1>1, <2>1, ActorHeld
  <2>2. CASE u # t
    <3>1. pc'[u] = pc[u]
      BY <1>1, <2>2, ServeFrame
      DEF Progress, Call, OpenBegin, OpenCompare, OpenFetched, OpenInstall,
          Create, CreateReturn, Write, Release, StoreReturn, Unlink,
          UnlinkReturn, Retry, GetattrGiveUp, FetchGiveUp, StoreGiveUp,
          FailOnce, Judge, Goto, TypeOK
    <3>2. ~(Unlink(t) /\ host[t] = host[u])
      BY <2>2 DEF OneDescriptor, Unlink, MayUpdate
    <3> QED
      BY <1>1, <3>1, <3>2, CacheStays, HostType DEF HeldIsCached
  <2> QED
    BY <2>1, <2>2
<1>2. ASSUME NEW c \in Client, Truncate(c)
      PROVE  cache'[host[u]] # NoFile
  <2>1. PICK n \in 0..(Len(cache[c]) - 1) :
          cache' = [cache EXCEPT ![c] = SubSeq(cache[c], 1, n)]
    BY <1>2 DEF Truncate
  <2>2. cache[c] \in Data
    BY <1>2 DEF Truncate, TypeOK
  <2>3. SubSeq(cache[c], 1, n) # NoFile
    BY <2>2, SubSeqType, ConstantsOK
  <2>4. cache[host[u]] # NoFile
    BY <1>2 DEF Truncate, HeldIsCached
  <2> QED
    BY <2>1, <2>3, <2>4, HostType DEF TypeOK
<1>3. CASE UNCHANGED vars
  BY <1>3 DEF vars, HeldIsCached
<1> QED
  BY <1>1, <1>2, <1>3 DEF Next

(* A descriptor that is open has a cached file behind it, whichever RPCs   *)
(* fail or are refused: if no machine has two descriptors, or if no file   *)
(* is unlinked.  (With both, an unlink meets an OPEN of the machine that   *)
(* waits for the server, and takes its cached file.)                       *)
THEOREM OpenFilesAreCached ==
  OneDescriptor \/ "unlink" \notin Calls => (Spec => []OpenHasCachedFile)
<1> SUFFICES ASSUME OneDescriptor \/ "unlink" \notin Calls
             PROVE  Spec => []OpenHasCachedFile
  OBVIOUS
<1> DEFINE Inv == TypeOK /\ LinkedIsCached /\ HandledExists /\ HeldIsCached
<1>1. Init => Inv
  BY InitType, InitHandled DEF Init, LinkedIsCached, HeldIsCached
<1>2. Inv /\ [Next]_vars => Inv'
  BY StepType, StepLinked, StepHandled, StepHeld
<1>3. Inv => OpenHasCachedFile
  BY DEF HeldIsCached, OpenHasCachedFile
<1> QED
  BY <1>1, <1>2, <1>3, PTL DEF Spec

-----------------------------------------------------------------------------
(***************************************************************************)
(* Validation: what afs_OPEN trusts.                                       *)
(***************************************************************************)

(* One descriptor per machine, applications that only open, write and      *)
(* close, GETATTRs that get through, handlers that do not overlap, and a   *)
(* file clock that moves from one STORE to the open() of the next (the     *)
(* write() of a STORE may fall in the same tick as its open()).  The run   *)
(* shared_open shows what happens without the first, the run overlap what  *)
(* server.cc, which has no lock, does without the fourth: every conjunct   *)
(* excludes a case in which TLC finds a stale copy that looks fresh        *)
(* (README, "What is assumed").                                            *)
Orderly ==
  /\ OneDescriptor
  /\ Calls \subseteq {"write"}
  /\ "getattr" \notin Lossy \cup Refusable
  /\ ~Overlap
  /\ 0 \notin ClockSteps

(* Where a machine's only descriptor is decides what its copy, its entry   *)
(* and its buffer may be.                                                  *)
CallOK(t) ==
  /\ pc[t] \notin {"create", "unlink"}
  /\ pc[t] # "idle" => cache[host[t]] # NoFile
  /\ pc[t] \in {"getattr", "fetch", "install"} => t \in linked
  /\ pc[t] \in {"fetch", "install"} => cache[host[t]] = <<>>
  /\ pc[t] = "getattr" => ~reply[t].err
  /\ pc[t] = "store" => stamp[host[t]] = Modified /\ buf[t] = cache[host[t]]

EntryOK(c) == cache[c] = NoFile => stamp[c] = NotFound

CallsInv ==
  /\ file # NoFile
  /\ mtime >= 1
  /\ \A c \in Client : EntryOK(c)
  /\ \A t \in Thread : CallOK(t)

(* A time equal to the file's vouches for the content it came with.        *)
VouchOK(c) ==
  stamp[c] = mtime =>
    \/ cache[c] = file
    \/ \E t \in Thread : host[t] = c /\ pc[t] = "install"

ReplyOK(t) ==
  /\ pc[t] = "fetch" => stamp[host[t]] # mtime
  /\ Replied(t, "fetch") /\ reply[t].time = mtime => reply[t].data = file
  /\ pc[t] = "install" /\ stamp[host[t]] = mtime => buf[t] = file
  /\ Replied(t, "store") /\ reply[t].time = mtime => buf[t] = file

(* The handler that is between two system calls has the file to itself: no *)
(* GETATTR or FETCH tells the time of a file that is truncated and not yet *)
(* written, and what a handler has read or written is the file when it     *)
(* takes the time.                                                         *)
Unseen ==
  mtime < NSEC => /\ \A c \in Client : stamp[c] # mtime
                  /\ \A t \in Thread : reply[t].time # mtime

BetweenOK(t) ==
  /\ stage[t] = "write" => pc[t] = "store" /\ file = <<>> /\ Unseen
  /\ stage[t] = "read" => pc[t] = "fetch" /\ Len(reply[t].data) = Len(file)
  /\ stage[t] = "stat" => \/ pc[t] = "store" /\ buf[t] = file
                          \/ pc[t] = "fetch" /\ reply[t].data = file

SerialInv ==
  /\ \A t, u \in Running : t = u
  /\ \A t \in Thread : BetweenOK(t)

TrustInv ==
  mtime < NSEC => /\ \A c \in Client : VouchOK(c)
                  /\ \A t \in Thread : ReplyOK(t)

(* Calls that do not occur.                                                *)
LEMMA OrderlyCalls ==
  ASSUME Orderly, TypeOK, CallsInv, NEW t \in Thread
  PROVE  /\ ~CreateOpen(t) /\ ~CreateLstat(t) /\ ~Create(t) /\ ~CreateReturn(t)
         /\ ~ServeUnlink(t) /\ ~Unlink(t) /\ ~UnlinkReturn(t)
         /\ ~FailOnce(t) /\ ~GetattrGiveUp(t)
BY DEF Orderly, CallsInv, CallOK, CreateOpen, CreateLstat, ServeUnlink, Create,
       CreateReturn, Unlink, UnlinkReturn, FailOnce, GetattrGiveUp, GiveUp, Fails,
       MayUpdate, Begins, Waiting, Handled, Replied

(* A handler begins when no other is running.                              *)
LEMMA OrderlyBegins ==
  ASSUME Orderly, NEW t \in Thread, NEW rpc, Begins(t, rpc)
  PROVE  Running = {} /\ pc[t] = rpc /\ stage[t] = "begin"
BY DEF Orderly, Begins, Waiting

(* The steps left when every machine has one descriptor.                  *)
LEMMA OrderlyNext ==
  ASSUME Orderly, Next
  PROVE  \E t \in Thread : Progress(t) \/ Call(t)
BY DEF Orderly, Next, Truncate, MayUpdate

(* The descriptor that takes the step.                                     *)
LEMMA ActorCalls ==
  ASSUME Orderly, TypeOK, CallsInv, NEW t \in Thread, Progress(t) \/ Call(t)
  PROVE  CallOK(t)' /\ EntryOK(host[t])'
<1> USE DEF CallOK, EntryOK, TypeOK
<1>1. /\ CallOK(t) /\ EntryOK(host[t]) /\ host[t] \in Client
      /\ <<>> # NoFile /\ <<>> \in Data
  BY HostType, DataFacts, ConstantsOK DEF CallsInv
<1>2. ASSUME NEW q, NEW d, Goto(t, q, d)
      PROVE  pc'[t] = q /\ reply'[t] = NoReply /\ buf'[t] = d
  BY <1>2 DEF Goto
<1>3. CASE Serve(t)
  <2>1. UNCHANGED <<cache, stamp, linked, pc, buf>>
    BY <1>3, ServeFrame
  <2>2. pc[t] = "getattr" => ~reply'[t].err
    <3>1. ASSUME pc[t] = "getattr" PROVE ServeGetattr(t)
      BY <1>3, <3>1 DEF Serve, FetchOpen, FetchRead, FetchFstat, StoreOpen,
                        StoreWrite, StoreLstat, CreateOpen, CreateLstat,
                        ServeUnlink, Refuse, Begins, Waiting, Handled, Orderly
    <3>2. ASSUME ServeGetattr(t) PROVE ~reply'[t].err
      BY <3>2 DEF ServeGetattr, Answer, CallsInv
    <3> QED
      BY <3>1, <3>2
  <2> QED
    BY <1>1, <2>1, <2>2
<1>4. CASE OpenBegin(t)
  BY <1>1, <1>4 DEF OpenBegin, Goto, NoReply
<1>5. CASE OpenCompare(t)
  <2>1. PICK stale \in BOOLEAN : Judge(t, stale)
    BY <1>5 DEF OpenCompare
  <2>2. t \in linked /\ UNCHANGED stamp /\ cache[host[t]] # NoFile
    BY <1>1, <1>5 DEF OpenCompare, Replied
  <2> QED
    BY <1>1, <2>1, <2>2 DEF Judge, TruncateOwn, Goto, NoReply
<1>6. CASE OpenFetched(t)
  BY <1>1, <1>6 DEF OpenFetched, Replied, Goto, Put
<1>7. CASE OpenInstall(t)
  <2>1. <<>> \o buf[t] # NoFile
    BY DataFacts, ConstantsOK
  <2> QED
    BY <1>1, <1>7, <2>1 DEF OpenInstall, Goto
<1>8. CASE Write(t)
  <2>1. PICK old \in Images(cache[host[t]]), b \in Block :
          \E off \in 0..Len(old) :
            cache' = [cache EXCEPT ![host[t]] = PWrite(old, off, b)]
    BY <1>8 DEF Write
  <2>2. PICK off \in 0..Len(old) :
          cache' = [cache EXCEPT ![host[t]] = PWrite(old, off, b)]
    BY <2>1
  <2>3. PWrite(old, off, b) # NoFile
    BY <1>1, ImagesType, PWriteType, ConstantsOK
  <2> QED
    BY <1>1, <1>8, <2>2, <2>3 DEF Write, Put
<1>9. CASE Release(t)
  BY <1>1, <1>9 DEF Release, Images, Goto, machine
<1>10. CASE StoreReturn(t)
  BY <1>1, <1>10 DEF StoreReturn, Replied, Goto, Put
<1>11. CASE Retry(t)
  BY <1>1, <1>11 DEF Retry, Goto, NoReply
<1>12. CASE FetchGiveUp(t)
  BY <1>1, <1>12 DEF FetchGiveUp, Goto
<1>13. CASE StoreGiveUp(t)
  BY <1>1, <1>13 DEF StoreGiveUp, Goto
<1> QED
  BY <1>3, <1>4, <1>5, <1>6, <1>7, <1>8, <1>9, <1>10, <1>11, <1>12, <1>13,
     OrderlyCalls DEF Progress, Call

(* No step brings a call and its cached file out of line.                 *)
LEMMA StepCalls ==
  Orderly /\ TypeOK /\ HandledExists /\ CallsInv /\ [Next]_vars => CallsInv'
<1> SUFFICES ASSUME Orderly, TypeOK, HandledExists, CallsInv, [Next]_vars
             PROVE  CallsInv'
  OBVIOUS
<1>1. CASE UNCHANGED vars
  BY <1>1 DEF vars, CallsInv, CallOK, EntryOK
<1>2. ASSUME NEW t \in Thread, Progress(t) \/ Call(t)
      PROVE  CallsInv'
  <2>1. mtime' >= 1
    <3>1. mtime' \in Nat /\ mtime <= mtime'
      BY ClockMonotonic
    <3> QED
      BY <3>1 DEF CallsInv, TypeOK
  <2>2. file' # NoFile
    <3>1. CASE Serve(t)
      <4>1. <<>> # NoFile
        BY DataFacts, ConstantsOK
      <4>2. CASE StoreWrite(t)
        <5>1. Overlay(buf[t], file) \in Data
          BY OverlayFacts DEF CallsInv, TypeOK
        <5> QED
          BY <4>2, <5>1, ConstantsOK DEF StoreWrite
      <4> QED
        BY <3>1, <4>1, <4>2, OrderlyCalls
        DEF Serve, ServeGetattr, FetchOpen, FetchRead, FetchFstat, StoreOpen,
            StoreLstat, Refuse, server, CallsInv
    <3>2. CASE ~Serve(t)
      BY <1>2, <3>2
      DEF Progress, Call, OpenBegin, OpenCompare, OpenFetched, OpenInstall,
          Create, CreateReturn, Write, Release, StoreReturn, Unlink,
          UnlinkReturn, Retry, GetattrGiveUp, FetchGiveUp, StoreGiveUp,
          FailOnce, server, CallsInv
    <3> QED
      BY <3>1, <3>2
  <2>3. ASSUME NEW u \in Thread PROVE CallOK(u)'
    <3>1. CASE u = t
      BY <1>2, <3>1, ActorCalls
    <3>2. CASE u # t
      BY <1>2, <3>2, Frame, HostType DEF CallsInv, CallOK, Orderly, OneDescriptor
    <3> QED
      BY <3>1, <3>2
  <2>4. ASSUME NEW c \in Client PROVE EntryOK(c)'
    BY <1>2, ActorCalls, Frame DEF CallsInv, EntryOK, Orderly
  <2> QED
    BY <2>1, <2>2, <2>3, <2>4 DEF CallsInv
<1> QED
  BY <1>1, <1>2, OrderlyNext

(* The time of a modification is not yet stored or on its way, be it later *)
(* than the time of the open() or not.                                     *)
LEMMA ModifiedUnseen ==
  ASSUME Orderly, TypeOK, TimesInv, SerialInv, NEW t \in Thread,
         StoreOpen(t) \/ StoreWrite(t), mtime' < NSEC
  PROVE  /\ mtime' \in Nat
         /\ \A c \in Client : stamp[c] # mtime'
         /\ \A u \in Thread : reply[u].time # mtime'
<1>1. mtime \in Nat /\ NSEC \in Nat /\ ClockSteps \subseteq Nat
  BY ConstantsOK DEF TypeOK
<1>2. CASE mtime' \in Nat /\ mtime < mtime'
  BY <1>1, <1>2 DEF TimesInv
<1>3. CASE StoreOpen(t)
  BY <1>1, <1>2, <1>3 DEF Orderly, StoreOpen, Touch
<1>4. CASE StoreWrite(t)
  <2>1. mtime' = mtime \/ \E s \in ClockSteps \cup {0} : mtime' = mtime + s
    BY <1>4 DEF StoreWrite
  <2>2. mtime' \in Nat /\ mtime <= mtime'
    BY <1>1, <2>1
  <2>3. mtime < NSEC => Unseen
    BY <1>4 DEF StoreWrite, Handled, SerialInv, BetweenOK
  <2>4. CASE mtime' = mtime
    BY <1>1, <2>3, <2>4 DEF Unseen
  <2> QED
    BY <1>1, <1>2, <2>2, <2>4
<1> QED
  BY <1>3, <1>4

(* The next step of a handler finds the file as the last one left it.      *)
LEMMA ServeSerial ==
  ASSUME Orderly, TypeOK, HandledExists, TimesInv, CallsInv, SerialInv,
         NEW t \in Thread, Serve(t)
  PROVE  SerialInv'
<1>1. /\ UNCHANGED <<cache, stamp, pc, buf>> /\ stage \in [Thread -> Stage]
      /\ reply \in [Thread -> Reply]
      /\ \A u \in Thread : u # t => reply'[u] = reply[u] /\ stage'[u] = stage[u]
  BY ServeFrame DEF TypeOK
<1>2. /\ stage'[t] \in Stage
      /\ stage[t] = "begin" => stage'[t] = "done" \/ Running = {}
      /\ stage[t] # "done"
  BY <1>1, OrderlyCalls
  DEF Serve, ServeGetattr, FetchOpen, FetchRead, FetchFstat, StoreOpen, StoreWrite,
      StoreLstat, Refuse, Answer, Advance, Begins, Waiting, Handled, Orderly, Stage,
      TypeOK
<1>3. \A u, v \in Running' : u = v
  BY <1>1, <1>2 DEF Running, SerialInv
<1>4. Running = {} \/ Running = {t} \/ stage'[t] = "done"
  BY <1>1, <1>2 DEF Running, SerialInv, Stage
<1>5. ASSUME NEW u \in Thread, u # t PROVE BetweenOK(u)'
  <2>1. CASE u \in Running
    <3>1. stage[t] = "begin"
      BY <1>2, <1>5, <2>1 DEF SerialInv, Running
    <3>2. Refuse(t)
      BY <2>1, <3>1, OrderlyBegins, OrderlyCalls
      DEF Serve, ServeGetattr, FetchOpen, FetchRead, FetchFstat, StoreOpen,
          StoreWrite, StoreLstat, Handled
    <3>3. UNCHANGED <<file, mtime>> /\ reply'[t].time = 0
      BY <1>1, <3>2 DEF Refuse, Answer, server
    <3>4. mtime # 0 /\ (Unseen => Unseen')
      BY <1>1, <3>3 DEF CallsInv, Unseen, TypeOK
    <3> QED
      BY <1>1, <1>5, <3>3, <3>4 DEF BetweenOK, SerialInv
  <2>2. CASE u \notin Running
    BY <1>1, <1>5, <2>2 DEF BetweenOK, Running
  <2> QED
    BY <2>1, <2>2
<1>6. BetweenOK(t)'
  <2>1. CASE StoreOpen(t)
    <3>1. stage'[t] = "write" /\ pc[t] = "store" /\ file' = <<>> /\ reply' = reply
      BY <1>1, <2>1 DEF StoreOpen, Advance, Begins, Waiting
    <3>2. Unseen'
      BY <1>1, <2>1, <3>1, ModifiedUnseen DEF Unseen
    <3> QED
      BY <1>1, <3>1, <3>2 DEF BetweenOK
  <2>2. CASE StoreWrite(t)
    <3>1. pc[t] = "store" /\ stage'[t] = "stat" /\ file = <<>> /\ buf[t] \in Data
      BY <1>1, <2>2 DEF StoreWrite, Advance, Handled, SerialInv, BetweenOK, TypeOK
    <3>2. file' = buf[t]
      BY <2>2, <3>1, OverlayFacts, DataFacts DEF StoreWrite
    <3> QED
      BY <1>1, <3>1, <3>2 DEF BetweenOK
  <2>3. CASE FetchOpen(t)
    <3>1. file \in Data /\ Len(file) \in Nat
      BY DataFacts DEF CallsInv, TypeOK
    <3>2. /\ stage'[t] = "read" /\ pc[t] = "fetch" /\ file' = file
          /\ reply'[t].data = ReadInto(Len(file), <<>>)
      BY <1>1, <2>3
      DEF FetchOpen, Advance, Begins, Waiting, server, CallsInv, Reply
    <3>3. Len(reply'[t].data) = Len(file)
      BY <3>1, <3>2, ReadFacts, DataFacts
    <3> QED
      BY <1>1, <3>2, <3>3 DEF BetweenOK
  <2>4. CASE FetchRead(t)
    <3>1. file \in Data /\ stage[t] = "read" /\ pc[t] = "fetch" /\ file' = file
      BY <2>4 DEF FetchRead, Handled, server, CallsInv, TypeOK
    <3>2. stage'[t] = "stat" /\ reply'[t].data = ReadInto(Len(reply[t].data), file)
      BY <1>1, <2>4 DEF FetchRead, Advance, Reply
    <3>3. Len(reply[t].data) = Len(file)
      BY <3>1 DEF SerialInv, BetweenOK
    <3>4. reply'[t].data = file
      BY <3>1, <3>2, <3>3, ReadFacts, DataFacts
    <3> QED
      BY <1>1, <3>1, <3>2, <3>4 DEF BetweenOK
  <2>5. CASE ServeGetattr(t) \/ FetchFstat(t) \/ StoreLstat(t) \/ Refuse(t)
    <3>1. stage'[t] = "done"
      BY <1>1, <2>5 DEF ServeGetattr, FetchFstat, StoreLstat, Refuse, Answer
    <3> QED
      BY <3>1 DEF BetweenOK
  <2> QED
    BY <2>1, <2>2, <2>3, <2>4, <2>5, OrderlyCalls DEF Serve
<1> QED
  BY <1>3, <1>5, <1>6 DEF SerialInv

(* No step comes between two system calls of a handler.                    *)
LEMMA StepSerial ==
  /\ Orderly /\ TypeOK /\ HandledExists /\ TimesInv /\ CallsInv /\ SerialInv
  /\ [Next]_vars
  => SerialInv'
<1> SUFFICES ASSUME Orderly, TypeOK, HandledExists, TimesInv, CallsInv, SerialInv,
                    [Next]_vars
             PROVE  SerialInv'
  OBVIOUS
<1>1. CASE UNCHANGED vars
  BY <1>1 DEF vars, SerialInv, BetweenOK, Unseen, Running
<1>2. ASSUME NEW t \in Thread, Progress(t) \/ Call(t), ~Serve(t)
      PROVE  SerialInv'
  <2>1. UNCHANGED <<file, mtime>>
    BY <1>2 DEF Progress, Call, OpenBegin, OpenCompare, OpenFetched, OpenInstall,
                Create, CreateReturn, Write, Release, StoreReturn, Unlink,
                UnlinkReturn, Retry, GetattrGiveUp, FetchGiveUp, StoreGiveUp,
                FailOnce, server
  <2>2. \/ UNCHANGED <<pc, stage, reply, buf>>
        \/ stage'[t] = "begin" /\ reply'[t] = NoReply
    BY <1>2 DEF Progress, Call, OpenBegin, OpenCompare, OpenFetched, OpenInstall,
                Create, CreateReturn, Write, Release, StoreReturn, Unlink,
                UnlinkReturn, Retry, GetattrGiveUp, FetchGiveUp, StoreGiveUp,
                FailOnce, Judge, Goto, TypeOK
  <2>3. \A u \in Thread : u # t => /\ pc'[u] = pc[u] /\ stage'[u] = stage[u]
                                 /\ reply'[u] = reply[u] /\ buf'[u] = buf[u]
    BY <1>2, Frame DEF Orderly
  <2>4. Running' \subseteq Running
    BY <2>2, <2>3 DEF Running
  <2>5. Unseen => Unseen'
    <3>1. ASSUME Unseen, mtime < NSEC, NEW u \in Thread
          PROVE  reply'[u].time # mtime
      <4>1. reply'[u] = reply[u] \/ reply'[u] = NoReply
        BY <2>2, <2>3
      <4>2. NoReply.time = 0 /\ mtime # 0
        BY DEF NoReply, CallsInv
      <4> QED
        BY <3>1, <4>1, <4>2 DEF Unseen
    <3>2. ASSUME Unseen, mtime < NSEC, NEW c \in Client
          PROVE  stamp'[c] # mtime
      <4>1. UNCHANGED stamp \/ Put(t, reply[t].time) \/ Put(t, Modified)
        BY <1>2, StepEntries
      <4>2. stamp'[c] \in {stamp[c], reply[t].time, Modified}
        BY <4>1 DEF Put, TypeOK
      <4>3. Modified # mtime
        BY SMT DEF Modified, TypeOK
      <4> QED
        BY <3>2, <4>2, <4>3 DEF Unseen
    <3> QED
      BY <2>1, <3>1, <3>2 DEF Unseen
  <2>6. ASSUME NEW u \in Thread PROVE BetweenOK(u)'
    BY <2>1, <2>2, <2>3, <2>5 DEF BetweenOK, SerialInv
  <2> QED
    BY <2>4, <2>6 DEF SerialInv
<1>3. ASSUME NEW t \in Thread, Serve(t)
      PROVE  SerialInv'
  BY <1>3, ServeSerial
<1> QED
  BY <1>1, <1>2, <1>3, OrderlyNext

(* The descriptor that takes a step that makes no new version.             *)
LEMMA ActorTrust ==
  ASSUME Orderly, TypeOK, TimesInv, CallsInv, SerialInv, TrustInv, mtime < NSEC,
         NEW t \in Thread, Progress(t) \/ Call(t), UNCHANGED server
  PROVE  VouchOK(host[t])' /\ ReplyOK(t)'
<1> USE DEF VouchOK, ReplyOK, CallOK, EntryOK, TypeOK
<1>1. /\ host[t] \in Client /\ mtime \in Nat /\ mtime >= 1
      /\ CallOK(t) /\ EntryOK(host[t]) /\ VouchOK(host[t]) /\ ReplyOK(t)
      /\ stamp[host[t]] <= mtime /\ reply[t].time <= mtime
      /\ mtime' = mtime /\ file' = file /\ Nsec(mtime) = mtime
  BY HostType, NsecFacts DEF CallsInv, TimesInv, TrustInv, server
<1>2. \A u \in Thread : host[u] = host[t] <=> u = t
  BY DEF Orderly, OneDescriptor
<1>3. NotFound # mtime /\ Modified # mtime /\ mtime # 0
  BY <1>1 DEF NotFound, Modified
<1>4. CASE Serve(t)
  <2>1. UNCHANGED <<cache, stamp, pc, buf>>
    BY <1>4, ServeFrame
  <2>2. VouchOK(host[t])'
    BY <1>1, <2>1
  <2>3. CASE FetchFstat(t)
    <3>1. pc[t] = "fetch" /\ reply'[t].data = reply[t].data
      BY <2>3 DEF FetchFstat, Handled, Answer
    <3>2. reply[t].data = file
      BY <2>3 DEF FetchFstat, Handled, SerialInv, BetweenOK
    <3> QED
      BY <1>1, <2>1, <2>2, <3>1, <3>2 DEF Replied
  <2>4. CASE StoreLstat(t)
    <3>1. pc[t] = "store" /\ buf[t] = file
      BY <2>4 DEF StoreLstat, Handled, SerialInv, BetweenOK
    <3> QED
      BY <1>1, <2>1, <2>2, <3>1 DEF Replied
  <2>5. CASE Refuse(t)
    <3>1. reply'[t].time = 0
      BY <2>5 DEF Refuse, Answer
    <3> QED
      BY <1>1, <1>3, <2>1, <2>2, <3>1 DEF Replied
  <2>6. CASE ServeGetattr(t)
    BY <1>1, <2>1, <2>2, <2>6 DEF ServeGetattr, Begins, Waiting, Replied
  <2>7. CASE \/ FetchOpen(t) \/ FetchRead(t) \/ StoreOpen(t) \/ StoreWrite(t)
    <3>1. stage'[t] # "done"
      BY <2>7 DEF FetchOpen, FetchRead, StoreOpen, StoreWrite, Advance, CallsInv
    <3> QED
      BY <1>1, <2>1, <2>2, <3>1 DEF Replied
  <2> QED
    BY <1>4, <2>3, <2>4, <2>5, <2>6, <2>7, OrderlyCalls DEF Serve
<1>5. CASE OpenBegin(t)
  BY <1>1, <1>2, <1>3, <1>5 DEF OpenBegin, Goto, Replied
<1>6. CASE OpenCompare(t)
  <2>1. PICK stale \in BOOLEAN :
          Judge(t, stale) /\ (stale => reply[t].time > stamp[host[t]])
    BY <1>1, <1>6 DEF OpenCompare, Replied
  <2>2. UNCHANGED stamp /\ pc[t] = "getattr"
    BY <1>6 DEF OpenCompare, Replied
  <2>3. stale => stamp[host[t]] # mtime
    BY <1>1, <2>1, ReplyType
  <2> QED
    BY <1>1, <1>2, <1>3, <2>1, <2>2, <2>3 DEF Judge, Goto, Replied
<1>7. CASE OpenFetched(t)
  BY <1>1, <1>2, <1>3, <1>7 DEF OpenFetched, Put, Goto, Replied
<1>8. CASE OpenInstall(t)
  <2>1. cache'[host[t]] = <<>> \o buf[t] /\ pc'[t] = "open" /\ UNCHANGED stamp
    BY <1>1, <1>8 DEF OpenInstall, Goto
  <2>2. <<>> \o buf[t] = buf[t]
    BY ConcatEmptySeq DEF Data
  <2>3. stamp[host[t]] = mtime => buf[t] = file
    BY <1>1, <1>8 DEF OpenInstall
  <2> QED
    BY <1>1, <1>2, <2>1, <2>2, <2>3 DEF Replied
<1>9. CASE Write(t)
  BY <1>1, <1>2, <1>3, <1>9 DEF Write, Put, Replied
<1>10. CASE Release(t)
  BY <1>1, <1>2, <1>3, <1>10 DEF Release, Goto, Replied, machine
<1>11. CASE StoreReturn(t)
  BY <1>1, <1>2, <1>3, <1>11 DEF StoreReturn, Goto, Put, Replied
<1>12. CASE Retry(t)
  BY <1>1, <1>2, <1>3, <1>12 DEF Retry, Goto, Replied
<1>13. CASE FetchGiveUp(t)
  BY <1>1, <1>2, <1>3, <1>13 DEF FetchGiveUp, Goto, Replied
<1>14. CASE StoreGiveUp(t)
  BY <1>1, <1>2, <1>3, <1>14 DEF StoreGiveUp, Goto, Replied
<1> QED
  BY <1>4, <1>5, <1>6, <1>7, <1>8, <1>9, <1>10, <1>11, <1>12, <1>13, <1>14,
     OrderlyCalls DEF Progress, Call

(* No step makes a copy that is not the file look fresh.                  *)
LEMMA StepTrust ==
  /\ Orderly /\ TypeOK /\ TimesInv /\ CallsInv /\ SerialInv /\ TrustInv
  /\ [Next]_vars
  => TrustInv'
<1> SUFFICES ASSUME Orderly, TypeOK, TimesInv, CallsInv, SerialInv, TrustInv,
                    [Next]_vars, mtime' < NSEC
             PROVE  TrustInv'
  BY DEF TrustInv
<1>1. CASE UNCHANGED vars
  BY <1>1 DEF vars, TrustInv, VouchOK, ReplyOK, Replied
<1>2. ASSUME NEW t \in Thread, StoreOpen(t) \/ StoreWrite(t)
      PROVE  TrustInv'
  <2>1. UNCHANGED <<cache, stamp, pc, buf, reply>> /\ pc[t] = "store"
    BY <1>2 DEF StoreOpen, StoreWrite, Advance, Begins, Waiting, Handled, machine
  <2>2. \A u \in Thread : reply[u].time # mtime'
    BY <1>2, ModifiedUnseen
  <2>3. \A c \in Client : stamp[c] # mtime'
    BY <1>2, ModifiedUnseen
  <2>4. \A c \in Client : VouchOK(c)'
    BY <2>1, <2>3 DEF VouchOK
  <2>5. \A u \in Thread : ReplyOK(u)'
    BY <2>1, <2>2, <2>3, HostType DEF ReplyOK, Replied
  <2> QED
    BY <2>4, <2>5 DEF TrustInv
<1>3. ASSUME NEW t \in Thread, Progress(t) \/ Call(t), ~StoreOpen(t), ~StoreWrite(t)
      PROVE  TrustInv'
  <2>1. UNCHANGED server
    BY <1>3, OrderlyCalls
    DEF Progress, Call, Serve, ServeGetattr, FetchOpen, FetchRead, FetchFstat,
        StoreLstat, Refuse, OpenBegin, OpenCompare, OpenFetched, OpenInstall, Write,
        Release, StoreReturn, Retry, FetchGiveUp, StoreGiveUp, server
  <2>2. file' = file /\ mtime' = mtime /\ mtime < NSEC
    BY <2>1 DEF server
  <2>3. ASSUME NEW c \in Client PROVE VouchOK(c)'
    <3>1. CASE c = host[t]
      BY <1>3, <2>1, <2>2, <3>1, ActorTrust
    <3>2. CASE c # host[t]
      BY <1>3, <2>2, <3>2, Frame DEF VouchOK, TrustInv, Orderly
    <3> QED
      BY <3>1, <3>2
  <2>4. ASSUME NEW u \in Thread PROVE ReplyOK(u)'
    <3>1. CASE u = t
      BY <1>3, <2>1, <2>2, <3>1, ActorTrust
    <3>2. CASE u # t
      BY <1>3, <2>2, <3>2, Frame, HostType
      DEF Orderly, OneDescriptor, ReplyOK, Replied, TrustInv
    <3> QED
      BY <3>1, <3>2
  <2> QED
    BY <2>3, <2>4 DEF TrustInv
<1> QED
  BY <1>1, <1>2, <1>3, OrderlyNext

(* All that keeps validation sound.                                        *)
ValidInv ==
  /\ TypeOK /\ LinkedIsCached /\ HandledExists /\ TimesInv
  /\ CallsInv /\ SerialInv /\ TrustInv

(* It holds at first.                                                      *)
LEMMA ValidationStarts == Orderly /\ Init => ValidInv
<1> SUFFICES ASSUME Orderly, Init PROVE ValidInv
  OBVIOUS
<1>1. TypeOK /\ LinkedIsCached /\ HandledExists /\ TimesInv
  BY InitType, InitHandled DEF Init, LinkedIsCached, TimesInv, NotFound, NoReply
<1>2. CallsInv
  <2>1. file # NoFile
    BY DataFacts, ConstantsOK DEF Init, Orderly
  <2> QED
    BY <2>1, HostType DEF Init, CallsInv, CallOK, EntryOK
<1>3. TrustInv
  BY HostType DEF Init, TrustInv, VouchOK, ReplyOK, Replied, NotFound
<1>4. SerialInv
  BY DEF Init, SerialInv, BetweenOK, Running
<1> QED
  BY <1>1, <1>2, <1>3, <1>4 DEF ValidInv

(* Every step keeps it.                                                    *)
LEMMA StepValid == Orderly /\ ValidInv /\ [Next]_vars => ValidInv'
  BY StepType, StepLinked, StepHandled, StepTimes, StepCalls, StepSerial, StepTrust
  DEF ValidInv

(* Validation is sound when no handler of the file overlaps another, which *)
(* the server does not see to: for any number of machines with one         *)
(* descriptor each, whatever fetches and stores fail or are refused, a     *)
(* cached copy that afs_OPEN would accept as fresh is the file the server  *)
(* has, until the server's clock passes a second.                          *)
THEOREM ValidationIsSound ==
  Orderly => (Spec => [](mtime < NSEC => TrustedCopyIsCurrent))
<1> SUFFICES ASSUME Orderly
             PROVE  Spec => [](mtime < NSEC => TrustedCopyIsCurrent)
  OBVIOUS
<1>1. Init => ValidInv
  BY ValidationStarts
<1>2. ValidInv /\ [Next]_vars => ValidInv'
  BY StepValid
<1>3. ValidInv => (mtime < NSEC => TrustedCopyIsCurrent)
  <2> SUFFICES ASSUME ValidInv, mtime < NSEC, NEW c \in Client, Settled(c), Trusted(c)
               PROVE  cache[c] = file
    BY DEF TrustedCopyIsCurrent
  <2>1. stamp[c] = mtime
    <3>1. /\ mtime \in Nat /\ Nsec(mtime) = mtime /\ stamp[c] \in Int
          /\ stamp[c] <= mtime /\ mtime <= stamp[c]
      BY NsecFacts
      DEF ValidInv, TypeOK, Stamp, NotFound, Modified, TimesInv, Trusted
    <3> QED
      BY <3>1
  <2> QED
    BY <2>1 DEF ValidInv, TrustInv, VouchOK, Settled, On
<1> QED
  BY <1>1, <1>2, <1>3, PTL DEF Spec

-----------------------------------------------------------------------------
(***************************************************************************)
(* Flushing: what becomes of a modification.                               *)
(***************************************************************************)

(* No step leaves a modified flag without a descriptor to flush it.       *)
LEMMA StepOwner ==
  "store" \notin Lossy /\ TypeOK /\ ModifiedHasOwner /\ [Next]_vars
  => ModifiedHasOwner'
<1> SUFFICES ASSUME "store" \notin Lossy, TypeOK, ModifiedHasOwner, [Next]_vars,
                    NEW c \in Client, stamp'[c] = Modified
             PROVE  \E t \in Thread : host[t] = c /\ pc'[t] \in {"open", "store"}
  BY DEF ModifiedHasOwner, On
<1> DEFINE Owned == \E t \in Thread : host[t] = c /\ pc[t] \in {"open", "store"}
<1>1. stamp[c] = Modified => Owned
  BY DEF ModifiedHasOwner, On
<1>2. \A t \in Thread : reply[t].time # Modified
  BY ReplyType DEF Modified
<1>3. CASE UNCHANGED <<stamp, pc>>
  BY <1>1, <1>3
<1>4. ASSUME NEW t \in Thread, Write(t)
      PROVE  \E u \in Thread : host[u] = c /\ pc'[u] \in {"open", "store"}
  <2>1. CASE c = host[t]
    BY <1>4, <2>1 DEF Write
  <2>2. CASE c # host[t]
    BY <1>1, <1>4, <2>2 DEF Write, Put, TypeOK
  <2> QED
    BY <2>1, <2>2
<1>5. ASSUME NEW t \in Thread, Progress(t) \/ Call(t), ~Serve(t), ~Write(t)
      PROVE  \E u \in Thread : host[u] = c /\ pc'[u] \in {"open", "store"}
  <2>1. \A u \in Thread : u # t => pc'[u] = pc[u]
    BY <1>5 DEF Progress, Call, OpenBegin, OpenCompare, OpenFetched, OpenInstall,
                Create, CreateReturn, Release, StoreReturn, Unlink, UnlinkReturn,
                Retry, GetattrGiveUp, FetchGiveUp, StoreGiveUp, FailOnce, Judge,
                Goto, TypeOK
  <2>2. stamp'[c] = stamp[c]
    <3>1. ~Put(t, Modified) \/ UNCHANGED stamp
      BY <1>2, <1>5
      DEF Progress, Call, OpenBegin, OpenCompare, OpenFetched, OpenInstall,
          Create, CreateReturn, Release, StoreReturn, Unlink, UnlinkReturn,
          Retry, GetattrGiveUp, FetchGiveUp, StoreGiveUp, FailOnce, Put, machine,
          TypeOK
    <3> QED
      BY <1>2, <1>5, <3>1, StepEntries DEF Put, TypeOK
  <2>3. PICK u \in Thread : host[u] = c /\ pc[u] \in {"open", "store"}
    BY <1>1, <2>2
  <2>4. CASE u # t
    BY <2>1, <2>3, <2>4
  <2>5. CASE u = t
    <3>1. ~StoreReturn(t)
      BY <1>2, <2>3, <2>5 DEF StoreReturn, Put, TypeOK
    <3>2. Release(t) \/ Retry(t)
      BY <1>5, <2>3, <2>5, <3>1
      DEF Progress, Call, OpenBegin, OpenCompare, OpenFetched, OpenInstall,
          Create, CreateReturn, Unlink, UnlinkReturn, GetattrGiveUp, FetchGiveUp,
          StoreGiveUp, GiveUp, Fails, FailOnce, Replied
    <3> QED
      BY <2>2, <2>3, <2>5, <3>2 DEF Release, Retry, Goto, TypeOK
  <2> QED
    BY <2>4, <2>5
<1>6. ASSUME NEW t \in Thread, Serve(t)
      PROVE  UNCHANGED <<stamp, pc>>
  BY <1>6, ServeFrame
<1>7. ASSUME NEW d \in Client, Truncate(d)
      PROVE  UNCHANGED <<stamp, pc>>
  BY <1>7 DEF Truncate
<1> QED
  BY <1>3, <1>4, <1>5, <1>6, <1>7 DEF Next, vars

(* As long as stores get through to the server, a modification always has  *)
(* a descriptor whose afs_RELEASE will flush it: with any number of        *)
(* descriptors on a machine, even when a store is refused.                 *)
THEOREM ModificationsHaveOwners ==
  "store" \notin Lossy => (Spec => []ModifiedHasOwner)
<1> SUFFICES ASSUME "store" \notin Lossy PROVE Spec => []ModifiedHasOwner
  OBVIOUS
<1>1. Init => ModifiedHasOwner
  BY DEF Init, ModifiedHasOwner, NotFound, Modified
<1>2. TypeOK /\ ModifiedHasOwner /\ [Next]_vars => ModifiedHasOwner'
  BY StepOwner
<1> QED
  BY <1>1, <1>2, TypeCorrect, PTL DEF Spec

(* The server refuses no store.                                            *)
StoresAccepted == \A t \in Thread : pc[t] = "store" => ~reply[t].err

(* No step brings a reply that refuses a store.                           *)
LEMMA StepAccepted ==
  "store" \notin Refusable /\ TypeOK /\ StoresAccepted /\ [Next]_vars
  => StoresAccepted'
<1> SUFFICES ASSUME "store" \notin Refusable, TypeOK, StoresAccepted, [Next]_vars,
                    NEW u \in Thread, pc'[u] = "store"
             PROVE  ~reply'[u].err
  BY DEF StoresAccepted
<1>1. CASE UNCHANGED <<pc, reply>>
  BY <1>1 DEF StoresAccepted
<1>2. ASSUME NEW t \in Thread, Serve(t)
      PROVE  ~reply'[u].err
  <2>1. pc[u] = "store" /\ ~reply[u].err
    BY <1>2, ServeFrame DEF StoresAccepted
  <2>2. CASE u = t
    <3>1. StoreOpen(t) \/ StoreWrite(t) \/ StoreLstat(t)
      BY <1>2, <2>1, <2>2 DEF Serve, ServeGetattr, FetchOpen, FetchRead, FetchFstat,
                              CreateOpen, CreateLstat, ServeUnlink, Refuse,
                              Begins, Waiting, Handled
    <3> QED
      BY <2>1, <2>2, <3>1 DEF StoreOpen, StoreWrite, StoreLstat, Answer, TypeOK
  <2>3. CASE u # t
    BY <1>2, <2>1, <2>3, ServeFrame
  <2> QED
    BY <2>2, <2>3
<1>3. ASSUME NEW t \in Thread, Progress(t) \/ Call(t), ~Serve(t)
      PROVE  ~reply'[u].err
  <2>1. \/ reply'[u] = NoReply
        \/ reply'[u] = reply[u] /\ pc'[u] = pc[u]
    BY <1>3
    DEF Progress, Call, OpenBegin, OpenCompare, OpenFetched, OpenInstall, Create,
        CreateReturn, Write, Release, StoreReturn, Unlink, UnlinkReturn, Retry,
        GetattrGiveUp, FetchGiveUp, StoreGiveUp, FailOnce, Judge, Goto, TypeOK
  <2> QED
    BY <2>1 DEF StoresAccepted, NoReply
<1>4. ASSUME NEW c \in Client, Truncate(c)
      PROVE  UNCHANGED <<pc, reply>>
  BY <1>4 DEF Truncate
<1> QED
  BY <1>1, <1>2, <1>3, <1>4 DEF Next, vars

(* An image on its way to the server is the flagged copy it was read from: *)
(* with one descriptor per machine, nothing touches the copy meanwhile.    *)
StoresCopy ==
  \A t \in Thread :
    pc[t] = "store" => stamp[host[t]] = Modified /\ buf[t] = cache[host[t]]

(* No step changes a copy that is being stored.                            *)
LEMMA StepCopy ==
  /\ OneDescriptor /\ "truncate" \notin Calls /\ "store" \notin Lossy
  /\ TypeOK /\ HeldIsCached /\ StoresCopy /\ [Next]_vars
  => StoresCopy'
<1> SUFFICES ASSUME OneDescriptor, "truncate" \notin Calls, "store" \notin Lossy,
                    TypeOK, HeldIsCached, StoresCopy, [Next]_vars,
                    NEW u \in Thread, pc'[u] = "store"
             PROVE  stamp'[host[u]] = Modified /\ buf'[u] = cache'[host[u]]
  BY DEF StoresCopy
<1>1. ASSUME NEW t \in Thread, Progress(t) \/ Call(t)
      PROVE  stamp'[host[u]] = Modified /\ buf'[u] = cache'[host[u]]
  <2>1. CASE u # t
    BY <1>1, <2>1, Frame, HostType DEF OneDescriptor, StoresCopy
  <2>2. CASE u = t
    <3>1. CASE Serve(t)
      BY <2>2, <3>1, ServeFrame DEF StoresCopy
    <3>2. CASE Release(t)
      BY <2>2, <3>2 DEF Release, Images, Goto, machine, HeldIsCached, TypeOK
    <3>3. CASE ~Serve(t) /\ ~Release(t)
      BY <1>1, <2>2, <3>3
      DEF Progress, Call, OpenBegin, OpenCompare, OpenFetched, OpenInstall,
          Create, CreateReturn, Write, StoreReturn, Unlink, UnlinkReturn, Retry,
          Fails, GetattrGiveUp, FetchGiveUp, StoreGiveUp, FailOnce, Judge, Goto,
          TypeOK
    <3> QED
      BY <3>1, <3>2, <3>3
  <2> QED
    BY <2>1, <2>2
<1>2. CASE UNCHANGED vars
  BY <1>2 DEF vars, StoresCopy
<1> QED
  BY <1>1, <1>2 DEF Next, Truncate, MayUpdate

(* With one descriptor per machine and stores that neither fail nor are    *)
(* refused, a modified flag is only ever cleared by the return of a store  *)
(* of the very image the cached file holds: no modification is dropped,    *)
(* whatever is created, unlinked and fetched, and whatever else fails.     *)
THEOREM ModificationsAreFlushed ==
  OneDescriptor /\ "truncate" \notin Calls /\ "store" \notin Lossy \cup Refusable
  => (Spec => ModifiedIsFlushed)
<1> SUFFICES ASSUME OneDescriptor, "truncate" \notin Calls,
                    "store" \notin Lossy \cup Refusable
             PROVE  Spec => ModifiedIsFlushed
  OBVIOUS
<1> DEFINE Inv == /\ TypeOK /\ LinkedIsCached /\ HandledExists /\ HeldIsCached
                  /\ ModifiedHasOwner /\ StoresAccepted /\ StoresCopy
           Flush(c) == stamp[c] = Modified /\ stamp'[c] # Modified =>
                         \E t \in On(c) : /\ Replied(t, "store")
                                          /\ pc'[t] = "idle"
                                          /\ ~reply[t].err
                                          /\ buf[t] = cache[c]
<1>1. Init => Inv
  BY InitType, InitHandled
              DEF Init, LinkedIsCached, HeldIsCached, ModifiedHasOwner,
                  StoresAccepted, StoresCopy, NotFound, Modified
<1>2. Inv /\ [Next]_vars => Inv'
  BY StepType, StepLinked, StepHandled, StepHeld, StepOwner, StepAccepted, StepCopy
<1>3. Inv /\ [Next]_vars => \A c \in Client : Flush(c)
  <2> SUFFICES ASSUME Inv, [Next]_vars, NEW c \in Client,
                      stamp[c] = Modified, stamp'[c] # Modified
               PROVE  \E t \in On(c) : /\ Replied(t, "store")
                                       /\ pc'[t] = "idle"
                                       /\ ~reply[t].err
                                       /\ buf[t] = cache[c]
    OBVIOUS
  <2>1. PICK t \in Thread : Progress(t) \/ Call(t)
    BY DEF Next, Truncate, MayUpdate, vars
  <2>2. PICK u \in Thread : host[u] = c /\ pc[u] \in {"open", "store"}
    BY DEF ModifiedHasOwner, On
  <2>3. u = t
    BY <2>1, <2>2, Frame DEF OneDescriptor
  <2>4. StoreReturn(t)
    <3>1. ~Serve(t) /\ ~Write(t)
      BY ServeFrame DEF Write, Put, TypeOK
    <3> QED
      BY <2>1, <2>2, <2>3, <3>1
      DEF Progress, Call, OpenBegin, OpenCompare, OpenFetched, OpenInstall,
          Create, CreateReturn, Release, Unlink, UnlinkReturn, Retry,
          GetattrGiveUp, FetchGiveUp, StoreGiveUp, FailOnce, Replied, machine
  <2> QED
    BY <2>2, <2>3, <2>4
    DEF StoreReturn, Goto, Replied, StoresCopy, StoresAccepted, On, TypeOK
<1> QED
  <2>1. Spec => [][\A c \in Client : Flush(c)]_vars
    BY <1>1, <1>2, <1>3, PTL DEF Spec
  <2> QED
    BY <2>1, PTL DEF ModifiedIsFlushed

=============================================================================
