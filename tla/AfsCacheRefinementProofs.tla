---------------------- MODULE AfsCacheRefinementProofs ----------------------
(***************************************************************************)
(* AfsCache implements CloseToOpen when no handler of the file overlaps    *)
(* another, for every number of machines, contents of the file, lengths    *)
(* and clock steps, until the server's clock passes a second.              *)
(***************************************************************************)
EXTENDS AfsCacheRefinement, AfsCacheProofs

(* Beyond what Orderly says, no RPC of a call that opens or closes fails or *)
(* is refused: a FETCH that is given up opens the file with what was in    *)
(* memory, and a STORE that is refused loses the image.                    *)
NothingFails == {"fetch", "store"} \cap (Lossy \cup Refusable) = {}

(* What the proof needs of a state.                                        *)
ViewsInv ==
  /\ TypeOK /\ LinkedIsCached /\ HandledExists /\ TimesInv
  /\ CallsInv /\ SerialInv /\ TrustInv /\ ModifiedHasOwner

-----------------------------------------------------------------------------
(***************************************************************************)
(* From one descriptor to all.                                             *)
(***************************************************************************)

(* A step of one descriptor leaves what the others work on.                *)
LEMMA OtherViews ==
  ASSUME OneDescriptor, TypeOK, NEW t \in Thread, Progress(t) \/ Call(t),
         NEW u \in Thread, u # t
  PROVE  /\ ViewOf(u)' = ViewOf(u)
         /\ u \in WrittenBy' <=> u \in WrittenBy
<1>1. /\ pc'[u] = pc[u] /\ stage'[u] = stage[u]
      /\ reply'[u] = reply[u] /\ buf'[u] = buf[u]
      /\ cache'[host[u]] = cache[host[u]] /\ stamp'[host[u]] = stamp[host[u]]
  BY Frame, HostType DEF OneDescriptor
<1> QED
  BY <1>1 DEF ViewOf, Accepts, WrittenBy, Replied, Waiting

(* Only a handler changes the version that is published.                   *)
LEMMA PublishedStays ==
  ASSUME OneDescriptor, TypeOK, NEW t \in Thread, Progress(t) \/ Call(t), ~Serve(t)
  PROVE  Published' = Published
<1>1. file' = file
  BY DEF Progress, Call, OpenBegin, OpenCompare, OpenFetched, OpenInstall, Create,
         CreateReturn, Write, Release, StoreReturn, Unlink, UnlinkReturn, Retry,
         GetattrGiveUp, FetchGiveUp, StoreGiveUp, FailOnce, server
<1>2. t \notin Storing
  BY DEF Progress, Call, OpenBegin, OpenCompare, OpenFetched, OpenInstall, Create,
         CreateReturn, Write, Release, StoreReturn, Unlink, UnlinkReturn, Retry,
         GetattrGiveUp, FetchGiveUp, StoreGiveUp, GiveUp, FailOnce, Fails, Running,
         Replied, Storing, Handled
<1>3. UNCHANGED <<pc, stage>> \/ stage'[t] = "begin"
  BY DEF Progress, Call, OpenBegin, OpenCompare, OpenFetched, OpenInstall, Create,
         CreateReturn, Write, Release, StoreReturn, Unlink, UnlinkReturn, Retry,
         GetattrGiveUp, FetchGiveUp, StoreGiveUp, FailOnce, Judge, Goto, TypeOK
<1>4. ASSUME NEW u \in Thread
      PROVE  /\ u \in Storing' <=> u \in Storing
             /\ u \in Storing => buf'[u] = buf[u]
  BY <1>2, <1>3, Frame DEF Storing, Handled
<1>5. Storing' = Storing
  BY <1>4 DEF Storing
<1> QED
  <2>1. CASE Storing = {}
    BY <1>1, <1>5, <2>1 DEF Published
  <2>2. CASE Storing # {}
    <3>1. (CHOOSE u \in Storing : TRUE) \in Storing
      BY <2>2
    <3>2. buf'[CHOOSE u \in Storing : TRUE] = buf[CHOOSE u \in Storing : TRUE]
      BY <1>4, <3>1 DEF Storing
    <3> QED
      BY <1>5, <2>2, <3>2 DEF Published
  <2> QED
    BY <2>1, <2>2

(* Under a handler's step the version published is the image of the STORE  *)
(* it is a step of, or the file.                                           *)
LEMMA PublishedByHandler ==
  ASSUME Orderly, ViewsInv, NEW t \in Thread, Serve(t), ~Refuse(t)
  PROVE  /\ Published = IF Handled(t, "store", "write") THEN buf[t] ELSE file
         /\ Published' = IF Handled(t, "store", "write")' THEN buf'[t] ELSE file'
<1>1. Running = {} \/ t \in Running
  <2>1. CASE ServeGetattr(t) \/ FetchOpen(t) \/ StoreOpen(t)
    BY <2>1, OrderlyBegins DEF ServeGetattr, FetchOpen, StoreOpen
  <2>2. CASE FetchRead(t) \/ FetchFstat(t) \/ StoreWrite(t) \/ StoreLstat(t)
    BY <2>2 DEF FetchRead, FetchFstat, StoreWrite, StoreLstat, Handled, Running
  <2> QED
    BY <2>1, <2>2, OrderlyCalls DEF Serve, ViewsInv
<1>2. \A u \in Thread : u # t => u \notin Storing
  BY <1>1 DEF Storing, Handled, Running, ViewsInv, SerialInv
<1>3. \A u \in Thread : u # t => u \notin Storing'
  BY <1>2, ServeFrame DEF Storing, Handled, ViewsInv
<1>4. Storing = IF Handled(t, "store", "write") THEN {t} ELSE {}
  BY <1>2 DEF Storing
<1>5. Storing' = IF Handled(t, "store", "write")' THEN {t} ELSE {}
  BY <1>3 DEF Storing
<1>6. (CHOOSE u \in {t} : TRUE) = t
  OBVIOUS
<1> QED
  BY <1>4, <1>5, <1>6 DEF Published

(* So the step is the one of CloseToOpen that the descriptor itself makes. *)
LEMMA StepOfOne ==
  ASSUME OneDescriptor, TypeOK, NEW t \in Thread, Progress(t) \/ Call(t)
  PROVE  /\ /\ ViewOf(t)' = ViewOf(t) /\ Published' = Published
            /\ t \in WrittenBy' <=> t \in WrittenBy
            => UNCHANGED Promise!absVars
         /\ /\ ViewOf(t) = NoFile /\ ViewOf(t)' = Published /\ Published' = Published
            /\ t \in WrittenBy' <=> t \in WrittenBy
            => Promise!OpenSession(t)
         /\ /\ ViewOf(t) # NoFile /\ ViewOf(t)' \in Data /\ Published' = Published
            /\ t \in WrittenBy'
            => Promise!WriteSession(t)
         /\ /\ ViewOf(t) # NoFile /\ ViewOf(t)' = NoFile /\ t \notin WrittenBy'
            /\ Published' = IF t \in WrittenBy THEN ViewOf(t) ELSE Published
            => Promise!CloseSession(t)
<1> DEFINE view == [u \in Thread |-> ViewOf(u)]
<1>1. ASSUME NEW u \in Thread, u # t
      PROVE  /\ ViewOf(u)' = ViewOf(u)
             /\ u \in WrittenBy' <=> u \in WrittenBy
  BY <1>1, OtherViews
<1>2. /\ view = [u \in Thread |-> ViewOf(u)] /\ view' = [u \in Thread |-> ViewOf(u)']
      /\ WrittenBy = {u \in Thread : u \in WrittenBy}
      /\ WrittenBy' = {u \in Thread : u \in WrittenBy'}
  BY DEF WrittenBy
<1> HIDE DEF view
<1>3. /\ view' = [view EXCEPT ![t] = ViewOf(t)']
      /\ view[t] = ViewOf(t) /\ view'[t] = ViewOf(t)'
  BY <1>1, <1>2
<1>4. ViewOf(t)' = ViewOf(t) => view' = view
  BY <1>1, <1>2
<1>5. ASSUME t \in WrittenBy' <=> t \in WrittenBy
      PROVE  WrittenBy' = WrittenBy
  BY <1>1, <1>2, <1>5
<1>6. ASSUME t \in WrittenBy'
      PROVE  WrittenBy' = WrittenBy \cup {t}
  BY <1>1, <1>2, <1>6
<1>7. ASSUME t \notin WrittenBy'
      PROVE  WrittenBy' = WrittenBy \ {t}
  BY <1>1, <1>2, <1>7
<1> QED
  BY <1>3, <1>4, <1>5, <1>6, <1>7
  DEF view, Promise!absVars, Promise!OpenSession, Promise!WriteSession, Promise!CloseSession

-----------------------------------------------------------------------------
(***************************************************************************)
(* The steps of a descriptor.                                              *)
(***************************************************************************)

(* What is known of the descriptor that takes the step.                    *)
LEMMA ActorFacts ==
  ASSUME Orderly, ViewsInv, mtime < NSEC, NEW t \in Thread
  PROVE  /\ host[t] \in Client /\ pc[t] \in PC /\ file \in Data /\ buf[t] \in Data
         /\ cache[host[t]] \in Data \cup {NoFile} /\ NoFile \notin Data
         /\ CallOK(t) /\ ReplyOK(t)
         /\ stamp[host[t]] \in Int /\ stamp[host[t]] <= mtime /\ Nsec(mtime) = mtime
         /\ reply[t].time \in Nat /\ reply[t].time # Modified /\ reply[t].data \in Data
         /\ stamp[host[t]] = mtime /\ pc[t] # "install" => cache[host[t]] = file
         /\ stamp[host[t]] = Modified => pc[t] \in {"open", "store"}
<1>1. host[t] \in Client /\ \A u \in Thread : host[u] = host[t] => u = t
  BY HostType DEF Orderly, OneDescriptor
<1>2. /\ mtime \in Nat /\ stamp[host[t]] \in Stamp
      /\ stamp[host[t]] <= mtime /\ Nsec(mtime) = mtime
  BY <1>1, NsecFacts DEF ViewsInv, TypeOK, TimesInv
<1>3. stamp[host[t]] \in Int
  BY <1>2 DEF Stamp, NotFound, Modified
<1>4. reply[t].time \in Nat /\ reply[t].time # Modified /\ reply[t].data \in Data
  BY ReplyType DEF ViewsInv, Modified
<1>5. file \in Data
  BY DEF ViewsInv, TypeOK, CallsInv
<1>6. stamp[host[t]] = mtime /\ pc[t] # "install" => cache[host[t]] = file
  BY <1>1 DEF ViewsInv, TrustInv, VouchOK
<1>7. stamp[host[t]] = Modified => pc[t] \in {"open", "store"}
  BY <1>1 DEF ViewsInv, ModifiedHasOwner, On
<1>8. CallOK(t) /\ ReplyOK(t)
  BY DEF ViewsInv, CallsInv, TrustInv
<1> QED
  BY <1>1, <1>2, <1>3, <1>4, <1>5, <1>6, <1>7, <1>8, ConstantsOK DEF ViewsInv, TypeOK

(* What a handler's step decides: an open by the lstat() of a GETATTR that *)
(* vouches for the copy or by the fstat() of a FETCH, a close by the open() *)
(* of a STORE.                                                             *)
LEMMA ServeRefines ==
  ASSUME Orderly, NothingFails, ViewsInv, mtime < NSEC, NEW t \in Thread, Serve(t)
  PROVE  UNCHANGED Promise!absVars \/ Promise!OpenSession(t) \/ Promise!CloseSession(t)
<1> USE DEF ViewOf, WrittenBy, Accepts, Replied, Waiting, Handled
<1>1. /\ ViewsInv /\ TypeOK /\ OneDescriptor /\ Progress(t) /\ CallsInv
  BY DEF ViewsInv, Orderly, Progress
<1>2. ~Refuse(t)
  BY ActorFacts, ConstantsOK DEF Refuse, Orderly, NothingFails, CallOK, Rpcs
<1>3. UNCHANGED <<cache, stamp, pc, buf>> /\ stage \in [Thread -> Stage]
      /\ reply \in [Thread -> Reply]
  BY <1>1, ServeFrame DEF TypeOK
<1>4. /\ Published = IF pc[t] = "store" /\ stage[t] = "write" THEN buf[t] ELSE file
      /\ Published' = IF pc'[t] = "store" /\ stage'[t] = "write" THEN buf'[t] ELSE file'
  BY <1>2, PublishedByHandler
<1>5. CASE ServeGetattr(t)
  <2>1. /\ pc[t] = "getattr" /\ stage[t] = "begin" /\ stage'[t] = "done"
        /\ reply'[t].time = mtime /\ file' = file
    BY <1>1, <1>3, <1>5, ActorFacts DEF ServeGetattr, Begins, Answer, server, CallsInv
  <2>2. /\ ViewOf(t) = NoFile /\ t \notin WrittenBy /\ t \notin WrittenBy'
        /\ Published = file /\ Published' = file
    BY <1>3, <1>4, <2>1
  <2>3. CASE mtime <= stamp[host[t]]
    <3>1. cache[host[t]] = file
      BY <2>1, <2>3, ActorFacts DEF ViewsInv, TypeOK
    <3>2. ViewOf(t)' = file
      BY <1>3, <2>1, <2>3, <3>1
    <3> QED
      BY <1>1, <2>1, <2>2, <3>2, StepOfOne
  <2>4. CASE ~(mtime <= stamp[host[t]])
    <3>1. ViewOf(t)' = NoFile
      BY <1>3, <2>1, <2>4
    <3> QED
      BY <1>1, <2>1, <2>2, <3>1, StepOfOne
  <2> QED
    BY <2>3, <2>4
<1>6. CASE FetchOpen(t) \/ FetchRead(t)
  <2>1. /\ pc[t] = "fetch" /\ stage[t] # "done" /\ stage'[t] # "done" /\ file' = file
    BY <1>1, <1>3, <1>6
    DEF FetchOpen, FetchRead, Begins, Advance, server, CallsInv
  <2>2. /\ ViewOf(t) = NoFile /\ ViewOf(t)' = NoFile /\ Published' = Published
        /\ t \notin WrittenBy /\ t \notin WrittenBy'
    BY <1>3, <1>4, <2>1
  <2> QED
    BY <1>1, <2>2, StepOfOne
<1>7. CASE FetchFstat(t)
  <2>1. /\ pc[t] = "fetch" /\ stage[t] = "stat" /\ stage'[t] = "done"
        /\ reply'[t].data = reply[t].data /\ file' = file
    BY <1>3, <1>7 DEF FetchFstat, Answer, server
  <2>2. reply[t].data = file
    BY <2>1 DEF ViewsInv, SerialInv, BetweenOK
  <2>3. /\ ViewOf(t) = NoFile /\ ViewOf(t)' = Published /\ Published' = Published
        /\ t \notin WrittenBy /\ t \notin WrittenBy'
    BY <1>3, <1>4, <2>1, <2>2
  <2> QED
    BY <1>1, <2>3, StepOfOne
<1>8. CASE StoreOpen(t)
  <2>1. pc[t] = "store" /\ stage[t] = "begin" /\ stage'[t] = "write"
    BY <1>3, <1>8 DEF StoreOpen, Begins, Advance
  <2>2. /\ ViewOf(t) = buf[t] /\ ViewOf(t)' = NoFile /\ Published' = buf[t]
        /\ t \in WrittenBy /\ t \notin WrittenBy'
    BY <1>3, <1>4, <2>1
  <2>3. ViewOf(t) # NoFile
    BY <2>2, ActorFacts
  <2> QED
    BY <1>1, <2>2, <2>3, StepOfOne
<1>9. CASE StoreWrite(t)
  <2>1. /\ pc[t] = "store" /\ stage[t] = "write" /\ stage'[t] = "stat"
        /\ buf[t] \in Data /\ file' = Overlay(buf[t], file)
    BY <1>3, <1>9, ActorFacts DEF StoreWrite, Advance
  <2>2. file = <<>>
    BY <2>1 DEF ViewsInv, SerialInv, BetweenOK
  <2>3. file' = buf[t]
    BY <2>1, <2>2, OverlayFacts, DataFacts
  <2>4. /\ ViewOf(t) = NoFile /\ ViewOf(t)' = NoFile /\ Published' = Published
        /\ t \notin WrittenBy /\ t \notin WrittenBy'
    BY <1>3, <1>4, <2>1, <2>3
  <2> QED
    BY <1>1, <2>4, StepOfOne
<1>10. CASE StoreLstat(t)
  <2>1. /\ pc[t] = "store" /\ stage[t] = "stat" /\ stage'[t] = "done" /\ file' = file
    BY <1>3, <1>10 DEF StoreLstat, Answer, server
  <2>2. /\ ViewOf(t) = NoFile /\ ViewOf(t)' = NoFile /\ Published' = Published
        /\ t \notin WrittenBy /\ t \notin WrittenBy'
    BY <1>3, <1>4, <2>1
  <2> QED
    BY <1>1, <2>2, StepOfOne
<1> QED
  BY <1>1, <1>2, <1>5, <1>6, <1>7, <1>8, <1>9, <1>10, OrderlyCalls DEF Serve

(* A step of a client is not one of a handler.                             *)
LEMMA ClientsDoNotServe ==
  ASSUME TypeOK, NEW t \in Thread,
         \/ OpenBegin(t) \/ OpenCompare(t) \/ OpenFetched(t) \/ OpenInstall(t)
         \/ Write(t) \/ Release(t) \/ StoreReturn(t)
  PROVE  ~Serve(t)
<1>1. pc[t] \in {"idle", "install", "open"} \/ stage[t] = "done"
  BY DEF OpenBegin, OpenCompare, OpenFetched, OpenInstall, Write, Release,
         StoreReturn, Replied
<1> QED
  BY <1>1, ConstantsOK
  DEF Serve, ServeGetattr, FetchOpen, FetchRead, FetchFstat, StoreOpen, StoreWrite,
      StoreLstat, CreateOpen, CreateLstat, ServeUnlink, Refuse, Begins, Waiting,
      Handled, Rpcs

(* The rest of an open and of a close: what the descriptor works on stays  *)
(* what it is, wherever it is held.                                        *)
LEMMA ClientStutters ==
  ASSUME Orderly, NothingFails, ViewsInv, mtime < NSEC, NEW t \in Thread,
         \/ OpenBegin(t) \/ OpenCompare(t) \/ OpenFetched(t) \/ OpenInstall(t)
         \/ Release(t) /\ stamp[host[t]] = Modified
         \/ StoreReturn(t)
  PROVE  UNCHANGED Promise!absVars
<1> USE DEF ViewOf, WrittenBy, Accepts, Replied, Waiting
<1>1. /\ TypeOK /\ OneDescriptor
      /\ Progress(t) \/ Call(t)
  BY DEF ViewsInv, Orderly, Progress, Call
<1>2. ASSUME NEW q, NEW d, Goto(t, q, d)
      PROVE  pc'[t] = q /\ stage'[t] = "begin" /\ reply'[t] = NoReply /\ buf'[t] = d
  BY <1>1, <1>2 DEF Goto, TypeOK
<1>3. Published' = Published
  <2>1. ~Serve(t)
    BY <1>1, ClientsDoNotServe
  <2> QED
    BY <1>1, <2>1, PublishedStays
<1>4. CASE OpenBegin(t)
  <2>1. /\ pc[t] = "idle" /\ pc'[t] \in {"fetch", "getattr"} /\ stage'[t] = "begin"
    BY <1>2, <1>4 DEF OpenBegin
  <2>2. ViewOf(t) = NoFile /\ ViewOf(t)' = NoFile /\ t \notin WrittenBy /\ t \notin WrittenBy'
    BY <2>1
  <2> QED
    BY <1>1, <1>3, <2>2, StepOfOne
<1>5. CASE OpenCompare(t)
  <2>1. PICK stale \in BOOLEAN :
          Judge(t, stale) /\ (stale <=> reply[t].time > stamp[host[t]])
    BY <1>5, ActorFacts DEF OpenCompare, CallOK
  <2>2. pc[t] = "getattr" /\ stage[t] = "done" /\ UNCHANGED stamp /\ t \notin WrittenBy
    BY <1>5 DEF OpenCompare
  <2>3. CASE stale
    <3>1. pc'[t] = "fetch" /\ stage'[t] = "begin"
      BY <1>2, <2>1, <2>3 DEF Judge
    <3>2. ViewOf(t) = NoFile /\ ViewOf(t)' = NoFile /\ t \notin WrittenBy'
      BY <2>1, <2>2, <2>3, <3>1, ActorFacts
    <3> QED
      BY <1>1, <1>3, <2>2, <3>2, StepOfOne
  <2>4. CASE ~stale
    <3>1. pc'[t] = "open" /\ UNCHANGED cache
      BY <1>2, <2>1, <2>4 DEF Judge
    <3>2. stamp[host[t]] # Modified
      BY <2>2, ActorFacts
    <3>3. ViewOf(t) = cache[host[t]]
      BY <2>1, <2>2, <2>4, ActorFacts
    <3>4. ViewOf(t)' = cache[host[t]] /\ t \notin WrittenBy'
      BY <2>2, <3>1, <3>2
    <3> QED
      BY <1>1, <1>3, <2>2, <3>3, <3>4, StepOfOne
  <2> QED
    BY <2>3, <2>4
<1>6. CASE OpenFetched(t)
  <2>1. pc[t] = "fetch" /\ stage[t] = "done" /\ pc'[t] = "install" /\ buf'[t] = reply[t].data
    BY <1>2, <1>6 DEF OpenFetched
  <2>2. /\ ViewOf(t) = reply[t].data /\ ViewOf(t)' = reply[t].data
        /\ t \notin WrittenBy /\ t \notin WrittenBy'
    BY <2>1
  <2> QED
    BY <1>1, <1>3, <2>2, StepOfOne
<1>7. CASE OpenInstall(t)
  <2>1. pc[t] = "install" /\ pc'[t] = "open" /\ UNCHANGED stamp
    BY <1>2, <1>7 DEF OpenInstall
  <2>2. stamp[host[t]] # Modified /\ cache[host[t]] = <<>> /\ t \in linked
    BY <2>1, ActorFacts DEF CallOK
  <2>3. cache'[host[t]] = <<>> \o buf[t]
    BY <1>1, <1>7, <2>2, HostType DEF OpenInstall, TypeOK
  <2>4. cache'[host[t]] = buf[t]
    BY <2>3, ActorFacts, ConcatEmptySeq DEF Data
  <2>5. ViewOf(t) = buf[t] /\ ViewOf(t)' = buf[t] /\ t \notin WrittenBy /\ t \notin WrittenBy'
    BY <2>1, <2>2, <2>4
  <2> QED
    BY <1>1, <1>3, <2>5, StepOfOne
<1>8. CASE Release(t) /\ stamp[host[t]] = Modified
  <2>1. pc[t] = "open" /\ cache[host[t]] # NoFile
    BY <1>8, ActorFacts DEF Release, CallOK
  <2>2. Goto(t, "store", cache[host[t]])
    BY <1>8, <2>1 DEF Release, Images
  <2>3. pc'[t] = "store" /\ stage'[t] = "begin" /\ buf'[t] = cache[host[t]]
    BY <1>2, <2>2
  <2>4. /\ ViewOf(t) = cache[host[t]] /\ ViewOf(t)' = cache[host[t]]
        /\ t \in WrittenBy /\ t \in WrittenBy'
    BY <1>8, <2>1, <2>3
  <2> QED
    BY <1>1, <1>3, <2>4, StepOfOne
<1>9. CASE StoreReturn(t)
  <2>1. pc[t] = "store" /\ stage[t] = "done" /\ pc'[t] = "idle"
    BY <1>2, <1>9 DEF StoreReturn
  <2>2. ViewOf(t) = NoFile /\ ViewOf(t)' = NoFile /\ t \notin WrittenBy /\ t \notin WrittenBy'
    BY <2>1
  <2> QED
    BY <1>1, <1>3, <2>2, StepOfOne
<1> QED
  BY <1>4, <1>5, <1>6, <1>7, <1>8, <1>9

(* A write of an open descriptor.                                          *)
LEMMA WriteRefines ==
  ASSUME Orderly, ViewsInv, mtime < NSEC, NEW t \in Thread, Write(t)
  PROVE  Promise!WriteSession(t)
<1>1. TypeOK /\ TypeOK' /\ OneDescriptor /\ Call(t) /\ host[t] \in Client
  <2>1. TypeOK'
    BY CallType DEF ViewsInv
  <2> QED
    BY <2>1, HostType DEF ViewsInv, Orderly, Call
<1>2. pc[t] = "open" /\ cache[host[t]] # NoFile
  BY ActorFacts DEF Write, CallOK
<1>3. ViewOf(t) # NoFile
  BY <1>2 DEF ViewOf
<1>4. pc'[t] = "open" /\ stamp'[host[t]] = Modified /\ Published' = Published
  BY <1>1, <1>2, ClientsDoNotServe, PublishedStays DEF Write, Put, TypeOK
<1>5. t \in WrittenBy' /\ ViewOf(t)' = cache'[host[t]]
  BY <1>4 DEF WrittenBy, ViewOf
<1>6. cache'[host[t]] # NoFile
  BY <1>1, <1>2, CacheStays DEF ViewsInv, Write, Unlink
<1>7. ViewOf(t)' \in Data
  BY <1>1, <1>5, <1>6 DEF TypeOK
<1> QED
  BY <1>1, <1>3, <1>4, <1>5, <1>7, StepOfOne

(* The close of a descriptor that was not written.                         *)
LEMMA CloseRefines ==
  ASSUME Orderly, ViewsInv, mtime < NSEC, NEW t \in Thread,
         Release(t), stamp[host[t]] # Modified
  PROVE  Promise!CloseSession(t)
<1>1. TypeOK /\ OneDescriptor /\ Call(t)
  BY DEF ViewsInv, Orderly, Call
<1>2. pc[t] = "open" /\ cache[host[t]] # NoFile
  BY ActorFacts DEF Release, CallOK
<1>3. pc'[t] = "idle" /\ Published' = Published
  BY <1>1, ClientsDoNotServe, PublishedStays DEF Release, Goto, TypeOK
<1>4. /\ ViewOf(t) # NoFile /\ ViewOf(t)' = NoFile
      /\ t \notin WrittenBy /\ t \notin WrittenBy'
  BY <1>2, <1>3 DEF ViewOf, WrittenBy, Accepts, Replied, Waiting
<1> QED
  BY <1>1, <1>3, <1>4, StepOfOne

(* Every step is one of CloseToOpen, or none.                              *)
LEMMA StepRefines ==
  Orderly /\ NothingFails /\ ViewsInv /\ mtime < NSEC /\ [Next]_vars
  => [Promise!AbsNext]_(Promise!absVars)
<1> SUFFICES ASSUME Orderly, NothingFails, ViewsInv, mtime < NSEC, [Next]_vars
             PROVE  Promise!AbsNext \/ UNCHANGED Promise!absVars
  OBVIOUS
<1>1. CASE UNCHANGED vars
  BY <1>1 DEF vars, Promise!absVars, ViewOf, WrittenBy, Published, Storing, Accepts,
              Replied, Waiting, Handled
<1>2. ASSUME NEW t \in Thread, Progress(t) \/ Call(t)
      PROVE  Promise!AbsNext \/ UNCHANGED Promise!absVars
  <2>1. ~Retry(t) /\ ~FetchGiveUp(t) /\ ~StoreGiveUp(t)
    BY DEF Orderly, NothingFails, Retry, FetchGiveUp, StoreGiveUp, GiveUp, Fails
  <2>2. CASE Serve(t)
    BY <2>2, ServeRefines DEF Promise!AbsNext
  <2>3. CASE Write(t)
    BY <2>3, WriteRefines DEF Promise!AbsNext
  <2>4. CASE Release(t) /\ stamp[host[t]] # Modified
    BY <2>4, CloseRefines DEF Promise!AbsNext
  <2> QED
    BY <1>2, <2>1, <2>2, <2>3, <2>4, OrderlyCalls, ClientStutters
    DEF Progress, Call, ViewsInv
<1> QED
  BY <1>1, <1>2, OrderlyNext

(* Close-to-open consistency: for any number of machines with one          *)
(* descriptor each, whose RPCs get through, and as long as no handler of   *)
(* the file overlaps another (Orderly; the server does not see to it), an  *)
(* open gives the version that is current at one instant of the open, and  *)
(* the RELEASE of a written file makes its whole image current at one      *)
(* instant, until the server's clock passes a second.  RELEASE follows the *)
(* application's close(), which does not wait for it.                      *)
THEOREM CacheImplementsCloseToOpen ==
  Orderly /\ NothingFails => (Spec /\ [](mtime < NSEC) => ImplementsCloseToOpen)
<1> SUFFICES ASSUME Orderly, NothingFails
             PROVE  Spec /\ [](mtime < NSEC) => ImplementsCloseToOpen
  OBVIOUS
<1>1. Init => Promise!AbsInit
  <2> SUFFICES ASSUME Init PROVE Promise!AbsInit
    OBVIOUS
  <2>1. file \in Data
    BY DataFacts DEF Init, Orderly
  <2>2. \A t \in Thread : ViewOf(t) = NoFile /\ t \notin WrittenBy
    BY DEF Init, ViewOf, WrittenBy, Accepts, Replied, Waiting
  <2>3. WrittenBy = {}
    BY <2>2 DEF WrittenBy
  <2>4. Published = file
    BY DEF Init, Published, Storing, Handled
  <2> QED
    BY <2>1, <2>2, <2>3, <2>4 DEF Promise!AbsInit
<1>2. Init => ViewsInv
  <2>1. Init => ModifiedHasOwner
    BY DEF Init, ModifiedHasOwner, NotFound, Modified
  <2> QED
    BY <2>1, ValidationStarts DEF ViewsInv, ValidInv
<1>3. ViewsInv /\ [Next]_vars => ViewsInv'
  BY StepValid, StepOwner DEF ViewsInv, ValidInv, NothingFails
<1>4. ViewsInv /\ mtime < NSEC /\ [Next]_vars => [Promise!AbsNext]_(Promise!absVars)
  BY StepRefines
<1> QED
  BY <1>1, <1>2, <1>3, <1>4, PTL DEF Spec, ImplementsCloseToOpen

=============================================================================
