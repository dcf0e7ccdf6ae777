--------------------------- MODULE AfsLocalProofs ---------------------------
(***************************************************************************)
(* What AfsLocal guarantees of the client's descriptors for every number   *)
(* of threads, versions and descriptors, whatever calls overlap and        *)
(* wherever the client is killed.                                          *)
(***************************************************************************)
EXTENDS AfsLocal, FiniteSetTheorems, TLAPS

-----------------------------------------------------------------------------
(***************************************************************************)
(* Counting threads.                                                       *)
(***************************************************************************)

(* The threads that are at one of the steps Q.                             *)
At(Q) == {t \in Thread : pc[t] \in Q}

(* There are finitely many threads anywhere.                               *)
LEMMA CountType ==
  ASSUME NEW S, S \subseteq Thread
  PROVE  IsFiniteSet(S) /\ Cardinality(S) \in Nat
BY FS_Subset, FS_CardinalityType, LocalConstants

(* A set that changes by one thread at most changes its size accordingly.  *)
LEMMA CountChange ==
  ASSUME NEW S, NEW T, S \subseteq Thread, T \subseteq Thread,
         NEW t \in Thread, S \ {t} = T \ {t}
  PROVE  /\ Cardinality(S) \in Nat /\ Cardinality(T) \in Nat
         /\ t \in S /\ t \notin T => Cardinality(T) = Cardinality(S) - 1
         /\ t \notin S /\ t \in T => Cardinality(T) = Cardinality(S) + 1
         /\ (t \in S <=> t \in T) => Cardinality(T) = Cardinality(S)
<1>1. IsFiniteSet(S) /\ IsFiniteSet(T) /\ Cardinality(S) \in Nat /\ Cardinality(T) \in Nat
  BY CountType
<1>2. t \in S /\ t \notin T => T = S \ {t}
  OBVIOUS
<1>3. t \notin S /\ t \in T => T = S \cup {t}
  OBVIOUS
<1>4. (t \in S <=> t \in T) => T = S
  OBVIOUS
<1> QED
  BY <1>1, <1>2, <1>3, <1>4, FS_AddElement, FS_RemoveElement

(* RELEASE closes one descriptor, or none.                                 *)
LEMMA CountOwn ==
  ASSUME NEW t \in Thread
  PROVE  Cardinality({t} \cap handles) = IF t \in handles THEN 1 ELSE 0
<1>1. IsFiniteSet({}) /\ Cardinality({}) = 0
  BY FS_EmptySet
<1>2. Cardinality({} \cup {t}) = 0 + 1
  BY <1>1, FS_AddElement
<1>3. t \in handles => {t} \cap handles = {} \cup {t}
  OBVIOUS
<1>4. t \notin handles => {t} \cap handles = {}
  OBVIOUS
<1> QED
  BY <1>1, <1>2, <1>3, <1>4

-----------------------------------------------------------------------------
(***************************************************************************)
(* The invariants.                                                         *)
(***************************************************************************)

Copying == At({"copy"})
Lending == At({"image"})
Borrowing == At({"copy", "dump_close"})

(* Inside OPEN, with a descriptor that is not file_info->fh yet.           *)
HasOpened(t) == \/ pc[t] \in {"getattr", "truncate", "fetch", "install"}
                \/ pc[t] \in DumpSteps /\ after[t] = "install"
Opened == {t \in Thread : HasOpened(t)}

(* A WRITE that copies has its content to write.                           *)
WritesFit == last + Cardinality(Copying) <= MaxVersion

(* Whatever has failed, a descriptor that is used is open: the count of    *)
(* open descriptors never falls below those that calls hold.               *)
Backed == Cardinality(handles) + Cardinality(Opened) + Cardinality(Borrowing) <= fds

(* Until an open() fails, an application's descriptor has one of the       *)
(* client behind it.                                                       *)
HandlesKept ==
  ~failed => \A t \in Thread : pc[t] = "open" \/ Writing(t) => t \in handles

(* DescriptorsAreAccounted inside calls: RELEASE closes one descriptor     *)
(* before it opens another; WRITE and dump() have one more for a while.    *)
Balanced ==
  ~failed => fds + Cardinality(Lending) = used + Cardinality(Borrowing)

LocalInv == LocalTypeOK /\ WritesFit /\ Backed /\ HandlesKept /\ Balanced

-----------------------------------------------------------------------------
(***************************************************************************)
(* Type correctness.                                                       *)
(***************************************************************************)

(* What calls hold is open.                                                *)
LEMMA HeldIsOpen ==
  ASSUME LocalTypeOK, Backed, NEW t \in Thread,
         t \in handles \/ pc[t] \in {"copy", "dump_close"}
  PROVE  fds >= 1
<1> DEFINE H == handles  B == Borrowing
<1>1. H \subseteq Thread /\ B \subseteq Thread /\ Opened \subseteq Thread /\ fds \in Nat
  BY DEF LocalTypeOK, Borrowing, At, Opened
<1>2. /\ Cardinality(H) \in Nat /\ Cardinality(B) \in Nat /\ Cardinality(Opened) \in Nat
      /\ IsFiniteSet(H) /\ IsFiniteSet(B)
  BY <1>1, CountType
<1>3. H # {} \/ B # {}
  BY DEF Borrowing, At
<1>4. Cardinality(H) # 0 \/ Cardinality(B) # 0
  BY <1>2, <1>3, FS_EmptySet
<1> QED
  BY <1>1, <1>2, <1>4 DEF Backed

(* A WRITE that copies can take the next version.                          *)
LEMMA NextVersion ==
  ASSUME LocalTypeOK, WritesFit, NEW t \in Thread, pc[t] = "copy" \/ Room
  PROVE  last + 1 \in Version
<1>1. Copying \subseteq Thread /\ last \in Nat /\ last >= 1 /\ MaxVersion \in Nat
  BY LocalConstants DEF LocalTypeOK, Copying, At, Version
<1>2. Cardinality(Copying) \in Nat /\ IsFiniteSet(Copying)
  BY <1>1, CountType
<1>3. CASE pc[t] = "copy"
  <2>1. Copying # {}
    BY <1>3 DEF Copying, At
  <2>2. Cardinality(Copying) # 0
    BY <1>2, <2>1, FS_EmptySet
  <2> QED
    BY <1>1, <1>2, <2>2 DEF WritesFit, Version
<1>4. CASE Room
  <2>1. Copying = {u \in Thread : pc[u] = "copy"}
    BY DEF Copying, At
  <2> QED
    BY <1>1, <1>2, <1>4, <2>1 DEF Room, Version
<1> QED
  BY <1>3, <1>4

(* The client's disk and memory hold what their types allow.               *)
LEMMA ContentFacts ==
  ASSUME LocalTypeOK
  PROVE  /\ {Empty, Torn} \subseteq Content
         /\ \A t \in Thread : Images(buf[t]) \subseteq Content \cup {NoFile}
         /\ \A t \in Thread : main # NoFile => Images(buf[t]) \subseteq Content
         /\ \A t \in Thread : Appended(buf[t]) \in Content
<1>1. /\ main \in Content \cup {NoFile} /\ buf \in [Thread -> Content]
      /\ {Empty, Torn} \subseteq Content
  BY DEF LocalTypeOK, Content
<1>2. ASSUME NEW t \in Thread
      PROVE  /\ Images(buf[t]) \subseteq Content \cup {NoFile}
             /\ main # NoFile => Images(buf[t]) \subseteq Content
             /\ Appended(buf[t]) \in Content
  BY <1>1 DEF Images, Appended
<1> QED
  BY <1>1, <1>2

(* What an open() that fails does to the history.                          *)
LEMMA FailedType ==
  ASSUME LocalTypeOK, NEW t \in Thread, Step(t)
  PROVE  failed' \in BOOLEAN
BY Zenon DEF LocalTypeOK, Step, Open, OpenCreate, OpenGetattr, OpenTruncate, OpenFetch,
     OpenInstall, Read, Write, WriteCopy, WriteRemove, WriteRename, WriteFlag, Release,
     ReleaseImage, ReleaseStore, OtherPut, DumpOpen, DumpClose, Refused

(* A client that has never run is well typed.                              *)
LEMMA InitType == LocalInit => LocalTypeOK
<1> SUFFICES ASSUME LocalInit PROVE LocalTypeOK
  OBVIOUS
<1>1. overlapped \in BOOLEAN /\ harmed \in BOOLEAN /\ failed \in BOOLEAN
  BY Zenon DEF LocalInit
<1>2. /\ 1 \in Content /\ 1 \in Version /\ Empty \in Content
      /\ 0 \in 0..MaxFd
  BY LocalConstants DEF Content, Version
<1> QED
  BY <1>1, <1>2 DEF LocalInit, LocalTypeOK, PC

(* The steps of OPEN keep the types.                                       *)
LEMMA OpenType ==
  ASSUME LocalTypeOK, NEW t \in Thread,
         Open(t) \/ OpenCreate(t) \/ OpenGetattr(t) \/ OpenTruncate(t)
           \/ OpenFetch(t) \/ OpenInstall(t),
         overlapped' \in BOOLEAN, harmed' \in BOOLEAN
  PROVE  LocalTypeOK'
<1> USE LocalConstants, ContentFacts
    DEF LocalTypeOK, localVars, server, disk, thread, Goto, Hold, PutAndDump, PC,
        OpenSteps, DumpSteps, Free
<1>1. CASE Open(t)
  <2>1. failed' \in BOOLEAN
    BY <1>1, FailedType DEF Step
  <2> QED
    BY <1>1, <2>1 DEF Open
<1>2. CASE OpenCreate(t)
  <2>1. failed' \in BOOLEAN
    BY <1>2, FailedType DEF Step
  <2> QED
    BY <1>2, <2>1 DEF OpenCreate
<1>3. CASE OpenGetattr(t)
  BY <1>3 DEF OpenGetattr
<1>4. CASE OpenTruncate(t)
  BY <1>4 DEF OpenTruncate
<1>5. CASE OpenFetch(t)
  BY <1>5 DEF OpenFetch
<1>6. CASE OpenInstall(t)
  BY <1>6 DEF OpenInstall
<1> QED
  BY <1>1, <1>2, <1>3, <1>4, <1>5, <1>6

(* So do READ and the steps of WRITE: a descriptor that WriteCopy closes   *)
(* is open, and a content it writes is left.                               *)
LEMMA ChangeType ==
  ASSUME LocalTypeOK, WritesFit, Backed, NEW t \in Thread,
         Read(t) \/ Write(t) \/ WriteCopy(t) \/ WriteRemove(t) \/ WriteRename(t) \/ WriteFlag(t),
         overlapped' \in BOOLEAN, harmed' \in BOOLEAN
  PROVE  LocalTypeOK'
<1> USE LocalConstants, ContentFacts
    DEF LocalTypeOK, localVars, server, disk, thread, Goto, Hold, PutAndDump, PC,
        WriteSteps, DumpSteps, Free
<1>1. CASE Read(t)
  BY <1>1 DEF Read, Opens
<1>2. CASE Write(t)
  <2>1. failed' \in BOOLEAN
    BY <1>2, FailedType DEF Step
  <2> QED
    BY <1>2, <2>1 DEF Write
<1>3. CASE WriteCopy(t)
  <2>1. last + 1 \in Version /\ fds >= 1
    BY <1>3, NextVersion, HeldIsOpen DEF WriteCopy
  <2>2. Version \subseteq Content
    BY DEF Content
  <2> QED
    BY <1>3, <2>1, <2>2 DEF WriteCopy
<1>4. CASE WriteRemove(t)
  BY <1>4 DEF WriteRemove
<1>5. CASE WriteRename(t)
  BY <1>5 DEF WriteRename
<1>6. CASE WriteFlag(t)
  BY <1>6 DEF WriteFlag
<1> QED
  BY <1>1, <1>2, <1>3, <1>4, <1>5, <1>6

(* So do RELEASE and dump(): what they close is open.                      *)
LEMMA ReleaseType ==
  ASSUME LocalTypeOK, Backed, NEW t \in Thread,
         Release(t) \/ ReleaseImage(t) \/ ReleaseStore(t)
           \/ OtherPut(t) \/ DumpOpen(t) \/ DumpClose(t),
         overlapped' \in BOOLEAN, harmed' \in BOOLEAN
  PROVE  LocalTypeOK'
<1> USE LocalConstants, ContentFacts
    DEF LocalTypeOK, localVars, server, disk, thread, Goto, Hold, PutAndDump, PC,
        OpenSteps, WriteSteps, ReleaseSteps, DumpSteps, Free
<1>1. CASE Release(t)
  <2>1. t \in handles => fds >= 1
    BY HeldIsOpen
  <2>2. Cardinality({t} \cap handles) = IF t \in handles THEN 1 ELSE 0
    BY CountOwn
  <2> QED
    BY <1>1, <2>1, <2>2 DEF Release
<1>2. CASE ReleaseImage(t)
  BY <1>2 DEF ReleaseImage, Opens
<1>3. CASE ReleaseStore(t)
  BY <1>3 DEF ReleaseStore
<1>4. CASE OtherPut(t)
  BY <1>4 DEF OtherPut
<1>5. CASE DumpOpen(t)
  BY <1>5 DEF DumpOpen
<1>6. CASE DumpClose(t)
  <2>1. fds >= 1
    BY <1>6, HeldIsOpen DEF DumpClose
  <2> QED
    BY <1>6, <2>1 DEF DumpClose
<1> QED
  BY <1>1, <1>2, <1>3, <1>4, <1>5, <1>6

-----------------------------------------------------------------------------
(***************************************************************************)
(* Counting descriptors.                                                   *)
(***************************************************************************)

(* A step of one thread leaves the others where they are.                  *)
LEMMA OthersStay ==
  ASSUME LocalTypeOK, NEW t \in Thread, Step(t), NEW u \in Thread \ {t}
  PROVE  /\ pc'[u] = pc[u] /\ after'[u] = after[u]
         /\ u \in handles' <=> u \in handles
<1> USE DEF LocalTypeOK, Goto, PutAndDump, thread
<1>1. CASE \/ Open(t) \/ OpenCreate(t) \/ OpenGetattr(t) \/ OpenTruncate(t)
           \/ OpenFetch(t) \/ OpenInstall(t)
  BY <1>1 DEF Open, OpenCreate, OpenGetattr, OpenTruncate, OpenFetch, OpenInstall
<1>2. CASE \/ Read(t)
           \/ Write(t) \/ WriteCopy(t) \/ WriteRemove(t) \/ WriteRename(t) \/ WriteFlag(t)
  BY <1>2 DEF Read, Write, WriteCopy, WriteRemove, WriteRename, WriteFlag
<1>3. CASE \/ Release(t) \/ ReleaseImage(t) \/ ReleaseStore(t)
           \/ OtherPut(t) \/ DumpOpen(t) \/ DumpClose(t)
  BY <1>3 DEF Release, ReleaseImage, ReleaseStore, OtherPut, DumpOpen, DumpClose
<1> QED
  BY <1>1, <1>2, <1>3 DEF Step

(* So what a step does to a count is what it does for its own thread.      *)
LEMMA Counts ==
  ASSUME LocalTypeOK, LocalTypeOK', NEW t \in Thread, Step(t)
  PROVE  LET Gain(before, now) == (IF now THEN 1 ELSE 0) - (IF before THEN 1 ELSE 0) IN
         /\ /\ Cardinality(handles) \in Nat
            /\ Cardinality(Opened) \in Nat
            /\ Cardinality(Copying) \in Nat
            /\ Cardinality(Lending) \in Nat
            /\ Cardinality(Borrowing) \in Nat
         /\ Cardinality(handles') = Cardinality(handles) + Gain(t \in handles, t \in handles')
         /\ Cardinality(Opened') = Cardinality(Opened) + Gain(HasOpened(t), HasOpened(t)')
         /\ Cardinality(Copying') = Cardinality(Copying) + Gain(pc[t] = "copy", pc'[t] = "copy")
         /\ Cardinality(Lending') = Cardinality(Lending) + Gain(pc[t] = "image", pc'[t] = "image")
         /\ Cardinality(Borrowing') =
              Cardinality(Borrowing) + Gain(pc[t] \in {"copy", "dump_close"},
                                            pc'[t] \in {"copy", "dump_close"})
<1>1. \A u \in Thread \ {t} : pc'[u] = pc[u] /\ after'[u] = after[u]
                              /\ (u \in handles' <=> u \in handles)
  BY OthersStay
<1>2. handles \subseteq Thread /\ handles' \subseteq Thread
  BY DEF LocalTypeOK
<1>3. handles \ {t} = handles' \ {t}
  BY <1>1, <1>2
<1>4. /\ Opened \subseteq Thread /\ Opened' \subseteq Thread
      /\ Opened \ {t} = Opened' \ {t}
      /\ t \in Opened <=> HasOpened(t)
      /\ t \in Opened' <=> HasOpened(t)'
  BY <1>1 DEF Opened, HasOpened
<1>5. ASSUME NEW Q
      PROVE  /\ At(Q) \subseteq Thread /\ At(Q)' \subseteq Thread
             /\ At(Q) \ {t} = At(Q)' \ {t}
             /\ t \in At(Q) <=> pc[t] \in Q
             /\ t \in At(Q)' <=> pc'[t] \in Q
  BY <1>1 DEF At
<1>6. /\ Copying \subseteq Thread /\ Copying' \subseteq Thread
      /\ Copying \ {t} = Copying' \ {t}
      /\ t \in Copying <=> pc[t] = "copy"
      /\ t \in Copying' <=> pc'[t] = "copy"
  BY <1>5 DEF Copying
<1>7. /\ Lending \subseteq Thread /\ Lending' \subseteq Thread
      /\ Lending \ {t} = Lending' \ {t}
      /\ t \in Lending <=> pc[t] = "image"
      /\ t \in Lending' <=> pc'[t] = "image"
  BY <1>5 DEF Lending
<1>8. /\ Borrowing \subseteq Thread /\ Borrowing' \subseteq Thread
      /\ Borrowing \ {t} = Borrowing' \ {t}
      /\ t \in Borrowing <=> pc[t] \in {"copy", "dump_close"}
      /\ t \in Borrowing' <=> pc'[t] \in {"copy", "dump_close"}
  BY <1>5 DEF Borrowing
<1>9. ASSUME NEW S, NEW T, S \subseteq Thread, T \subseteq Thread, S \ {t} = T \ {t}
      PROVE  /\ Cardinality(S) \in Nat
             /\ Cardinality(T) = Cardinality(S) + (IF t \in T THEN 1 ELSE 0)
                                                - (IF t \in S THEN 1 ELSE 0)
  BY <1>9, CountChange
<1>10. /\ Cardinality(handles) \in Nat
       /\ Cardinality(handles') = Cardinality(handles) + (IF t \in handles' THEN 1 ELSE 0)
                                                - (IF t \in handles THEN 1 ELSE 0)
  BY <1>2, <1>3, <1>9
<1>11. /\ Cardinality(Opened) \in Nat
       /\ Cardinality(Opened') = Cardinality(Opened) + (IF HasOpened(t)' THEN 1 ELSE 0)
                                                - (IF HasOpened(t) THEN 1 ELSE 0)
  BY <1>4, <1>9
<1>12. /\ Cardinality(Copying) \in Nat
       /\ Cardinality(Copying') = Cardinality(Copying) + (IF pc'[t] = "copy" THEN 1 ELSE 0)
                                                - (IF pc[t] = "copy" THEN 1 ELSE 0)
  BY <1>6, <1>9
<1>13. /\ Cardinality(Lending) \in Nat
       /\ Cardinality(Lending') = Cardinality(Lending) + (IF pc'[t] = "image" THEN 1 ELSE 0)
                                                - (IF pc[t] = "image" THEN 1 ELSE 0)
  BY <1>7, <1>9
<1>14. /\ Cardinality(Borrowing) \in Nat
       /\ Cardinality(Borrowing') =
            Cardinality(Borrowing) + (IF pc'[t] \in {"copy", "dump_close"} THEN 1 ELSE 0)
                                   - (IF pc[t] \in {"copy", "dump_close"} THEN 1 ELSE 0)
  BY <1>8, <1>9
<1> QED
  BY <1>10, <1>11, <1>12, <1>13, <1>14

(* A WRITE begins to copy only when there is a content left for it.        *)
LEMMA WritesFitStep ==
  ASSUME LocalTypeOK, LocalTypeOK', WritesFit, NEW t \in Thread, Step(t)
  PROVE  WritesFit'
<1>1. /\ Cardinality(Copying) \in Nat
      /\ Cardinality(Copying') = Cardinality(Copying) + (IF pc'[t] = "copy" THEN 1 ELSE 0)
                                                      - (IF pc[t] = "copy" THEN 1 ELSE 0)
  BY Counts
<1>2. last \in Int /\ last' \in Int /\ MaxVersion \in Int
  BY LocalConstants DEF LocalTypeOK, Version
<1>3. \/ last' = last /\ (pc'[t] = "copy" => pc[t] = "copy" \/ Room)
      \/ last' = last + 1 /\ pc[t] = "copy" /\ pc'[t] # "copy"
  <2> USE DEF LocalTypeOK, Goto, PutAndDump, thread, server
  <2>1. CASE \/ Open(t) \/ OpenCreate(t) \/ OpenGetattr(t) \/ OpenTruncate(t)
             \/ OpenFetch(t) \/ OpenInstall(t)
    BY <2>1 DEF Open, OpenCreate, OpenGetattr, OpenTruncate, OpenFetch, OpenInstall
  <2>2. CASE \/ Read(t)
             \/ Write(t) \/ WriteCopy(t) \/ WriteRemove(t) \/ WriteRename(t) \/ WriteFlag(t)
    BY <2>2 DEF Read, Write, WriteCopy, WriteRemove, WriteRename, WriteFlag
  <2>3. CASE \/ Release(t) \/ ReleaseImage(t) \/ ReleaseStore(t)
             \/ OtherPut(t) \/ DumpOpen(t) \/ DumpClose(t)
    BY <2>3 DEF Release, ReleaseImage, ReleaseStore, OtherPut, DumpOpen, DumpClose
  <2> QED
    BY <2>1, <2>2, <2>3 DEF Step
<1>4. Room => last + Cardinality(Copying) < MaxVersion
  <2>1. Copying = {u \in Thread : pc[u] = "copy"}
    BY DEF Copying, At
  <2> QED
    BY <2>1 DEF Room
<1> QED
  BY <1>1, <1>2, <1>3, <1>4 DEF WritesFit

(* A thread comes to hold as many descriptors as its step opens, at most.  *)
LEMMA BackedStep ==
  ASSUME LocalTypeOK, LocalTypeOK', Backed, NEW t \in Thread, Step(t)
  PROVE  Backed'
<1> DEFINE Steps == {"copy", "dump_close"}
           NoHandle == t \in handles' => t \in handles
           NoOpened == HasOpened(t)' => HasOpened(t)
           NoBorrowed == pc'[t] \in Steps => pc[t] \in Steps
           Closes == /\ fds' = fds - 1
                     /\ \/ t \in handles /\ t \notin handles' /\ NoOpened /\ NoBorrowed
                        \/ pc[t] \in Steps /\ pc'[t] \notin Steps /\ NoHandle /\ NoOpened
           Keeps == /\ fds' = fds
                    /\ \/ NoHandle /\ NoOpened /\ NoBorrowed
                       \/ HasOpened(t) /\ ~HasOpened(t)' /\ NoBorrowed
           Opening == /\ fds' = fds + 1
                      /\ \/ NoHandle /\ NoOpened
                         \/ NoHandle /\ NoBorrowed
                         \/ NoOpened /\ NoBorrowed
<1>1. Closes \/ Keeps \/ Opening
  <2> USE DEF LocalTypeOK, Goto, PutAndDump, thread, server, HasOpened, DumpSteps
  <2>1. CASE Open(t)
    BY <2>1 DEF Open
  <2>2. CASE OpenCreate(t)
    BY <2>2 DEF OpenCreate
  <2>3. CASE OpenGetattr(t) \/ OpenTruncate(t)
    BY <2>3 DEF OpenGetattr, OpenTruncate
  <2>4. CASE OpenFetch(t) \/ OpenInstall(t)
    BY <2>4 DEF OpenFetch, OpenInstall
  <2>5. CASE Read(t)
    BY <2>5 DEF Read
  <2>6. CASE Write(t) \/ WriteCopy(t)
    BY <2>6 DEF Write, WriteCopy
  <2>7. CASE WriteRemove(t) \/ WriteRename(t) \/ WriteFlag(t)
    BY <2>7 DEF WriteRemove, WriteRename, WriteFlag
  <2>8. CASE Release(t)
    <3>1. Cardinality({t} \cap handles) = IF t \in handles THEN 1 ELSE 0
      BY CountOwn
    <3> QED
      BY <2>8, <3>1 DEF Release
  <2>9. CASE ReleaseImage(t) \/ ReleaseStore(t)
    BY <2>9 DEF ReleaseImage, ReleaseStore
  <2>10. CASE OtherPut(t) \/ DumpOpen(t) \/ DumpClose(t)
    BY <2>10 DEF OtherPut, DumpOpen, DumpClose
  <2> QED
    BY <2>1, <2>2, <2>3, <2>4, <2>5, <2>6, <2>7, <2>8, <2>9, <2>10 DEF Step
<1>2. fds \in Int /\ fds' \in Int
  BY DEF LocalTypeOK
<1>3. /\ Cardinality(handles) \in Nat
      /\ Cardinality(handles') = Cardinality(handles) + (IF t \in handles' THEN 1 ELSE 0)
                                                      - (IF t \in handles THEN 1 ELSE 0)
      /\ Cardinality(Opened) \in Nat
      /\ Cardinality(Opened') = Cardinality(Opened) + (IF HasOpened(t)' THEN 1 ELSE 0)
                                                    - (IF HasOpened(t) THEN 1 ELSE 0)
      /\ Cardinality(Borrowing) \in Nat
      /\ Cardinality(Borrowing') = Cardinality(Borrowing) + (IF pc'[t] \in Steps THEN 1 ELSE 0)
                                                          - (IF pc[t] \in Steps THEN 1 ELSE 0)
  BY Counts
<1>4. CASE Closes
  BY <1>2, <1>3, <1>4 DEF Backed
<1>5. CASE Keeps
  BY <1>2, <1>3, <1>5 DEF Backed
<1>6. CASE Opening
  BY <1>2, <1>3, <1>6 DEF Backed
<1> QED
  BY <1>1, <1>4, <1>5, <1>6

(* Only an open() that fails takes a descriptor from an application.       *)
LEMMA HandlesKeptStep ==
  ASSUME LocalTypeOK, LocalTypeOK', HandlesKept, NEW t \in Thread, Step(t)
  PROVE  HandlesKept'
<1>1. failed => failed'
  BY Zenon DEF Step, Open, OpenCreate, OpenGetattr, OpenTruncate, OpenFetch,
     OpenInstall, Read, Write, WriteCopy, WriteRemove, WriteRename, WriteFlag, Release,
     ReleaseImage, ReleaseStore, OtherPut, DumpOpen, DumpClose, Refused
<1>2. SUFFICES ASSUME ~failed, ~failed', NEW u \in Thread, pc'[u] = "open" \/ Writing(u)'
               PROVE  u \in handles'
  BY <1>1 DEF HandlesKept
<1>3. pc[u] = "open" \/ Writing(u) => u \in handles
  BY <1>2 DEF HandlesKept
<1>4. CASE u # t
  BY <1>2, <1>3, <1>4, OthersStay DEF Writing
<1>5. CASE u = t
  <2> USE <1>2, <1>3, <1>5 DEF LocalTypeOK, Goto, PutAndDump, thread, Writing, WriteSteps, DumpSteps
  <2>1. CASE Open(t)
    BY <2>1 DEF Open, Refused
  <2>2. CASE OpenCreate(t)
    BY <2>2 DEF OpenCreate, Refused
  <2>3. CASE OpenGetattr(t) \/ OpenTruncate(t)
    BY <2>3 DEF OpenGetattr, OpenTruncate
  <2>4. CASE OpenFetch(t) \/ OpenInstall(t)
    BY <2>4 DEF OpenFetch, OpenInstall
  <2>5. CASE Read(t)
    BY <2>5 DEF Read
  <2>6. CASE Write(t) \/ WriteCopy(t)
    BY <2>6 DEF Write, WriteCopy
  <2>7. CASE WriteRemove(t) \/ WriteRename(t) \/ WriteFlag(t)
    BY <2>7 DEF WriteRemove, WriteRename, WriteFlag
  <2>8. CASE Release(t)
    BY <2>8 DEF Release
  <2>9. CASE ReleaseImage(t) \/ ReleaseStore(t)
    BY <2>9 DEF ReleaseImage, ReleaseStore
  <2>10. CASE OtherPut(t) \/ DumpOpen(t) \/ DumpClose(t)
    BY <2>10 DEF OtherPut, DumpOpen, DumpClose
  <2> QED
    BY <2>1, <2>2, <2>3, <2>4, <2>5, <2>6, <2>7, <2>8, <2>9, <2>10 DEF Step
<1> QED
  BY <1>4, <1>5

(* Unless it fails, a step opens as many descriptors as it counts.         *)
LEMMA BalancedStep ==
  ASSUME LocalTypeOK, LocalTypeOK', HandlesKept, Balanced, NEW t \in Thread, Step(t)
  PROVE  Balanced'
<1> DEFINE Steps == {"copy", "dump_close"}
           SameLent == pc'[t] = "image" <=> pc[t] = "image"
           SameBorrowed == pc'[t] \in Steps <=> pc[t] \in Steps
           Counted == /\ \/ fds' = fds /\ used' = used
                         \/ fds' = fds + 1 /\ used' = used + 1
                      /\ SameLent /\ SameBorrowed
           Borrows == /\ fds' = fds + 1 /\ used' = used
                      /\ pc[t] \notin Steps /\ pc'[t] \in Steps /\ SameLent
           GivesBack == /\ fds' = fds - 1 /\ used' = used
                        /\ pc[t] \in Steps /\ pc'[t] \notin Steps /\ SameLent
           Lends == /\ fds' = fds - 1 /\ used' = used
                    /\ pc[t] # "image" /\ pc'[t] = "image" /\ SameBorrowed
           TakesBack == /\ fds' = fds + 1 /\ used' = used
                        /\ pc[t] = "image" /\ pc'[t] # "image" /\ SameBorrowed
<1>1. failed => failed'
  BY Zenon DEF Step, Open, OpenCreate, OpenGetattr, OpenTruncate, OpenFetch,
     OpenInstall, Read, Write, WriteCopy, WriteRemove, WriteRename, WriteFlag, Release,
     ReleaseImage, ReleaseStore, OtherPut, DumpOpen, DumpClose, Refused
<1>2. SUFFICES ASSUME ~failed, ~failed' PROVE Balanced'
  BY <1>1 DEF Balanced
<1>3. pc[t] = "open" => t \in handles
  BY <1>2 DEF HandlesKept
<1>4. Counted \/ Borrows \/ GivesBack \/ Lends \/ TakesBack
  <2> USE <1>2, <1>3 DEF LocalTypeOK, Goto, PutAndDump, thread, server
  <2>1. CASE Open(t)
    BY <2>1 DEF Open, Refused
  <2>2. CASE OpenCreate(t)
    BY <2>2 DEF OpenCreate, Refused
  <2>3. CASE OpenGetattr(t) \/ OpenTruncate(t)
    BY <2>3 DEF OpenGetattr, OpenTruncate
  <2>4. CASE OpenFetch(t) \/ OpenInstall(t)
    BY <2>4 DEF OpenFetch, OpenInstall
  <2>5. CASE Read(t)
    BY <2>5 DEF Read
  <2>6. CASE Write(t)
    BY <2>6 DEF Write, Refused
  <2>7. CASE WriteCopy(t)
    BY <2>7 DEF WriteCopy
  <2>8. CASE WriteRemove(t) \/ WriteRename(t) \/ WriteFlag(t)
    BY <2>8 DEF WriteRemove, WriteRename, WriteFlag
  <2>9. CASE Release(t)
    <3>1. Cardinality({t} \cap handles) = IF t \in handles THEN 1 ELSE 0
      BY CountOwn
    <3> QED
      BY <2>9, <3>1 DEF Release
  <2>10. CASE ReleaseImage(t) \/ ReleaseStore(t)
    BY <2>10 DEF ReleaseImage, ReleaseStore
  <2>11. CASE OtherPut(t) \/ DumpOpen(t) \/ DumpClose(t)
    BY <2>11 DEF OtherPut, DumpOpen, DumpClose
  <2> QED
    BY <2>1, <2>2, <2>3, <2>4, <2>5, <2>6, <2>7, <2>8, <2>9, <2>10, <2>11 DEF Step
<1>5. fds \in Int /\ fds' \in Int /\ used \in Int /\ used' \in Int
  BY DEF LocalTypeOK
<1>6. /\ Cardinality(Lending) \in Nat
      /\ Cardinality(Lending') = Cardinality(Lending) + (IF pc'[t] = "image" THEN 1 ELSE 0)
                                                      - (IF pc[t] = "image" THEN 1 ELSE 0)
      /\ Cardinality(Borrowing) \in Nat
      /\ Cardinality(Borrowing') = Cardinality(Borrowing) + (IF pc'[t] \in Steps THEN 1 ELSE 0)
                                                          - (IF pc[t] \in Steps THEN 1 ELSE 0)
  BY Counts
<1>7. fds + Cardinality(Lending) = used + Cardinality(Borrowing)
  BY <1>2 DEF Balanced
<1> HIDE <1>2
<1>8. CASE Counted
  BY <1>5, <1>6, <1>7, <1>8 DEF Balanced
<1>9. CASE Borrows
  BY <1>5, <1>6, <1>7, <1>9 DEF Balanced
<1>10. CASE GivesBack
  BY <1>5, <1>6, <1>7, <1>10 DEF Balanced
<1>11. CASE Lends
  BY <1>5, <1>6, <1>7, <1>11 DEF Balanced
<1>12. CASE TakesBack
  BY <1>5, <1>6, <1>7, <1>12 DEF Balanced
<1> QED
  BY <1>4, <1>8, <1>9, <1>10, <1>11, <1>12

-----------------------------------------------------------------------------
(***************************************************************************)
(* The theorems.                                                           *)
(***************************************************************************)

(* A start of the client, the first or one after a crash, has counts of 0. *)
LEMMA Fresh ==
  ASSUME /\ handles = {} /\ fds = 0 /\ used = 0
         /\ pc = [t \in Thread |-> "idle"]
         /\ last \in Version
  PROVE  WritesFit /\ Backed /\ HandlesKept /\ Balanced
<1>1. Opened = {} /\ Copying = {} /\ Lending = {} /\ Borrowing = {}
  BY DEF Opened, HasOpened, DumpSteps, Copying, Lending, Borrowing, At
<1>2. Cardinality({}) = 0 /\ last \in Int /\ MaxVersion \in Int /\ last <= MaxVersion
  BY FS_EmptySet, LocalConstants DEF Version
<1>3. WritesFit
  BY <1>1, <1>2 DEF WritesFit
<1>4. Backed
  BY <1>1, <1>2 DEF Backed
<1>5. HandlesKept
  BY DEF HandlesKept, Writing, WriteSteps, DumpSteps
<1>6. Balanced
  BY <1>1, <1>2 DEF Balanced
<1> QED
  BY <1>3, <1>4, <1>5, <1>6

(* The invariant holds before the first call.                              *)
LEMMA InitInv == LocalInit => LocalInv
<1> SUFFICES ASSUME LocalInit PROVE LocalInv
  OBVIOUS
<1>1. LocalTypeOK
  BY InitType
<1>2. WritesFit /\ Backed /\ HandlesKept /\ Balanced
  BY <1>1, Fresh DEF LocalInit, LocalTypeOK
<1> QED
  BY <1>1, <1>2 DEF LocalInv

(* A crash keeps what is on the disk and forgets the rest.                 *)
LEMMA RestartInv ==
  ASSUME LocalInv, Restart, failed' \in BOOLEAN
  PROVE  LocalInv'
<1>1. LocalTypeOK'
  <2>1. harmed' \in BOOLEAN
    BY Zenon DEF Restart, LocalInv, LocalTypeOK
  <2> QED
    BY <2>1, ContentFacts, LocalConstants
    DEF Restart, LocalInv, LocalTypeOK, server, disk, PC
<1>2. /\ handles' = {} /\ fds' = 0 /\ used' = 0
      /\ pc' = [t \in Thread |-> "idle"]
      /\ last' \in Version
  BY <1>1 DEF Restart, LocalTypeOK
<1>3. /\ Opened' = {} /\ Copying' = {} /\ Lending' = {} /\ Borrowing' = {}
  BY <1>2 DEF Opened, HasOpened, DumpSteps, Copying, Lending, Borrowing, At
<1>4. Cardinality({}) = 0 /\ last' \in Int /\ MaxVersion \in Int /\ last' <= MaxVersion
  BY <1>2, FS_EmptySet, LocalConstants DEF Version
<1>5. WritesFit'
  BY <1>3, <1>4 DEF WritesFit
<1>6. Backed'
  BY <1>2, <1>3, <1>4 DEF Backed
<1>7. HandlesKept'
  BY <1>2 DEF HandlesKept, Writing, WriteSteps, DumpSteps
<1>8. Balanced'
  BY <1>2, <1>3, <1>4 DEF Balanced
<1> QED
  BY <1>1, <1>5, <1>6, <1>7, <1>8 DEF LocalInv

(* Every step keeps it: those of calls, crashes, and other machines'       *)
(* stores.                                                                 *)
LEMMA NextInv == LocalInv /\ [LocalNext]_localVars => LocalInv'
<1> SUFFICES ASSUME LocalInv, [LocalNext]_localVars PROVE LocalInv'
  OBVIOUS
<1> USE DEF LocalInv
<1>1. ASSUME NEW t \in Thread, Run(t)
      PROVE  LocalInv'
  <2>1. Step(t)
    BY <1>1 DEF Run
  <2>2. overlapped' \in BOOLEAN /\ harmed' \in BOOLEAN
    BY <1>1, Zenon DEF Run, LocalTypeOK
  <2>3. LocalTypeOK'
    BY <2>1, <2>2, OpenType, ChangeType, ReleaseType DEF Step
  <2> QED
    BY <2>1, <2>3, WritesFitStep, BackedStep, HandlesKeptStep, BalancedStep
<1>2. CASE Crash
  <2>1. Restart /\ failed' \in BOOLEAN
    BY <1>2, Zenon DEF Crash, LocalTypeOK
  <2> QED
    BY <2>1, RestartInv
<1>3. CASE DumpFault
  <2>1. Restart /\ failed' \in BOOLEAN
    BY <1>3, Zenon DEF DumpFault, Refused
  <2> QED
    BY <2>1, RestartInv
<1>4. CASE RemoteStore /\ UNCHANGED <<overlapped, harmed>>
  <2>1. Room /\ last' = last + 1 /\ stored' = last + 1 /\ mtime' = mtime + 1
    BY <1>4 DEF RemoteStore
  <2>2. UNCHANGED <<disk, entry, linked, handles, fds, thread, used, failed, overlapped, harmed>>
    BY <1>4 DEF RemoteStore
  <2>3. Copying = {u \in Thread : pc[u] = "copy"} /\ Copying \subseteq Thread
    BY DEF Copying, At
  <2>4. /\ last \in Int /\ last >= 1 /\ MaxVersion \in Int
        /\ Cardinality(Copying) \in Nat
        /\ last + Cardinality(Copying) < MaxVersion
    BY <2>1, <2>3, CountType, LocalConstants DEF LocalTypeOK, Version, Room
  <2>5. last + 1 \in Version /\ Version \subseteq Content
    BY <2>4 DEF Version, Content
  <2>6. LocalTypeOK'
    BY <2>1, <2>2, <2>5 DEF LocalTypeOK, disk, thread
  <2>7. /\ Copying' = Copying /\ Opened' = Opened /\ Lending' = Lending
        /\ Borrowing' = Borrowing
    BY <2>2 DEF Copying, Opened, HasOpened, Lending, Borrowing, At, thread
  <2>8. WritesFit'
    BY <2>1, <2>4, <2>7 DEF WritesFit
  <2>9. Backed' /\ Balanced'
    BY <2>2, <2>7 DEF Backed, Balanced
  <2>10. HandlesKept'
    BY <2>2 DEF HandlesKept, Writing, thread
  <2> QED
    BY <2>6, <2>8, <2>9, <2>10
<1>5. CASE UNCHANGED localVars
  <2> USE <1>5 DEF localVars, server, disk, thread, history
  <2>1. LocalTypeOK'
    BY DEF LocalTypeOK
  <2>2. /\ Copying' = Copying /\ Opened' = Opened /\ Lending' = Lending
        /\ Borrowing' = Borrowing
    BY DEF Copying, Opened, HasOpened, Lending, Borrowing, At
  <2>3. WritesFit' /\ Backed' /\ Balanced'
    BY <2>2 DEF WritesFit, Backed, Balanced
  <2>4. HandlesKept'
    BY DEF HandlesKept, Writing
  <2> QED
    BY <2>1, <2>3, <2>4
<1> QED
  BY <1>1, <1>2, <1>3, <1>4, <1>5 DEF LocalNext

(* It holds in every reachable state.                                      *)
LEMMA LocalInvariant == LocalSpec => []LocalInv
<1> QED
  BY InitInv, NextInv, PTL DEF LocalSpec

(* The client never has more descriptors open than it may, nor fewer than  *)
(* none, and writes versions and nothing else, for any number of threads,  *)
(* versions and descriptors, whatever calls overlap and whatever fails.    *)
THEOREM LocalTypeCorrect == LocalSpec => []LocalTypeOK
<1>1. LocalInv => LocalTypeOK
  BY DEF LocalInv
<1> QED
  BY <1>1, LocalInvariant, PTL

(* Between calls a client that no open() has failed has exactly one        *)
(* descriptor for each OPEN and READ since it started, whatever calls      *)
(* overlapped and wherever it was killed: the leak of READ, of OPEN and of *)
(* RELEASE is all there is, and nothing ever gives a descriptor back.      *)
THEOREM LeakIsOnePerCall == LocalSpec => []DescriptorsAreAccounted
<1>1. LocalInv => DescriptorsAreAccounted
  <2> SUFFICES ASSUME LocalInv, ~failed, \A t \in Thread : pc[t] \in {"idle", "open"}
               PROVE  fds = used
    BY DEF DescriptorsAreAccounted
  <2>1. Lending = {} /\ Borrowing = {}
    BY DEF Lending, Borrowing, At
  <2>2. fds \in Int /\ used \in Int /\ fds + Cardinality({}) = used + Cardinality({})
    BY <2>1 DEF LocalInv, LocalTypeOK, Balanced
  <2> QED
    BY <2>2, FS_EmptySet
<1> QED
  BY <1>1, LocalInvariant, PTL

=============================================================================
