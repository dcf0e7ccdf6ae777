------------------------ MODULE AfsLocalCrashProofs ------------------------
(***************************************************************************)
(* What a crash of AfsLocal's client leaves behind, for every number of    *)
(* threads, versions and descriptors.                                      *)
(***************************************************************************)
EXTENDS AfsLocalProofs

-----------------------------------------------------------------------------
(***************************************************************************)
(* The invariant.                                                          *)
(***************************************************************************)

(* OPEN between the reply of FETCH and the write of its data.              *)
Installing(t) == pc[t] = "install" \/ (pc[t] \in DumpSteps /\ after[t] = "install")

(* What a thread inside a call knows of the files it works on: nobody else *)
(* changes them meanwhile.                                                 *)
CallInv(t) ==
  /\ pc[t] \in {"getattr", "truncate"} => t \in linked
  /\ pc[t] = "fetch" => t \in linked /\ main = Empty
  /\ Installing(t) => /\ t \in linked /\ main = Empty /\ buf[t] \in Version
                      /\ entry >= mtime => buf[t] = stored
  /\ pc[t] = "install" /\ db >= mtime => db = entry
  /\ pc[t] \in {"copy", "image"} => main = NoFile \/ (buf[t] = main /\ main \in Version)
  /\ pc[t] \in {"remove", "rename"} => tmp \in Version
  /\ pc[t] \in DumpSteps /\ after[t] = "open" => entry = Modified
  /\ pc[t] = "store" => buf[t] = main /\ main \in Version

(* Only OPEN ever leaves the cached file without a whole version.          *)
MainIsWhole == (\A t \in Thread : ~Refetching(t)) => main \in Version \cup {NoFile}

(* Outside the Windows an entry with the file's time, in memory or on the  *)
(* disk, belongs to the cached file.                                       *)
EntryIsTrue == Windows = {} /\ entry >= mtime => main \in {stored, NoFile}
DatabaseIsEntry == Windows = {} /\ db >= mtime => db = entry

(* No entry is ahead of the server.                                        *)
EntriesNotAhead == entry <= mtime /\ db <= mtime

CrashInv ==
  /\ EntriesNotAhead
  /\ ~overlapped => ~Overlap
  /\ Undisturbed =>
       /\ stored \in Version
       /\ \A t \in Thread : CallInv(t)
       /\ MainIsWhole /\ EntryIsTrue /\ DatabaseIsEntry

-----------------------------------------------------------------------------
(***************************************************************************)
(* What a step may do when nothing is disturbed.                           *)
(***************************************************************************)

(* The histories are never forgotten.                                      *)
LEMMA HistoryStays ==
  ASSUME NEW t \in Thread, Run(t), Undisturbed'
  PROVE  Undisturbed /\ Step(t) /\ ~Overlap'
<1>1. failed => failed'
  BY Zenon DEF Run, Step, Open, OpenCreate, OpenGetattr, OpenTruncate, OpenFetch,
     OpenInstall, Read, Write, WriteCopy, WriteRemove, WriteRename, WriteFlag, Release,
     ReleaseImage, ReleaseStore, OtherPut, DumpOpen, DumpClose, Refused
<1> QED
  BY <1>1, Zenon DEF Run, Undisturbed

(* An open() that the code counts on works.                                *)
LEMMA OpensWork ==
  ASSUME NEW t \in Thread, ~failed'
  PROVE  /\ Open(t) \/ OpenCreate(t) \/ Write(t) => Free
         /\ Read(t) \/ WriteCopy(t) \/ ReleaseImage(t) => Opens
<1>1. Open(t) \/ OpenCreate(t) \/ Write(t) => Free
  BY Zenon DEF Open, OpenCreate, Write, Refused
<1>2. Read(t) \/ WriteCopy(t) \/ ReleaseImage(t) => Opens
  BY Zenon DEF Read, WriteCopy, ReleaseImage
<1> QED
  BY <1>1, <1>2

(* A step of one thread leaves the others where they are.                  *)
LEMMA OthersKeep ==
  ASSUME LocalTypeOK, NEW t \in Thread, Step(t), NEW u \in Thread \ {t}
  PROVE  /\ pc'[u] = pc[u] /\ after'[u] = after[u] /\ buf'[u] = buf[u]
         /\ Changing(u)' <=> Changing(u)
         /\ Refetching(u)' <=> Refetching(u)
         /\ Flagging(u)' <=> Flagging(u)
         /\ Installing(u)' <=> Installing(u)
         /\ Busy(u)' <=> Busy(u)
<1>1. pc'[u] = pc[u] /\ after'[u] = after[u]
  BY OthersStay
<1>2. buf'[u] = buf[u]
  <2> USE DEF LocalTypeOK, Hold
  <2>1. CASE \/ Open(t) \/ OpenCreate(t) \/ OpenGetattr(t) \/ OpenTruncate(t)
             \/ OpenFetch(t) \/ OpenInstall(t)
    BY <2>1 DEF Open, OpenCreate, OpenGetattr, OpenTruncate, OpenFetch, OpenInstall
  <2>2. CASE \/ Read(t)
             \/ Write(t) \/ WriteCopy(t) \/ WriteRemove(t) \/ WriteRename(t) \/ WriteFlag(t)
    BY <2>2 DEF Read, Write, WriteCopy, WriteRemove, WriteRename, WriteFlag, thread
  <2>3. CASE \/ Release(t) \/ ReleaseImage(t) \/ ReleaseStore(t)
             \/ OtherPut(t) \/ DumpOpen(t) \/ DumpClose(t)
    BY <2>3 DEF Release, ReleaseImage, ReleaseStore, OtherPut, DumpOpen, DumpClose
  <2> QED
    BY <2>1, <2>2, <2>3 DEF Step
<1> QED
  BY <1>1, <1>2 DEF Changing, Refetching, Flagging, Installing, Writing, Busy

(* While a call is busy nobody else changes the files; while one changes   *)
(* them nobody else stores, or touches an entry but to dump it.            *)
LEMMA BusyUndisturbed ==
  ASSUME LocalTypeOK, NEW t \in Thread, Step(t), ~failed', ~Overlap, ~Overlap',
         NEW u \in Thread \ {t}, Busy(u)
  PROVE  /\ UNCHANGED <<main, tmp>>
         /\ u \in linked' <=> u \in linked
         /\ Changing(u) => UNCHANGED <<stored, mtime, entry>> /\ db' \in {db, NotFound, entry}
<1>1. ~Changing(t) /\ ~Changing(t)'
  BY OthersKeep DEF Overlap
<1>2. Changing(u) => ~Busy(t) /\ ~Busy(t)'
  BY OthersKeep DEF Overlap
<1> USE DEF LocalTypeOK, Goto, PutAndDump, Changing, Refetching, Writing, WriteSteps,
            DumpSteps, Busy, disk, server
<1>3. CASE Open(t) \/ OpenCreate(t)
  BY <1>1, <1>2, <1>3, OpensWork DEF Open, OpenCreate
<1>4. CASE OpenGetattr(t) \/ OpenTruncate(t) \/ OpenFetch(t) \/ OpenInstall(t)
  BY <1>1, <1>2, <1>4 DEF OpenGetattr, OpenTruncate, OpenFetch, OpenInstall
<1>5. CASE Read(t)
  BY <1>5 DEF Read
<1>6. CASE Write(t)
  BY <1>1, <1>2, <1>6, OpensWork DEF Write
<1>7. CASE WriteCopy(t) \/ WriteRemove(t) \/ WriteRename(t) \/ WriteFlag(t)
  BY <1>1, <1>2, <1>7 DEF WriteCopy, WriteRemove, WriteRename, WriteFlag
<1>8. CASE Release(t) \/ ReleaseImage(t) \/ ReleaseStore(t)
  BY <1>1, <1>2, <1>8 DEF Release, ReleaseImage, ReleaseStore
<1>9. CASE OtherPut(t) \/ DumpOpen(t) \/ DumpClose(t)
  BY <1>1, <1>2, <1>9 DEF OtherPut, DumpOpen, DumpClose
<1> QED
  BY <1>3, <1>4, <1>5, <1>6, <1>7, <1>8, <1>9 DEF Step

(* A call that begins to change or to store finds no OPEN at work.         *)
LEMMA NobodyRefetches ==
  ASSUME LocalTypeOK, NEW t \in Thread, Step(t), ~Overlap', Busy(t)', ~Refetching(t)
  PROVE  \A u \in Thread : ~Refetching(u)
<1> SUFFICES ASSUME NEW u \in Thread \ {t}, Refetching(u) PROVE FALSE
  OBVIOUS
<1>1. Changing(u)'
  BY OthersKeep DEF Changing
<1> QED
  BY <1>1 DEF Overlap

(* In numbers: no entry that is not a time is as large as one.             *)
LEMMA TimeFacts ==
  ASSUME LocalTypeOK
  PROVE  /\ mtime \in Int /\ mtime >= 1 /\ entry \in Int /\ db \in Int
         /\ NotFound \in Int /\ Modified \in Int
         /\ NotFound < mtime /\ Modified < mtime
BY DEF LocalTypeOK, NotFound, Modified

-----------------------------------------------------------------------------
(***************************************************************************)
(* The steps.                                                              *)
(***************************************************************************)
LEMMA NotAheadStep ==
  ASSUME LocalTypeOK, EntriesNotAhead, NEW t \in Thread, Step(t)
  PROVE  EntriesNotAhead'
<1>1. /\ mtime' = mtime \/ mtime' = mtime + 1
      /\ entry' \in {entry, Modified, mtime'}
      /\ db' \in {db, NotFound, entry}
  <2> USE DEF LocalTypeOK, PutAndDump, disk, server
  <2>1. CASE \/ Open(t) \/ OpenCreate(t) \/ OpenGetattr(t) \/ OpenTruncate(t)
             \/ OpenFetch(t) \/ OpenInstall(t)
    BY <2>1 DEF Open, OpenCreate, OpenGetattr, OpenTruncate, OpenFetch, OpenInstall
  <2>2. CASE \/ Read(t)
             \/ Write(t) \/ WriteCopy(t) \/ WriteRemove(t) \/ WriteRename(t) \/ WriteFlag(t)
    BY <2>2 DEF Read, Write, WriteCopy, WriteRemove, WriteRename, WriteFlag
  <2>3. CASE \/ Release(t) \/ ReleaseImage(t) \/ ReleaseStore(t)
             \/ OtherPut(t) \/ DumpOpen(t) \/ DumpClose(t)
    BY <2>3 DEF Release, ReleaseImage, ReleaseStore, OtherPut, DumpOpen, DumpClose
  <2> QED
    BY <2>1, <2>2, <2>3 DEF Step
<1> QED
  BY <1>1, TimeFacts DEF EntriesNotAhead

(* A step leaves every other thread's call with what it knows: inside a    *)
(* call, nobody else changes the files.                                    *)
LEMMA OtherCalls ==
  ASSUME LocalTypeOK, LocalTypeOK', NEW t \in Thread, Step(t), ~failed', ~Overlap, ~Overlap',
         NEW u \in Thread \ {t}, CallInv(u)
  PROVE  CallInv(u)'
<1>1. /\ pc'[u] = pc[u] /\ after'[u] = after[u] /\ buf'[u] = buf[u]
      /\ Installing(u)' <=> Installing(u)
  BY OthersKeep
<1>2. CASE Busy(u)
  <2>1. /\ UNCHANGED <<main, tmp>>
        /\ u \in linked' <=> u \in linked
        /\ Changing(u) => UNCHANGED <<stored, mtime, entry>> /\ db' \in {db, NotFound, entry}
    BY <1>2, BusyUndisturbed
  <2>2. /\ Installing(u) => Changing(u)
        /\ pc[u] = "install" => Changing(u)
        /\ pc[u] \in DumpSteps /\ after[u] = "open" => Changing(u)
    BY DEF Installing, Changing, Refetching, Writing
  <2> QED
    BY <1>1, <2>1, <2>2, TimeFacts DEF CallInv
<1>3. CASE ~Busy(u)
  BY <1>1, <1>3 DEF CallInv, Busy, Installing, DumpSteps
<1> QED
  BY <1>2, <1>3

(* A step that changes nobody else's files gives its own call what the     *)
(* next step relies on.                                                    *)
LEMMA OwnCall ==
  ASSUME LocalTypeOK, LocalTypeOK', WritesFit, EntriesNotAhead, stored \in Version, MainIsWhole,
         NEW t \in Thread, Step(t), ~failed', ~Overlap', CallInv(t)
  PROVE  CallInv(t)'
<1>1. Busy(t)' /\ ~Refetching(t) => main \in Version \cup {NoFile}
  BY NobodyRefetches DEF MainIsWhole
<1>2. NoFile \notin Version /\ Empty \notin Version /\ Torn \notin Version
  BY LocalConstants
<1> USE DEF LocalTypeOK, Goto, Hold, PutAndDump, CallInv, Installing, DumpSteps, disk, server
<1>3. CASE Open(t)
  BY <1>3, OpensWork DEF Open
<1>4. CASE OpenCreate(t)
  BY <1>4, OpensWork DEF OpenCreate
<1>5. CASE OpenGetattr(t)
  BY <1>5 DEF OpenGetattr
<1>6. CASE OpenTruncate(t)
  BY <1>6 DEF OpenTruncate
<1>7. CASE OpenFetch(t)
  BY <1>7 DEF OpenFetch
<1>8. CASE OpenInstall(t)
  BY <1>8 DEF OpenInstall
<1>9. CASE Read(t)
  BY <1>9 DEF Read, thread
<1>10. CASE Write(t)
  <2>1. pc[t] = "open" /\ Free
    BY <1>10, OpensWork DEF Write
  <2>2. pc'[t] = "copy" /\ after' = after /\ main' = main
        /\ buf'[t] = IF main = NoFile THEN Torn ELSE main
    BY <1>10, <2>1 DEF Write
  <2>3. main \in Version \cup {NoFile}
    BY <1>1, <2>1, <2>2 DEF Busy, Refetching
  <2> QED
    BY <2>2, <2>3
<1>11. CASE WriteCopy(t)
  <2>1. Opens /\ pc[t] = "copy"
    BY <1>11, OpensWork DEF WriteCopy
  <2>2. buf[t] = main /\ main \in Version
    BY <2>1 DEF Opens
  <2>3. Images(buf[t]) = {main}
    BY <2>2 DEF Images
  <2>4. tmp' = last + 1 /\ pc'[t] = "remove"
    BY <1>11, <2>1, <2>2, <2>3 DEF WriteCopy
  <2>5. tmp' \in Version
    BY <2>1, <2>4, NextVersion
  <2> QED
    BY <2>4, <2>5
<1>12. CASE WriteRemove(t)
  BY <1>12 DEF WriteRemove
<1>13. CASE WriteRename(t)
  BY <1>13 DEF WriteRename
<1>14. CASE WriteFlag(t)
  BY <1>14 DEF WriteFlag
<1>15. CASE Release(t)
  <2>1. pc[t] = "open" /\ main' = main /\ pc'[t] \in {"image", "idle"}
        /\ buf'[t] = IF main = NoFile THEN Torn ELSE main
    BY <1>15 DEF Release
  <2>2. pc'[t] = "image" => main \in Version \cup {NoFile}
    BY <1>1, <2>1 DEF Busy, Refetching
  <2> QED
    BY <2>1, <2>2
<1>16. CASE ReleaseImage(t)
  <2>1. Opens /\ pc[t] = "image"
    BY <1>16, OpensWork DEF ReleaseImage
  <2>2. buf[t] = main /\ main \in Version
    BY <2>1 DEF Opens
  <2>3. Images(buf[t]) = {main}
    BY <2>2 DEF Images
  <2>4. buf'[t] = main /\ pc'[t] = "store" /\ main' = main
    BY <1>16, <2>1, <2>3 DEF ReleaseImage
  <2> QED
    BY <2>2, <2>4
<1>17. CASE ReleaseStore(t)
  BY <1>17 DEF ReleaseStore
<1>18. CASE OtherPut(t)
  BY <1>18 DEF OtherPut
<1>19. CASE DumpOpen(t)
  BY <1>19 DEF DumpOpen
<1>20. CASE DumpClose(t)
  BY <1>20 DEF DumpClose
<1> QED
  BY <1>3, <1>4, <1>5, <1>6, <1>7, <1>8, <1>9, <1>10, <1>11, <1>12, <1>13, <1>14, <1>15,
     <1>16, <1>17, <1>18, <1>19, <1>20 DEF Step

(* What a step of a call does to the cached file.                          *)
LEMMA MainStep ==
  ASSUME LocalTypeOK, NEW t \in Thread, Step(t), CallInv(t), ~Refetching(t)'
  PROVE  \/ main' = main /\ ~Refetching(t)
         \/ main' = NoFile /\ ~Refetching(t)
         \/ main' \in Version /\ Flagging(t)'
         \/ pc[t] = "install" /\ main' = buf[t] /\ buf[t] \in Version
<1> USE DEF LocalTypeOK, Goto, PutAndDump, CallInv, Refetching, Flagging, Installing,
            DumpSteps, disk, server
<1>1. CASE Open(t) \/ OpenCreate(t) \/ OpenGetattr(t)
  BY <1>1 DEF Open, OpenCreate, OpenGetattr
<1>2. CASE OpenTruncate(t) \/ OpenFetch(t)
  BY <1>2 DEF OpenTruncate, OpenFetch
<1>3. CASE OpenInstall(t)
  BY <1>3 DEF OpenInstall, Appended
<1>4. CASE Read(t) \/ Write(t) \/ WriteCopy(t)
  BY <1>4 DEF Read, Write, WriteCopy, thread
<1>5. CASE WriteRemove(t) \/ WriteFlag(t)
  BY <1>5 DEF WriteRemove, WriteFlag
<1>6. CASE WriteRename(t)
  <2>1. tmp \in Version /\ tmp # NoFile
    BY <1>6, LocalConstants DEF WriteRename
  <2> QED
    BY <1>6, <2>1 DEF WriteRename
<1>7. CASE Release(t) \/ ReleaseImage(t) \/ ReleaseStore(t)
  BY <1>7 DEF Release, ReleaseImage, ReleaseStore
<1>8. CASE OtherPut(t) \/ DumpOpen(t)
  BY <1>8 DEF OtherPut, DumpOpen
<1>9. CASE DumpClose(t)
  BY <1>9 DEF DumpClose
<1> QED
  BY <1>1, <1>2, <1>3, <1>4, <1>5, <1>6, <1>7, <1>8, <1>9 DEF Step

(* The cached file is whole again whenever OPEN has ended.                 *)
LEMMA WholeStep ==
  ASSUME LocalTypeOK, MainIsWhole, NEW t \in Thread, Step(t), CallInv(t)
  PROVE  MainIsWhole'
<1> SUFFICES ASSUME \A u \in Thread : ~Refetching(u)'
             PROVE  main' \in Version \cup {NoFile}
  BY DEF MainIsWhole
<1>1. \A u \in Thread \ {t} : ~Refetching(u)
  BY OthersKeep
<1>2. ~Refetching(t) => main \in Version \cup {NoFile}
  BY <1>1 DEF MainIsWhole
<1> QED
  BY <1>2, MainStep

(* The server gets versions only.                                          *)
LEMMA StoredStep ==
  ASSUME stored \in Version, NEW t \in Thread, Step(t), CallInv(t)
  PROVE  stored' \in Version
<1> USE DEF CallInv, server
<1>1. CASE \/ Open(t) \/ OpenCreate(t) \/ OpenGetattr(t) \/ OpenTruncate(t)
           \/ OpenFetch(t) \/ OpenInstall(t)
  BY <1>1 DEF Open, OpenCreate, OpenGetattr, OpenTruncate, OpenFetch, OpenInstall
<1>2. CASE \/ Read(t)
           \/ Write(t) \/ WriteCopy(t) \/ WriteRemove(t) \/ WriteRename(t) \/ WriteFlag(t)
  BY <1>2 DEF Read, Write, WriteCopy, WriteRemove, WriteRename, WriteFlag
<1>3. CASE \/ Release(t) \/ ReleaseImage(t) \/ ReleaseStore(t)
           \/ OtherPut(t) \/ DumpOpen(t) \/ DumpClose(t)
  BY <1>3 DEF Release, ReleaseImage, ReleaseStore, OtherPut, DumpOpen, DumpClose
<1> QED
  BY <1>1, <1>2, <1>3 DEF Step

(* The step that leaves a Window makes the entry true again.               *)
LEMMA WindowCloses ==
  ASSUME LocalTypeOK, LocalTypeOK', NEW t \in Thread, Step(t), CallInv(t), t \in Windows,
         t \notin Windows'
  PROVE  /\ db' >= mtime' => db' = entry'
         /\ entry' >= mtime' => main' = stored'
<1>1. Refetching(t) \/ Flagging(t)
  BY DEF Windows
<1>2. ~Refetching(t)' /\ ~Flagging(t)'
  BY DEF Windows
<1> USE <1>1, <1>2 DEF LocalTypeOK, Goto, PutAndDump, CallInv, Refetching, Flagging,
            Installing, DumpSteps, disk, server
<1>3. CASE Open(t) \/ OpenCreate(t) \/ OpenGetattr(t)
  BY <1>3 DEF Open, OpenCreate, OpenGetattr
<1>4. CASE OpenTruncate(t) \/ OpenFetch(t)
  BY <1>4 DEF OpenTruncate, OpenFetch
<1>5. CASE OpenInstall(t)
  BY <1>5 DEF OpenInstall, Appended
<1>6. CASE Read(t) \/ Write(t) \/ WriteCopy(t)
  BY <1>6 DEF Read, Write, WriteCopy, thread
<1>7. CASE WriteRemove(t) \/ WriteRename(t) \/ WriteFlag(t)
  BY <1>7 DEF WriteRemove, WriteRename, WriteFlag
<1>8. CASE Release(t) \/ ReleaseImage(t) \/ ReleaseStore(t)
  BY <1>8 DEF Release, ReleaseImage, ReleaseStore
<1>9. CASE OtherPut(t) \/ DumpOpen(t)
  BY <1>9 DEF OtherPut, DumpOpen
<1>10. CASE DumpClose(t)
  <2>1. db' = entry /\ entry' = entry /\ mtime' = mtime /\ entry = Modified
    BY <1>10 DEF DumpClose
  <2> QED
    BY <2>1, TimeFacts
<1> QED
  BY <1>3, <1>4, <1>5, <1>6, <1>7, <1>8, <1>9, <1>10 DEF Step

(* A step outside the Windows keeps the entry true.                        *)
LEMMA OutsideWindows ==
  ASSUME LocalTypeOK, LocalTypeOK', EntriesNotAhead, NEW t \in Thread, Step(t), ~failed', CallInv(t),
         t \notin Windows, t \notin Windows',
         entry >= mtime => main \in {stored, NoFile},
         db >= mtime => db = entry
  PROVE  /\ db' >= mtime' => db' = entry'
         /\ entry' >= mtime' => main' \in {stored', NoFile}
<1>1. ~Refetching(t) /\ ~Flagging(t)
  BY DEF Windows
<1>2. ~Refetching(t)' /\ ~Flagging(t)'
  BY DEF Windows
<1> USE <1>1, <1>2, TimeFacts DEF LocalTypeOK, Goto, PutAndDump, CallInv, Refetching, Flagging,
            Installing, DumpSteps, disk, server
<1>3. CASE Open(t) \/ OpenCreate(t) \/ OpenGetattr(t)
  BY <1>3, OpensWork DEF Open, OpenCreate, OpenGetattr
<1>4. CASE OpenTruncate(t) \/ OpenFetch(t) \/ OpenInstall(t)
  BY <1>4 DEF OpenTruncate, OpenFetch, OpenInstall
<1>5. CASE Read(t) \/ Write(t) \/ WriteCopy(t)
  BY <1>5 DEF Read, Write, WriteCopy, thread
<1>6. CASE WriteRemove(t) \/ WriteRename(t) \/ WriteFlag(t)
  BY <1>6 DEF WriteRemove, WriteRename, WriteFlag
<1>7. CASE Release(t) \/ ReleaseImage(t)
  BY <1>7 DEF Release, ReleaseImage
<1>8. CASE ReleaseStore(t)
  BY <1>8 DEF ReleaseStore, EntriesNotAhead
<1>9. CASE OtherPut(t) \/ DumpOpen(t) \/ DumpClose(t)
  BY <1>9 DEF OtherPut, DumpOpen, DumpClose
<1> QED
  BY <1>3, <1>4, <1>5, <1>6, <1>7, <1>8, <1>9 DEF Step

(* When a step ends a Window, or begins none, the entries of memory and    *)
(* disk are true.                                                          *)
LEMMA EntriesStep ==
  ASSUME LocalTypeOK, LocalTypeOK', EntriesNotAhead, EntryIsTrue, DatabaseIsEntry,
         NEW t \in Thread, Step(t), ~failed', CallInv(t)
  PROVE  EntryIsTrue' /\ DatabaseIsEntry'
<1> SUFFICES ASSUME Windows' = {}
             PROVE  /\ db' >= mtime' => db' = entry'
                    /\ entry' >= mtime' => main' \in {stored', NoFile}
  BY DEF EntryIsTrue, DatabaseIsEntry
<1>1. t \notin Windows'
  OBVIOUS
<1>2. Windows \subseteq {t}
  BY OthersKeep DEF Windows
<1>3. CASE t \in Windows
  BY <1>1, <1>3, WindowCloses
<1>4. CASE t \notin Windows
  <2>1. Windows = {}
    BY <1>2, <1>4
  <2> QED
    BY <1>1, <1>4, <2>1, OutsideWindows DEF EntryIsTrue, DatabaseIsEntry
<1> QED
  BY <1>3, <1>4

-----------------------------------------------------------------------------
(***************************************************************************)
(* The theorems.                                                           *)
(***************************************************************************)
LEMMA RunCrashInv ==
  ASSUME LocalInv, LocalInv', CrashInv, NEW t \in Thread, Run(t)
  PROVE  CrashInv'
<1>0. LocalTypeOK /\ LocalTypeOK' /\ WritesFit
  BY DEF LocalInv
<1>1. Step(t)
  BY DEF Run
<1>2. EntriesNotAhead'
  BY <1>0, <1>1, NotAheadStep DEF CrashInv
<1>3. ~overlapped' => ~Overlap'
  BY Zenon DEF Run
<1>4. ASSUME Undisturbed'
      PROVE  /\ stored' \in Version
             /\ \A u \in Thread : CallInv(u)'
             /\ MainIsWhole' /\ EntryIsTrue' /\ DatabaseIsEntry'
  <2>1. Undisturbed /\ ~Overlap'
    BY <1>4, HistoryStays
  <2>2. ~failed'
    BY <1>4, Zenon DEF Undisturbed
  <2>3. ~Overlap
    BY <2>1, Zenon DEF CrashInv, Undisturbed
  <2>4. /\ EntriesNotAhead /\ stored \in Version /\ \A u \in Thread : CallInv(u)
        /\ MainIsWhole /\ EntryIsTrue /\ DatabaseIsEntry
    BY <2>1 DEF CrashInv
  <2>5. ASSUME NEW u \in Thread PROVE CallInv(u)'
    <3>1. CASE u = t
      BY <1>0, <1>1, <2>1, <2>2, <2>4, <3>1, OwnCall
    <3>2. CASE u # t
      BY <1>0, <1>1, <2>1, <2>2, <2>3, <2>4, <3>2, OtherCalls
    <3> QED
      BY <3>1, <3>2
  <2>6. stored' \in Version /\ MainIsWhole'
    BY <1>0, <1>1, <2>4, StoredStep, WholeStep
  <2>7. EntryIsTrue' /\ DatabaseIsEntry'
    BY <1>0, <1>1, <2>2, <2>4, EntriesStep
  <2> QED
    BY <2>5, <2>6, <2>7
<1> QED
  BY <1>2, <1>3, <1>4 DEF CrashInv

(* After a crash outside the Windows the entry is true, since the database *)
(* was; inside them, or after a step that failed, nothing is claimed.      *)
LEMMA RestartCrashInv ==
  ASSUME LocalInv, LocalInv', CrashInv, Restart, failed => failed'
  PROVE  CrashInv'
<1>0. LocalTypeOK /\ LocalTypeOK'
  BY DEF LocalInv
<1>1. /\ entry' = db /\ UNCHANGED <<stored, mtime, main, db>>
      /\ pc' = [t \in Thread |-> "idle"] /\ after' = [t \in Thread |-> "idle"]
  BY DEF Restart, server, disk
<1>2. \A t \in Thread : ~Refetching(t)' /\ ~Flagging(t)' /\ ~Writing(t)'
  BY <1>1 DEF Refetching, Flagging, Writing, DumpSteps, WriteSteps
<1>3. Windows' = {} /\ ~Overlap'
  BY <1>2 DEF Windows, Overlap, Changing
<1>4. EntriesNotAhead'
  BY <1>1 DEF CrashInv, EntriesNotAhead
<1>5. ASSUME Undisturbed'
      PROVE  /\ stored' \in Version
             /\ \A u \in Thread : CallInv(u)'
             /\ MainIsWhole' /\ EntryIsTrue' /\ DatabaseIsEntry'
  <2>1. Undisturbed /\ Windows = {}
    BY <1>5, Zenon DEF Undisturbed, Restart
  <2>2. /\ EntriesNotAhead /\ stored \in Version
        /\ MainIsWhole /\ EntryIsTrue /\ DatabaseIsEntry
    BY <2>1 DEF CrashInv
  <2>3. \A u \in Thread : CallInv(u)'
    BY <1>1 DEF CallInv, Installing, DumpSteps
  <2>4. main \in Version \cup {NoFile}
    BY <2>1, <2>2 DEF MainIsWhole, Windows
  <2>5. MainIsWhole' /\ DatabaseIsEntry'
    BY <1>1, <2>4 DEF MainIsWhole, DatabaseIsEntry
  <2>6. EntryIsTrue'
    BY <1>1, <2>1, <2>2 DEF EntryIsTrue, DatabaseIsEntry
  <2> QED
    BY <1>1, <2>2, <2>3, <2>5, <2>6
<1> QED
  BY <1>3, <1>4, <1>5 DEF CrashInv

(* Another machine's store makes every entry too small.                    *)
LEMMA RemoteCrashInv ==
  ASSUME LocalInv, LocalInv', CrashInv, RemoteStore, UNCHANGED <<overlapped, harmed>>
  PROVE  CrashInv'
<1>0. LocalTypeOK /\ WritesFit
  BY DEF LocalInv
<1>1. /\ last' = last + 1 /\ stored' = last + 1 /\ mtime' = mtime + 1 /\ Room
      /\ UNCHANGED <<main, tmp, db, entry, linked, pc, after, buf, failed>>
  BY DEF RemoteStore, disk, thread
<1>2. Windows' = Windows /\ (Undisturbed' <=> Undisturbed) /\ (Overlap' <=> Overlap)
  BY <1>1, Zenon DEF Windows, Refetching, Flagging, Undisturbed, Overlap, Changing, Writing, Busy
<1>3. EntriesNotAhead' /\ ~(entry' >= mtime') /\ ~(db' >= mtime')
  BY <1>0, <1>1, TimeFacts DEF CrashInv, EntriesNotAhead
<1>4. overlapped' = overlapped
  OBVIOUS
<1>5. ~overlapped' => ~Overlap'
  <2>1. ~overlapped => ~Overlap
    BY DEF CrashInv
  <2>2. ~Overlap => ~Overlap'
    BY <1>2
  <2>3. overlapped \in BOOLEAN
    BY <1>0 DEF LocalTypeOK
  <2>4. ~overlapped' => ~overlapped
    BY <1>4, <2>3, SMT
  <2> QED
    BY <2>1, <2>2, <2>4, Zenon
<1>6. ASSUME Undisturbed'
      PROVE  /\ stored' \in Version
             /\ \A u \in Thread : CallInv(u)'
             /\ MainIsWhole' /\ EntryIsTrue' /\ DatabaseIsEntry'
  <2>1. Undisturbed
    BY <1>2, <1>6
  <2>2. /\ stored \in Version /\ MainIsWhole
        /\ \A u \in Thread : CallInv(u)
    BY <2>1 DEF CrashInv
  <2>3. stored' \in Version
    <3>1. CASE \E t \in Thread : TRUE
      BY <1>0, <1>1, <3>1, NextVersion
    <3>2. CASE Thread = {}
      <4>1. {t \in Thread : pc[t] = "copy"} = {} /\ last \in Nat /\ last >= 1
        BY <1>0, <3>2, LocalConstants DEF LocalTypeOK, Version
      <4> QED
        BY <1>1, <4>1, FS_EmptySet, LocalConstants DEF Room, Version
    <3> QED
      BY <3>1, <3>2
  <2>4. \A u \in Thread : CallInv(u)'
    BY <1>1, <1>3, <2>2 DEF CallInv, Installing
  <2>5. MainIsWhole'
    <3>1. main \in Version \cup {NoFile} \/ \E t \in Thread : Refetching(t)
      BY <2>2 DEF MainIsWhole
    <3>2. \A t \in Thread : Refetching(t) => Refetching(t)'
      BY <1>1 DEF Refetching
    <3> QED
      BY <1>1, <3>1, <3>2 DEF MainIsWhole
  <2>6. EntryIsTrue' /\ DatabaseIsEntry'
    BY <1>3 DEF EntryIsTrue, DatabaseIsEntry
  <2> QED
    BY <2>3, <2>4, <2>5, <2>6
<1> QED
  BY <1>3, <1>5, <1>6 DEF CrashInv

(* The invariant holds on an empty cache.                                  *)
LEMMA InitCrashInv == LocalInit => CrashInv
<1> SUFFICES ASSUME LocalInit PROVE CrashInv
  OBVIOUS
<1>1. /\ stored = 1 /\ mtime = 1 /\ main = NoFile /\ db = NotFound /\ entry = NotFound
      /\ pc = [t \in Thread |-> "idle"] /\ after = [t \in Thread |-> "idle"]
  BY DEF LocalInit
<1>2. \A t \in Thread : ~Refetching(t) /\ ~Writing(t) /\ CallInv(t)
  BY <1>1 DEF Refetching, Writing, WriteSteps, DumpSteps, CallInv, Installing
<1>3. ~Overlap
  BY <1>2 DEF Overlap, Changing
<1>4. NotFound < 1 /\ 1 \in Version
  BY LocalConstants DEF NotFound, Version
<1>5. EntriesNotAhead /\ MainIsWhole /\ EntryIsTrue /\ DatabaseIsEntry
  BY <1>1, <1>4 DEF EntriesNotAhead, MainIsWhole, EntryIsTrue, DatabaseIsEntry, NotFound
<1> QED
  BY <1>1, <1>2, <1>3, <1>4, <1>5 DEF CrashInv

(* Every step keeps it.                                                    *)
LEMMA NextCrashInv == LocalInv /\ LocalInv' /\ CrashInv /\ [LocalNext]_localVars => CrashInv'
<1> SUFFICES ASSUME LocalInv, LocalInv', CrashInv, [LocalNext]_localVars PROVE CrashInv'
  OBVIOUS
<1>1. ASSUME NEW t \in Thread, Run(t) PROVE CrashInv'
  BY <1>1, RunCrashInv
<1>2. CASE Crash
  <2>1. Restart /\ (failed => failed')
    BY <1>2, Zenon DEF Crash
  <2> QED
    BY <2>1, RestartCrashInv
<1>3. CASE DumpFault
  <2>1. Restart /\ (failed => failed')
    BY <1>3, Zenon DEF DumpFault, Refused
  <2> QED
    BY <2>1, RestartCrashInv
<1>4. CASE RemoteStore /\ UNCHANGED <<overlapped, harmed>>
  BY <1>4, RemoteCrashInv
<1>5. CASE UNCHANGED localVars
  <2>1. UNCHANGED <<stored, mtime, main, tmp, db, entry, linked, pc, after, buf>>
    BY <1>5 DEF localVars, server, disk, thread
  <2>2. UNCHANGED <<overlapped, harmed, failed>>
    BY <1>5 DEF localVars, history
  <2>3. /\ Undisturbed' => Undisturbed
        /\ (~overlapped => ~Overlap) => (~overlapped' => ~Overlap')
    BY <2>1, <2>2, Zenon DEF Undisturbed, Overlap, Changing, Refetching, Writing, Busy
  <2>4. EntriesNotAhead' /\ (~overlapped' => ~Overlap')
    BY <2>1, <2>3 DEF CrashInv, EntriesNotAhead
  <2>5. ASSUME Undisturbed'
        PROVE  /\ stored' \in Version
               /\ \A u \in Thread : CallInv(u)'
               /\ MainIsWhole' /\ EntryIsTrue' /\ DatabaseIsEntry'
    <3>1. /\ stored \in Version
          /\ \A u \in Thread : CallInv(u)
          /\ MainIsWhole /\ EntryIsTrue /\ DatabaseIsEntry
      BY <2>3, <2>5 DEF CrashInv
    <3>2. \A u \in Thread : CallInv(u)'
      BY <2>1, <3>1 DEF CallInv, Installing
    <3>3. MainIsWhole' /\ EntryIsTrue' /\ DatabaseIsEntry'
      BY <2>1, <3>1 DEF MainIsWhole, EntryIsTrue, DatabaseIsEntry, Windows, Refetching, Flagging
    <3> QED
      BY <2>1, <3>1, <3>2, <3>3
  <2> QED
    BY <2>4, <2>5 DEF CrashInv
<1> QED
  BY <1>1, <1>2, <1>3, <1>4, <1>5 DEF LocalNext

(* It holds in every reachable state.                                      *)
LEMMA CrashInvariant == LocalSpec => []CrashInv
<1> QED
  BY InitCrashInv, NextCrashInv, LocalInvariant, PTL DEF LocalSpec

(* For any number of threads and versions: outside the two Windows, a      *)
(* client that is killed never finds a copy on its disk that the database  *)
(* wrongly takes for the server's file, as long as no two calls change     *)
(* the file at the same time and no open() fails.                          *)
THEOREM CrashesAreSafe == LocalSpec => []RestartIsSafe
<1>1. LocalInv /\ CrashInv => RestartIsSafe
  <2> SUFFICES ASSUME LocalInv, CrashInv, Undisturbed, Windows = {}, db >= mtime
               PROVE  main \in {stored, NoFile}
    BY DEF RestartIsSafe
  <2>1. EntryIsTrue /\ DatabaseIsEntry
    BY DEF CrashInv
  <2> QED
    BY <2>1 DEF EntryIsTrue, DatabaseIsEntry
<1> QED
  BY <1>1, LocalInvariant, CrashInvariant, PTL

(* Under the same conditions the server only ever gets what a write() of   *)
(* an application made of a whole version, wherever crashes cut calls off. *)
THEOREM OnlyWholeFiles == LocalSpec => []OnlyWholeFilesAreStored
<1>1. CrashInv => OnlyWholeFilesAreStored
  BY DEF CrashInv, OnlyWholeFilesAreStored, CallInv
<1> QED
  BY <1>1, CrashInvariant, PTL

=============================================================================
