------------------------------ MODULE AfsLocal ------------------------------
(***************************************************************************)
(* One client machine at the level of its system calls, for one file: the  *)
(* cached file, the _tmp file of WRITE, the file's line in database.txt,   *)
(* and the descriptors the client has open.  The client may be killed      *)
(* between any two steps, and is started again on what is on its disk.     *)
(*                                                                         *)
(* AfsCache has the RPCs in detail; here each is answered in one step,     *)
(* together with the put() that follows it.  Applications open, read,      *)
(* write and close; FUSE serves them from several threads, and the kernel  *)
(* lets one write() of a file through at a time.                           *)
(***************************************************************************)
EXTENDS Integers, FiniteSets

CONSTANTS
  Thread,       (* descriptors of the file that applications may hold      *)
  NoFile,       (* there is no such file                                   *)
  Empty,        (* a file of length 0                                      *)
  Torn,         (* bytes that never were the file: cut, doubled, or junk   *)
  MaxVersion,   (* bound: contents that are written, here or elsewhere     *)
  MaxFd         (* descriptors the client may have open                    *)

Version == 1..MaxVersion
Content == Version \cup {Empty, Torn}

ASSUME LocalConstants ==
  /\ IsFiniteSet(Thread)
  /\ MaxVersion \in Nat \ {0} /\ MaxFd \in Nat
  /\ Cardinality({NoFile, Empty, Torn}) = 3
  /\ {NoFile, Empty, Torn} \cap Version = {}

NotFound == -1
Modified == -12345678

VARIABLES
  stored,     (* the server's file                                         *)
  mtime,      (* its time                                                  *)
  last,       (* the last content written anywhere                         *)
  main,       (* the cached file, or NoFile                                *)
  tmp,        (* the _tmp file, or NoFile                                  *)
  db,         (* the file's entry in database.txt                          *)
  entry,      (* the file's entry in memory                                *)
  linked,     (* threads inside OPEN whose fd is the cached file           *)
  handles,    (* threads whose file_info->fh is an open descriptor         *)
  fds,        (* descriptors the client has open                           *)
  pc,         (* what t does next                                          *)
  after,      (* after[t]: what t does when dump() returns                 *)
  buf,        (* buf[t]: the content t has read, or seen with lstat()      *)
  (* The rest is history, which the program does not have.                 *)
  used,       (* OPENs and READs that got a descriptor in this run         *)
  overlapped, (* a call came between the steps of a change of the file     *)
  harmed,     (* the client was killed in one of the Windows               *)
  failed      (* an open() failed that the code counts on                  *)

server == <<stored, mtime, last>>
disk == <<main, tmp, db>>
thread == <<pc, after, buf>>
history == <<used, overlapped, harmed, failed>>
localVars == <<server, disk, entry, linked, handles, fds, thread, history>>

OpenSteps == {"create", "getattr", "truncate", "fetch", "install"}
WriteSteps == {"copy", "remove", "rename", "flag"}
ReleaseSteps == {"image", "store"}
DumpSteps == {"dump", "dump_close"}
PC == {"idle", "open"} \cup OpenSteps \cup WriteSteps \cup ReleaseSteps \cup DumpSteps

LocalInit ==
  /\ stored = 1 /\ mtime = 1 /\ last = 1
  /\ main = NoFile /\ tmp = NoFile
  /\ db = NotFound /\ entry = NotFound
  /\ linked = {} /\ handles = {} /\ fds = 0
  /\ pc = [t \in Thread |-> "idle"]
  /\ after = [t \in Thread |-> "idle"]
  /\ buf = [t \in Thread |-> Empty]
  /\ used = 0
  /\ overlapped = FALSE /\ harmed = FALSE /\ failed = FALSE

-----------------------------------------------------------------------------
Goto(t, q) == pc' = [pc EXCEPT ![t] = q] /\ UNCHANGED after

Hold(t, c) == buf' = [buf EXCEPT ![t] = c]

(* put(), and the dump() that always follows.                              *)
PutAndDump(t, time, q) ==
  /\ entry' = time
  /\ pc' = [pc EXCEPT ![t] = "dump"]
  /\ after' = [after EXCEPT ![t] = q]

(* Bound: a WRITE that has begun has a content left for it.                *)
Room == last + Cardinality({t \in Thread : pc[t] = "copy"}) < MaxVersion

(* open() finds a free descriptor.                                         *)
Free == fds < MaxFd

Refused == failed' = TRUE

(* open() of the cached file by its name.                                  *)
Opens == Free /\ main # NoFile

(* A file of the size lstat() gave, and the bytes read() finds later: the  *)
(* two may not belong together.                                            *)
Images(seen) == IF main = seen THEN {main} ELSE {main, Torn}

(* write(fd, buf, size) to an O_APPEND descriptor.                         *)
Appended(c) == IF main = Empty THEN c ELSE Torn

-----------------------------------------------------------------------------
(***************************************************************************)
(* OPEN.                                                                   *)
(***************************************************************************)

(* open() without O_CREAT.  When no descriptor is free neither open()      *)
(* works, ftruncate(-1) fails, and the call returns its error.             *)
Open(t) ==
  /\ pc[t] = "idle"
  /\ IF ~Free
     THEN Refused /\ UNCHANGED <<linked, fds, used, pc, after>>
     ELSE IF main = NoFile
     THEN Goto(t, "create") /\ UNCHANGED <<linked, fds, used, failed>>
     ELSE /\ Goto(t, "getattr")
          /\ linked' = linked \cup {t}
          /\ fds' = fds + 1 /\ used' = used + 1
          /\ UNCHANGED failed
  /\ UNCHANGED <<server, disk, entry, handles, buf>>

(* open(O_CREAT), which another thread may have been faster to do.         *)
OpenCreate(t) ==
  /\ pc[t] = "create"
  /\ IF ~Free
     THEN Refused /\ Goto(t, "idle") /\ UNCHANGED <<main, linked, fds, used>>
     ELSE /\ Goto(t, "truncate")
          /\ main' = IF main = NoFile THEN Empty ELSE main
          /\ linked' = linked \cup {t}
          /\ fds' = fds + 1 /\ used' = used + 1
          /\ UNCHANGED failed
  /\ UNCHANGED <<server, tmp, db, entry, handles, buf>>

(* GETATTR, and the comparison with the entry.                             *)
OpenGetattr(t) ==
  /\ pc[t] = "getattr"
  /\ IF mtime > entry
     THEN Goto(t, "truncate") /\ UNCHANGED <<linked, handles>>
     ELSE /\ Goto(t, "open")
          /\ linked' = linked \ {t} /\ handles' = handles \cup {t}
  /\ UNCHANGED <<server, disk, entry, fds, buf, used, failed>>

(* A mistake: the copy is not emptied before it is fetched again.          *)
OpenKeep(t) ==
  /\ pc[t] = "truncate"
  /\ Goto(t, "fetch")
  /\ UNCHANGED <<server, disk, entry, linked, handles, fds, buf, used, failed>>

(* ftruncate(fd, 0)                                                        *)
OpenTruncate(t) ==
  /\ pc[t] = "truncate"
  /\ main' = IF t \in linked THEN Empty ELSE main
  /\ Goto(t, "fetch")
  /\ UNCHANGED <<server, tmp, db, entry, linked, handles, fds, buf, used, failed>>

(* FETCH: the reply's time is put and dumped before its data is written.   *)
OpenFetch(t) ==
  /\ pc[t] = "fetch"
  /\ Hold(t, stored)
  /\ PutAndDump(t, mtime, "install")
  /\ UNCHANGED <<server, disk, linked, handles, fds, used, failed>>

(* write(fd, buf, size), fsync(fd), and file_info->fh = fd.                *)
OpenInstall(t) ==
  /\ pc[t] = "install"
  /\ main' = IF t \in linked THEN Appended(buf[t]) ELSE main
  /\ linked' = linked \ {t} /\ handles' = handles \cup {t}
  /\ Goto(t, "open")
  /\ UNCHANGED <<server, tmp, db, entry, fds, buf, used, failed>>

-----------------------------------------------------------------------------
(***************************************************************************)
(* READ.  The descriptor it opens takes the place of file_info->fh, which  *)
(* is lost, and is itself never closed.                                    *)
(***************************************************************************)
Read(t) ==
  /\ pc[t] = "open"
  /\ IF Opens
     THEN /\ handles' = handles \cup {t}
          /\ fds' = fds + 1 /\ used' = used + 1
     ELSE handles' = handles \ {t} /\ UNCHANGED <<fds, used>>
  /\ failed' = (failed \/ ~Opens)
  /\ UNCHANGED <<server, disk, entry, linked, thread>>

-----------------------------------------------------------------------------
(***************************************************************************)
(* WRITE: into a copy, _tmp, that then replaces the cached file.           *)
(***************************************************************************)
Writing(t) == pc[t] \in WriteSteps \/ (pc[t] \in DumpSteps /\ after[t] = "open")

(* open(_tmp, O_TRUNC), and lstat() of the cached file.  Without a         *)
(* descriptor WRITE goes on all the same, and only fails to write.         *)
Write(t) ==
  /\ pc[t] = "open"
  /\ Room
  /\ \A u \in Thread : ~Writing(u)
  /\ Hold(t, IF main = NoFile THEN Torn ELSE main)
  /\ IF Free
     THEN tmp' = Empty /\ fds' = fds + 1 /\ Goto(t, "copy") /\ UNCHANGED failed
     ELSE Refused /\ Goto(t, "remove") /\ UNCHANGED <<tmp, fds>>
  /\ UNCHANGED <<server, main, db, entry, linked, handles, used>>

(* A mistake: fd_main is not closed.                                       *)
WriteCopyLeak(t) ==
  /\ pc[t] = "copy"
  /\ \E image \in IF Opens THEN Images(buf[t]) ELSE {Torn} :
       IF image \in Version THEN tmp' = last + 1 /\ last' = last + 1
                            ELSE tmp' = Torn /\ UNCHANGED last
  /\ failed' = (failed \/ ~Opens)
  /\ UNCHANGED fds
  /\ Goto(t, "remove")
  /\ UNCHANGED <<stored, mtime, main, db, entry, linked, handles, buf, used>>

(* open(), read() and close() of the cached file, write() of its image and *)
(* pwrite() of the new bytes into _tmp, close() of that.                   *)
WriteCopy(t) ==
  /\ pc[t] = "copy"
  /\ \E image \in IF Opens THEN Images(buf[t]) ELSE {Torn} :
       IF image \in Version THEN tmp' = last + 1 /\ last' = last + 1
                            ELSE tmp' = Torn /\ UNCHANGED last
  /\ failed' = (failed \/ ~Opens)
  /\ fds' = fds - 1
  /\ Goto(t, "remove")
  /\ UNCHANGED <<stored, mtime, main, db, entry, linked, handles, buf, used>>

(* remove(client_path)                                                     *)
WriteRemove(t) ==
  /\ pc[t] = "remove"
  /\ main' = NoFile /\ linked' = {}
  /\ Goto(t, "rename")
  /\ UNCHANGED <<server, tmp, db, entry, handles, fds, buf, used, failed>>

(* rename(), which fails when there is no _tmp file.                       *)
WriteRename(t) ==
  /\ pc[t] = "rename"
  /\ IF tmp # NoFile THEN main' = tmp /\ tmp' = NoFile /\ linked' = {}
                     ELSE UNCHANGED <<main, tmp, linked>>
  /\ Goto(t, "flag")
  /\ UNCHANGED <<server, db, entry, handles, fds, buf, used, failed>>

(* A mistake: the flag is put and not dumped.                              *)
WriteFlagInMemory(t) ==
  /\ pc[t] = "flag"
  /\ entry' = Modified
  /\ Goto(t, "open")
  /\ UNCHANGED <<server, disk, linked, handles, fds, buf, used, failed>>

WriteFlag(t) ==
  /\ pc[t] = "flag"
  /\ PutAndDump(t, Modified, "open")
  /\ UNCHANGED <<server, disk, linked, handles, fds, buf, used, failed>>

-----------------------------------------------------------------------------
(***************************************************************************)
(* RELEASE.                                                                *)
(***************************************************************************)

(* lstat(), get(), and close(fi->fh) when the file was modified: otherwise *)
(* the descriptor is left open.                                            *)
Release(t) ==
  /\ pc[t] = "open"
  /\ Hold(t, IF main = NoFile THEN Torn ELSE main)
  /\ IF entry = Modified
     THEN Goto(t, "image") /\ fds' = fds - Cardinality({t} \cap handles)
     ELSE Goto(t, "idle") /\ UNCHANGED fds
  /\ handles' = handles \ {t}
  /\ UNCHANGED <<server, disk, entry, linked, used, failed>>

(* open() and read(); the descriptor is left open.                         *)
ReleaseImage(t) ==
  /\ pc[t] = "image"
  /\ \E image \in IF Opens THEN Images(buf[t]) ELSE {Torn} : Hold(t, image)
  /\ failed' = (failed \/ ~Opens)
  /\ fds' = IF Opens THEN fds + 1 ELSE fds
  /\ Goto(t, "store")
  /\ UNCHANGED <<server, disk, entry, linked, handles, used>>

(* STORE, and the time of its reply.                                       *)
ReleaseStore(t) ==
  /\ pc[t] = "store"
  /\ stored' = buf[t] /\ mtime' = mtime + 1
  /\ PutAndDump(t, mtime + 1, "idle")
  /\ UNCHANGED <<last, disk, linked, handles, fds, buf, used, failed>>

-----------------------------------------------------------------------------
(***************************************************************************)
(* dump(), crashes, and the rest of the world.                             *)
(***************************************************************************)

(* A call for another file that puts and dumps.                            *)
OtherPut(t) ==
  /\ pc[t] = "idle"
  /\ PutAndDump(t, entry, "idle")
  /\ UNCHANGED <<server, disk, linked, handles, fds, buf, used, failed>>

(* A mistake: the database is opened although no descriptor is free.       *)
DumpOpenAnyway(t) ==
  /\ pc[t] = "dump"
  /\ db' = NotFound
  /\ fds' = fds + 1
  /\ Goto(t, "dump_close")
  /\ UNCHANGED <<server, main, tmp, entry, linked, handles, buf, used, failed>>

(* fopen(path, "w")                                                        *)
DumpOpen(t) ==
  /\ pc[t] = "dump" /\ Free
  /\ db' = NotFound
  /\ fds' = fds + 1
  /\ Goto(t, "dump_close")
  /\ UNCHANGED <<server, main, tmp, entry, linked, handles, buf, used, failed>>

(* The entries as they are now, and fclose().  AfsHash has the text.       *)
DumpClose(t) ==
  /\ pc[t] = "dump_close"
  /\ db' = entry
  /\ fds' = fds - 1
  /\ pc' = [pc EXCEPT ![t] = after[t]]
  /\ after' = [after EXCEPT ![t] = "idle"]
  /\ UNCHANGED <<server, main, tmp, entry, linked, handles, buf, used, failed>>

(* Where a crash leaves a copy that the entry on disk wrongly vouches for: *)
(* from open(O_CREAT) or ftruncate() until the fetched data is written,    *)
(* and from WRITE's rename() until the flag is dumped.                     *)
Refetching(t) == \/ pc[t] \in {"truncate", "fetch", "install"}
                 \/ pc[t] \in DumpSteps /\ after[t] = "install"
Flagging(t) == \/ pc[t] = "flag"
               \/ pc[t] \in DumpSteps /\ after[t] = "open"

Windows == {t \in Thread : Refetching(t) \/ Flagging(t)}

(* The client is killed, and what it had in memory is gone; the entry is   *)
(* read back from the database.                                            *)
Restart ==
  /\ entry' = db
  /\ linked' = {} /\ handles' = {} /\ fds' = 0
  /\ pc' = [t \in Thread |-> "idle"]
  /\ after' = [t \in Thread |-> "idle"]
  /\ buf' = [t \in Thread |-> Empty]
  /\ used' = 0
  /\ harmed' = (harmed \/ Windows # {})
  /\ UNCHANGED <<server, disk, overlapped>>

Crash == Restart /\ UNCHANGED failed

(* fopen() found no descriptor: fprintf(NULL) is a segmentation fault.     *)
DumpFault == (\E t \in Thread : pc[t] = "dump" /\ ~Free) /\ Restart /\ Refused

(* Another machine stores a new version.                                   *)
RemoteStore ==
  /\ Room
  /\ last' = last + 1 /\ stored' = last + 1 /\ mtime' = mtime + 1
  /\ UNCHANGED <<disk, entry, linked, handles, fds, thread, used, failed>>

-----------------------------------------------------------------------------
Changing(t) == Refetching(t) \/ Writing(t)

Busy(t) == pc[t] \notin {"idle", "open"} /\ ~(pc[t] \in DumpSteps /\ after[t] = "idle")

Overlap == \E t, u \in Thread : t # u /\ Changing(t) /\ Busy(u)

Step(t) ==
  \/ Open(t) \/ OpenCreate(t) \/ OpenGetattr(t) \/ OpenTruncate(t)
  \/ OpenFetch(t) \/ OpenInstall(t)
  \/ Read(t)
  \/ Write(t) \/ WriteCopy(t) \/ WriteRemove(t) \/ WriteRename(t) \/ WriteFlag(t)
  \/ Release(t) \/ ReleaseImage(t) \/ ReleaseStore(t)
  \/ OtherPut(t) \/ DumpOpen(t) \/ DumpClose(t)

Run(t) ==
  /\ Step(t)
  /\ overlapped' = (overlapped \/ Overlap')
  /\ UNCHANGED harmed

LocalNext ==
  \/ \E t \in Thread : Run(t)
  \/ Crash
  \/ DumpFault
  \/ RemoteStore /\ UNCHANGED <<overlapped, harmed>>

LocalSpec == LocalInit /\ [][LocalNext]_localVars

-----------------------------------------------------------------------------
LocalTypeOK ==
  /\ stored \in Content
  /\ main \in Content \cup {NoFile} /\ tmp \in Content \cup {NoFile}
  /\ mtime \in Nat \ {0} /\ last \in Version
  /\ {db, entry} \subseteq {NotFound, Modified} \cup Nat
  /\ linked \subseteq Thread /\ handles \subseteq Thread
  /\ fds \in 0..MaxFd /\ used \in Nat
  /\ pc \in [Thread -> PC]
  /\ after \in [Thread -> {"install", "open", "idle"}]
  /\ buf \in [Thread -> Content]
  /\ overlapped \in BOOLEAN /\ harmed \in BOOLEAN /\ failed \in BOOLEAN

(***************************************************************************)
(* Properties.                                                             *)
(***************************************************************************)

(* Nothing of what the properties exclude has happened.                    *)
Undisturbed == ~overlapped /\ ~harmed /\ ~failed

(* Outside the two Windows, the client may be killed at any system call:   *)
(* when the database then vouches for the cached file, it is the server's, *)
(* or there is none and OPEN fetches it.                                   *)
RestartIsSafe ==
  Undisturbed /\ Windows = {} /\ db >= mtime => main \in {stored, NoFile}

(* The server never gets bytes that no application wrote: as long as no    *)
(* two calls change the file at the same time, whatever call a crash cuts  *)
(* off outside the Windows, what RELEASE stores is a whole version.        *)
OnlyWholeFilesAreStored ==
  Undisturbed => /\ stored \in Version
                 /\ \A t \in Thread : pc[t] = "store" => buf[t] \in Version

(* Between calls the client has exactly one descriptor open for each OPEN  *)
(* and each READ since it started: WRITE and dump() leave none, RELEASE    *)
(* leaves one in place of the one it closes, and none ever comes back.     *)
DescriptorsAreAccounted ==
  ~failed /\ (\A t \in Thread : pc[t] \in {"idle", "open"}) => fds = used

=============================================================================
