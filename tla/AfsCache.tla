------------------------------ MODULE AfsCache ------------------------------
(***************************************************************************)
(* The caching protocol of the file system, for one file: the server's     *)
(* copy of it, the copy and the hash-table entry each client machine keeps, *)
(* and the calls in progress on every machine.                             *)
(*                                                                         *)
(* A client validates its cached copy when it opens the file (GETATTR,     *)
(* then FETCH when the server's time is larger than the time it stored),   *)
(* marks it modified when it writes, and stores the whole file when a      *)
(* descriptor is released.  Nothing on a client locks the copy or the      *)
(* entry: FUSE serves the descriptors of one machine from several threads. *)
(*                                                                         *)
(* A call is cut into steps where another actor can come between: at each  *)
(* RPC (request sent, handler run on the server, reply received), between  *)
(* the update of the hash table and the write of the fetched data, and in  *)
(* a handler between its system calls.  The server takes no lock: handlers *)
(* of the file overlap (Overlap).  Without Overlap they run one after the  *)
(* other, which is an assumption, not what server.cc sees to; the          *)
(* properties that need it say so.  WRITE is a single step here.           *)
(***************************************************************************)
EXTENDS Integers, Sequences

CONSTANTS
  Client,       (* machines running the client, one cache directory each   *)
  Thread,       (* descriptors of the file that applications may hold      *)
  host,         (* host[t]: the machine of t                               *)
  Block,        (* what one write() puts at one offset                     *)
  Junk,         (* what a buffer holds that was never initialised          *)
  NoFile,       (* there is no such file                                   *)
  NSEC,         (* nanoseconds in a second                                 *)
  ClockSteps,   (* how far the server's file clock may move from one       *)
                (* modification to the next; the write() of a STORE may    *)
                (* also share the tick of its open()                       *)
  Overlap,      (* whether the server's handlers of the file may overlap   *)
  RetryLimit,   (* the limit of retry_req: 5 in the code                   *)
  Calls,        (* which of write, create, unlink, truncate applications   *)
                (* make; they always open and close                        *)
  Lossy,        (* the RPCs that may fail                                  *)
  Refusable,    (* the RPCs whose system call may fail on the server       *)
  MaxTime,      (* bound: the value of mtime from which no application     *)
                (* starts a write, a truncate or an unlink, and no RPC     *)
                (* fails any more                                          *)
  MaxLen        (* bound: write() does not extend a file beyond MaxLen     *)

Data == Seq(Block \cup {Junk})

Rpcs == {"getattr", "fetch", "store", "create", "unlink"}

ASSUME ConstantsOK ==
  /\ host \in [Thread -> Client]
  /\ NoFile \notin Data
  /\ NSEC \in Nat \ {0}
  /\ ClockSteps \subseteq Nat
  /\ Overlap \in BOOLEAN
  /\ RetryLimit \in Nat
  /\ Calls \subseteq {"write", "create", "unlink", "truncate"}
  /\ Lossy \subseteq Rpcs
  /\ Refusable \subseteq Rpcs
  /\ MaxTime \in Nat
  /\ MaxLen \in Nat
  (* A handler that overlaps an UNLINK works on an inode without a name,   *)
  (* and its lstat() fails: AfsServer has that.                            *)
  /\ Overlap => "unlink" \notin Calls

(* Values of a hash-table entry that are not times: get() found no entry,  *)
(* and the flag WRITE leaves.                                              *)
NotFound == -1
Modified == -12345678

Stamp == {NotFound, Modified} \cup Nat

Reply == [err : BOOLEAN, time : Nat, data : Data]
NoReply == [err |-> FALSE, time |-> 0, data |-> <<>>]

VARIABLES
  file,       (* the server's copy of the file, or NoFile                  *)
  mtime,      (* its modification time: the time at which the server last  *)
              (* changed or created it, kept when the file is removed      *)
  cache,      (* cache[c]: the file under the cache path of c, or NoFile   *)
  stamp,      (* stamp[c]: what get() returns for the file on c            *)
  linked,     (* threads inside OPEN whose fd still is the cached file     *)
  retries,    (* retries[c]: the retry counter of c's AfsClient object     *)
  pc,         (* pc[t]: where t is                                         *)
  stage,      (* stage[t]: what the handler of t's RPC does next, or done: *)
              (* it has answered                                           *)
  reply,      (* reply[t]: t's reply, as far as the handler has filled it  *)
  buf         (* buf[t]: the file image t holds in memory                  *)

vars == <<file, mtime, cache, stamp, linked, retries, pc, stage, reply, buf>>

server == <<file, mtime>>
machine == <<cache, stamp, linked, retries>>

PC == Rpcs \cup {"idle", "install", "open"}

Stage == {"begin", "write", "read", "stat", "done"}

Init ==
  /\ file \in {<<b>> : b \in Block}
             \cup (IF "create" \in Calls THEN {NoFile} ELSE {})
  /\ mtime = 1
  /\ cache = [c \in Client |-> NoFile]
  /\ stamp = [c \in Client |-> NotFound]
  /\ linked = {}
  /\ retries = [c \in Client |-> 1]
  /\ pc = [t \in Thread |-> "idle"]
  /\ stage = [t \in Thread |-> "begin"]
  /\ reply = [t \in Thread |-> NoReply]
  /\ buf = [t \in Thread |-> <<>>]

-----------------------------------------------------------------------------
(***************************************************************************)
(* Pieces of the handlers.                                                 *)
(***************************************************************************)

(* pwrite() of one block at offset off, at most the length of the file.    *)
PWrite(d, off, b) ==
  IF off < Len(d) THEN [d EXCEPT ![off + 1] = b] ELSE Append(d, b)

(* What reading a whole file that may be missing yields: lstat() and open() *)
(* are not checked, so the size and the bytes are those of an              *)
(* uninitialised buffer when there is no file.                             *)
Images(d) == IF d = NoFile THEN {<<>>, <<Junk>>} ELSE {d}

(* The time the server reports: tv_nsec alone.                             *)
Nsec(time) == time % NSEC

On(c) == {t \in Thread : host[t] = c}

(* The calls of an application reach the client only when the kernel's     *)
(* lookup, a GETATTR of its own, finds the file (create: does not).        *)
Exists == file # NoFile

(* Updates start only before the horizon; a create needs no bound of its   *)
(* own, since it moves the clock only after an unlink.                     *)
MayUpdate(call) == call \in Calls /\ mtime < MaxTime

(* t goes on to q: the RPC state is cleared, and t holds image d.          *)
Goto(t, q, d) ==
  /\ pc' = [pc EXCEPT ![t] = q]
  /\ stage' = [stage EXCEPT ![t] = "begin"]
  /\ reply' = [reply EXCEPT ![t] = NoReply]
  /\ buf' = [buf EXCEPT ![t] = d]

(* The server answers t's RPC.                                             *)
Answer(t, err, time, data) ==
  /\ stage' = [stage EXCEPT ![t] = "done"]
  /\ reply' = [reply EXCEPT ![t] = [err |-> err, time |-> time, data |-> data]]
  /\ UNCHANGED <<machine, pc, buf>>

(* The handler of t's RPC goes on to its next system call.                 *)
Advance(t, s) ==
  /\ stage' = [stage EXCEPT ![t] = s]
  /\ UNCHANGED <<machine, pc, buf>>

(* The handlers that are between two of their system calls.                *)
Running == {t \in Thread : stage[t] \notin {"begin", "done"}}

(* The server's clock moves and stamps a modification.                     *)
Touch == \E s \in ClockSteps : mtime' = mtime + s

(* A mistake: a stale copy is not emptied before it is fetched again.      *)
TruncateNothing(t) == UNCHANGED cache

(* ftruncate(fd, 0) by a thread inside OPEN, on the inode its fd denotes.  *)
TruncateOwn(t) ==
  cache' = IF t \in linked THEN [cache EXCEPT ![host[t]] = <<>>] ELSE cache

(* put() and dump() of the file's entry on the machine of t.               *)
Put(t, time) == stamp' = [stamp EXCEPT ![host[t]] = time]

ResetRetries(t) == retries' = [retries EXCEPT ![host[t]] = 1]

(* write() of image at offset 0 over bytes that may be longer.             *)
Overlay(image, old) == image \o SubSeq(old, Len(image) + 1, Len(old))

(* A buffer of n bytes after a read() of the whole file: what the file no  *)
(* longer has is what malloc() left there.                                 *)
ReadInto(n, d) == [k \in 1..n |-> IF k <= Len(d) THEN d[k] ELSE Junk]

Waiting(t, rpc) == pc[t] = rpc /\ stage[t] = "begin"
Replied(t, rpc) == pc[t] = rpc /\ stage[t] = "done"
Handled(t, rpc, s) == pc[t] = rpc /\ stage[t] = s

(* The handler of t's RPC begins.                                          *)
Begins(t, rpc) ==
  /\ Waiting(t, rpc)
  /\ Overlap \/ Running = {}

-----------------------------------------------------------------------------
(***************************************************************************)
(* The server's handlers (server.cc), one step for each system call that   *)
(* looks at the file or changes it.                                        *)
(***************************************************************************)

(* lstat(); err is errno when the file is gone.                            *)
ServeGetattr(t) ==
  /\ Begins(t, "getattr")
  /\ Answer(t, file = NoFile, IF file = NoFile THEN 0 ELSE Nsec(mtime), <<>>)
  /\ UNCHANGED server

(* afs_FETCH: open(O_RDWR), and a buffer of the size fstat() tells.        *)
(* One step: open() looks at nothing but whether there is a file, and a    *)
(* file that is there stays, since no UNLINK overlaps a handler here.      *)
FetchOpen(t) ==
  /\ Begins(t, "fetch")
  /\ IF file = NoFile
     THEN Answer(t, TRUE, 0, <<>>)
     ELSE /\ reply' = [reply EXCEPT ![t].data = ReadInto(Len(file), <<>>)]
          /\ Advance(t, "read")
  /\ UNCHANGED server

(* read() of that many bytes.                                              *)
FetchRead(t) ==
  /\ Handled(t, "fetch", "read")
  /\ reply' = [reply EXCEPT ![t].data = ReadInto(Len(@), file)]
  /\ Advance(t, "stat")
  /\ UNCHANGED server

(* The time is that of a second fstat().                                   *)
FetchFstat(t) ==
  /\ Handled(t, "fetch", "stat")
  /\ Answer(t, FALSE, Nsec(mtime), reply[t].data)
  /\ UNCHANGED server

(* afs_STORE: open(O_CREAT | O_TRUNC).                                     *)
StoreOpen(t) ==
  /\ Begins(t, "store")
  /\ file' = <<>>
  /\ Touch
  /\ Advance(t, "write")
  /\ UNCHANGED reply

(* write() of the whole image; of no bytes, it changes nothing.            *)
StoreWrite(t) ==
  /\ Handled(t, "store", "write")
  /\ file' = Overlay(buf[t], file)
  /\ IF buf[t] = <<>>
     THEN UNCHANGED mtime
     ELSE \E s \in ClockSteps \cup {0} : mtime' = mtime + s
  /\ Advance(t, "stat")
  /\ UNCHANGED reply

(* A mistake: the reply carries the time of day instead of the file's time. *)
StoreTimeOfDay(t) ==
  /\ Handled(t, "store", "stat")
  /\ Answer(t, FALSE, Nsec(mtime + 1), <<>>)
  /\ UNCHANGED server

(* lstat(), by path.                                                       *)
StoreLstat(t) ==
  /\ Handled(t, "store", "stat")
  /\ Answer(t, FALSE, Nsec(mtime), <<>>)
  /\ UNCHANGED server

(* afs_CREATE: open(O_CREAT), which leaves a file that exists as it is.    *)
CreateOpen(t) ==
  /\ Begins(t, "create")
  /\ IF file = NoFile
     THEN file' = <<>> /\ Touch
     ELSE UNCHANGED server
  /\ Advance(t, "stat")
  /\ UNCHANGED reply

(* lstat(), by path.                                                       *)
CreateLstat(t) ==
  /\ Handled(t, "create", "stat")
  /\ Answer(t, FALSE, Nsec(mtime), <<>>)
  /\ UNCHANGED server

(* unlink(): the reply carries errno, and the client does not look at it.  *)
ServeUnlink(t) ==
  /\ Begins(t, "unlink")
  /\ file' = NoFile
  /\ Answer(t, file = NoFile, 0, <<>>)
  /\ UNCHANGED mtime

(* The handler's system call fails (permissions, no descriptor left): the  *)
(* status is OK all the same, and only the error field of the reply tells. *)
Refuse(t) ==
  /\ pc[t] \in Refusable
  /\ stage[t] = "begin"
  /\ mtime < MaxTime
  /\ Answer(t, TRUE, 0, <<>>)
  /\ UNCHANGED server

Serve(t) ==
  \/ ServeGetattr(t)
  \/ FetchOpen(t) \/ FetchRead(t) \/ FetchFstat(t)
  \/ StoreOpen(t) \/ StoreWrite(t) \/ StoreLstat(t)
  \/ CreateOpen(t) \/ CreateLstat(t)
  \/ ServeUnlink(t)
  \/ Refuse(t)

-----------------------------------------------------------------------------
(***************************************************************************)
(* afs_OPEN.                                                               *)
(***************************************************************************)

(* open() of the cached file; without one, it is created empty and fetched. *)
OpenBegin(t) ==
  /\ pc[t] = "idle"
  /\ Exists
  /\ IF cache[host[t]] = NoFile
     THEN /\ cache' = [cache EXCEPT ![host[t]] = <<>>]
          /\ Goto(t, "fetch", <<>>)
     ELSE /\ Goto(t, "getattr", <<>>)
          /\ UNCHANGED cache
  /\ linked' = linked \cup {t}
  /\ UNCHANGED <<server, stamp, retries>>

(* The verdict on the cached copy: a stale one is truncated and fetched.   *)
Judge(t, stale) ==
  IF stale
  THEN /\ TruncateOwn(t)
       /\ Goto(t, "fetch", <<>>)
       /\ UNCHANGED linked
  ELSE /\ Goto(t, "open", <<>>)
       /\ linked' = linked \ {t}
       /\ UNCHANGED cache

(* A mistake: the times are compared the wrong way round.                  *)
OpenCompareSwapped(t) ==
  /\ Replied(t, "getattr")
  /\ \E stale \in BOOLEAN :
       /\ reply[t].err \/ (stale <=> reply[t].time < stamp[host[t]])
       /\ Judge(t, stale)
  /\ ResetRetries(t)
  /\ UNCHANGED <<server, stamp>>

(* The server's time against the stored one.  After an error in the reply  *)
(* remoteFileInfo was never written, and the comparison can go either way. *)
OpenCompare(t) ==
  /\ Replied(t, "getattr")
  /\ \E stale \in BOOLEAN :
       /\ reply[t].err \/ (stale <=> reply[t].time > stamp[host[t]])
       /\ Judge(t, stale)
  /\ ResetRetries(t)
  /\ UNCHANGED <<server, stamp>>

(* afs_FETCH puts the time of the reply before OPEN writes the data; it    *)
(* does not look at reply.error(), so a refused fetch puts time 0.         *)
OpenFetched(t) ==
  /\ Replied(t, "fetch")
  /\ Put(t, reply[t].time)
  /\ ResetRetries(t)
  /\ Goto(t, "install", reply[t].data)
  /\ UNCHANGED <<server, cache, linked>>

(* write() of the fetched data, through a descriptor opened O_APPEND.      *)
OpenInstall(t) ==
  /\ pc[t] = "install"
  /\ cache' = IF t \in linked
              THEN [cache EXCEPT ![host[t]] = @ \o buf[t]]
              ELSE cache
  /\ linked' = linked \ {t}
  /\ Goto(t, "open", <<>>)
  /\ UNCHANGED <<server, stamp, retries>>

-----------------------------------------------------------------------------
(***************************************************************************)
(* The other calls.                                                        *)
(***************************************************************************)

(* A mistake: no cached file is made.                                      *)
CreateRemoteOnly(t) ==
  /\ "create" \in Calls
  /\ pc[t] = "idle"
  /\ ~Exists
  /\ Goto(t, "create", <<>>)
  /\ UNCHANGED <<server, machine>>

(* afs_CREATE: the kernel's lookup found no file; the cached one, if any,  *)
(* is opened as it is.                                                     *)
Create(t) ==
  /\ "create" \in Calls
  /\ pc[t] = "idle"
  /\ ~Exists
  /\ cache' = IF cache[host[t]] = NoFile
              THEN [cache EXCEPT ![host[t]] = <<>>]
              ELSE cache
  /\ Goto(t, "create", <<>>)
  /\ UNCHANGED <<server, stamp, linked, retries>>

CreateReturn(t) ==
  /\ Replied(t, "create")
  /\ Put(t, reply[t].time)
  /\ Goto(t, IF reply[t].err THEN "idle" ELSE "open", <<>>)
  /\ UNCHANGED <<server, cache, linked, retries>>

(* afs_WRITE: the old content and the new block go to a temporary file     *)
(* that is renamed over the cached one, so that descriptors opened before  *)
(* denote an orphan; then the entry is flagged.                            *)
Write(t) ==
  /\ MayUpdate("write")
  /\ pc[t] = "open"
  /\ \E old \in Images(cache[host[t]]), b \in Block :
       \E off \in 0..Len(old) :
         /\ off < MaxLen
         /\ cache' = [cache EXCEPT ![host[t]] = PWrite(old, off, b)]
  /\ Put(t, Modified)
  /\ linked' = linked \ On(host[t])
  /\ UNCHANGED <<server, retries, pc, stage, reply, buf>>

(* afs_TRUNCATE: the cached file alone, by path, from any application.     *)
Truncate(c) ==
  /\ MayUpdate("truncate")
  /\ Exists
  /\ cache[c] # NoFile
  /\ \E n \in 0..(Len(cache[c]) - 1) :
       cache' = [cache EXCEPT ![c] = SubSeq(@, 1, n)]
  /\ UNCHANGED <<server, stamp, linked, retries, pc, stage, reply, buf>>

(* A mistake: a descriptor is released without a flush.                    *)
ReleaseUnflushed(t) ==
  /\ pc[t] = "open"
  /\ Goto(t, "idle", <<>>)
  /\ UNCHANGED <<server, machine>>

(* afs_RELEASE: a flagged file is read whole and stored; otherwise nothing *)
(* is done, and the descriptor is not even closed.                         *)
Release(t) ==
  /\ pc[t] = "open"
  /\ IF stamp[host[t]] = Modified
     THEN \E image \in Images(cache[host[t]]) : Goto(t, "store", image)
     ELSE Goto(t, "idle", <<>>)
  /\ UNCHANGED <<server, machine>>

(* A mistake: the entry keeps its flag when the store has succeeded.       *)
StoreReturnFlagged(t) ==
  /\ Replied(t, "store")
  /\ ResetRetries(t)
  /\ Goto(t, "idle", <<>>)
  /\ UNCHANGED <<server, cache, stamp, linked>>

(* afs_STORE puts the time of the reply, whatever reply.error() says.      *)
StoreReturn(t) ==
  /\ Replied(t, "store")
  /\ Put(t, reply[t].time)
  /\ ResetRetries(t)
  /\ Goto(t, "idle", <<>>)
  /\ UNCHANGED <<server, cache, linked>>

(* afs_UNLINK: the cached file goes first; its entry stays.  libfuse does  *)
(* not pass on the unlink of a file it has open: it renames it, which this *)
(* client does not support.                                                *)
Unlink(t) ==
  /\ MayUpdate("unlink")
  /\ pc[t] = "idle"
  /\ Exists
  /\ \A u \in On(host[t]) : pc[u] \notin {"open", "store"}
  /\ cache' = [cache EXCEPT ![host[t]] = NoFile]
  /\ linked' = linked \ On(host[t])
  /\ Goto(t, "unlink", <<>>)
  /\ UNCHANGED <<server, stamp, retries>>

(* It returns 0 whatever the reply or the status says.                     *)
UnlinkReturn(t) ==
  /\ Replied(t, "unlink")
  /\ Goto(t, "idle", <<>>)
  /\ UNCHANGED <<server, machine>>

-----------------------------------------------------------------------------
(***************************************************************************)
(* Failed RPCs: the status is not OK.  The handler has run, or it never    *)
(* does: one that is running answers before the client learns of a failure. *)
(***************************************************************************)
Fails(t) ==
  /\ pc[t] \in Lossy
  /\ t \notin Running
  /\ mtime < MaxTime

(* A mistake: the counter is not counted up, or is compared off by one.    *)
RetryUncounted(t) ==
  /\ Fails(t)
  /\ pc[t] \in {"getattr", "fetch", "store"}
  /\ retries[host[t]] <= RetryLimit
  /\ Goto(t, pc[t], buf[t])
  /\ UNCHANGED <<server, machine>>

RetryOnceMore(t) ==
  /\ Fails(t)
  /\ pc[t] \in {"getattr", "fetch", "store"}
  /\ retries[host[t]] <= RetryLimit + 1
  /\ retries' = [retries EXCEPT ![host[t]] = @ + 1]
  /\ Goto(t, pc[t], buf[t])
  /\ UNCHANGED <<server, cache, stamp, linked>>

(* retry_req() after a failed getattr, fetch or store: the counter is a    *)
(* member of the one AfsClient object, shared by every thread.             *)
Retry(t) ==
  /\ Fails(t)
  /\ pc[t] \in {"getattr", "fetch", "store"}
  /\ retries[host[t]] <= RetryLimit
  /\ retries' = [retries EXCEPT ![host[t]] = @ + 1]
  /\ Goto(t, pc[t], buf[t])
  /\ UNCHANGED <<server, cache, stamp, linked>>

GiveUp(t) ==
  /\ Fails(t)
  /\ retries[host[t]] > RetryLimit
  /\ ResetRetries(t)

(* OPEN ignores what afs_GETATTR returned and compares an uninitialised    *)
(* time.                                                                   *)
GetattrGiveUp(t) ==
  /\ pc[t] = "getattr"
  /\ GiveUp(t)
  /\ \E stale \in BOOLEAN : Judge(t, stale)
  /\ UNCHANGED <<server, stamp>>

(* -errno is returned: OPEN fails with it, or, when errno happens to be 0, *)
(* goes on to write from an uninitialised pointer.                         *)
FetchGiveUp(t) ==
  /\ pc[t] = "fetch"
  /\ GiveUp(t)
  /\ \/ /\ Goto(t, "idle", <<>>)
        /\ linked' = linked \ {t}
     \/ /\ \E d \in {<<>>, <<Junk>>} : Goto(t, "install", d)
        /\ UNCHANGED linked
  /\ UNCHANGED <<server, cache, stamp>>

(* RELEASE ignores what afs_STORE returned: the flag stays.                *)
StoreGiveUp(t) ==
  /\ pc[t] = "store"
  /\ GiveUp(t)
  /\ Goto(t, "idle", <<>>)
  /\ UNCHANGED <<server, cache, stamp, linked>>

(* CREATE and UNLINK do not retry.  A failed CREATE returns -errno, which  *)
(* tells the kernel that the file is open when errno happens to be 0; a    *)
(* failed UNLINK returns 0.                                                *)
FailOnce(t) ==
  /\ Fails(t)
  /\ \/ /\ pc[t] = "create"
        /\ \E q \in {"idle", "open"} : Goto(t, q, <<>>)
     \/ /\ pc[t] = "unlink"
        /\ Goto(t, "idle", <<>>)
  /\ UNCHANGED <<server, machine>>

-----------------------------------------------------------------------------
(* The steps of a call in progress, which no application controls.         *)
Progress(t) ==
  \/ Serve(t)
  \/ OpenCompare(t)
  \/ OpenFetched(t)
  \/ OpenInstall(t)
  \/ CreateReturn(t)
  \/ StoreReturn(t)
  \/ UnlinkReturn(t)
  \/ Retry(t)
  \/ GetattrGiveUp(t)
  \/ FetchGiveUp(t)
  \/ StoreGiveUp(t)
  \/ FailOnce(t)

(* The calls applications make.                                            *)
Call(t) ==
  \/ OpenBegin(t)
  \/ Create(t)
  \/ Write(t)
  \/ Release(t)
  \/ Unlink(t)

Next ==
  \/ \E t \in Thread : Progress(t) \/ Call(t)
  \/ \E c \in Client : Truncate(c)

Spec == Init /\ [][Next]_vars

(* What is assumed of the server and the network: an RPC that is sent is   *)
(* answered in the end, or gRPC reports that its connection failed.  The   *)
(* client does not see to it: no ClientContext has a deadline, and a       *)
(* server that keeps the connection and never answers holds the call.      *)
EveryRpcEnds == \A t \in Thread : WF_vars(Progress(t))

FairSpec == Spec /\ EveryRpcEnds

-----------------------------------------------------------------------------
TypeOK ==
  /\ file \in Data \cup {NoFile}
  /\ mtime \in Nat
  /\ cache \in [Client -> Data \cup {NoFile}]
  /\ stamp \in [Client -> Stamp]
  /\ linked \subseteq Thread
  /\ retries \in [Client -> 1..(RetryLimit + 1)]
  /\ pc \in [Thread -> PC]
  /\ stage \in [Thread -> Stage]
  /\ reply \in [Thread -> Reply]
  /\ buf \in [Thread -> Data]

-----------------------------------------------------------------------------
(***************************************************************************)
(* Properties.                                                             *)
(***************************************************************************)

(* No call of c is in progress.                                            *)
Settled(c) == \A t \in On(c) : pc[t] \in {"idle", "open"}

(* The next afs_OPEN on c would use the cached copy without fetching.      *)
Trusted(c) ==
  /\ file # NoFile
  /\ cache[c] # NoFile
  /\ Nsec(mtime) <= stamp[c]

(* As long as no handler of the file overlaps another (~Overlap), a cached *)
(* copy that afs_OPEN would accept as fresh, because the server's time is  *)
(* not larger than the stored one, is the file the server has.  server.cc  *)
(* takes no lock: handlers that overlap break it (the run overlap).        *)
TrustedCopyIsCurrent ==
  \A c \in Client : Settled(c) /\ Trusted(c) => cache[c] = file

(* Within one second of the server's clock no client ever stores a time    *)
(* later than that of the file, whatever stores, fetches, creates and      *)
(* retries overlap: nothing hides a version still to come from the         *)
(* comparison in afs_OPEN.  Deletions may come between, but not inside a   *)
(* handler (ConstantsOK): there lstat() would fail, and the reply would    *)
(* carry a time that was never written.                                    *)
NoStampAhead ==
  mtime < NSEC => \A c \in Client : stamp[c] <= Nsec(mtime)

(* The modified flag of a file always has a descriptor left whose RELEASE  *)
(* flushes it, or whose flush is under way.                                *)
ModifiedHasOwner ==
  \A c \in Client :
    stamp[c] = Modified => \E t \in On(c) : pc[t] \in {"open", "store"}

(* A descriptor that is open has a cached file behind it, so that READ,    *)
(* WRITE and RELEASE never work on a file lstat() did not find.            *)
OpenHasCachedFile ==
  \A t \in Thread : pc[t] = "open" => cache[host[t]] # NoFile

(* The modified flag is cleared only by a flush of the modification: by    *)
(* the return of a STORE that the server carried out, of the very image    *)
(* the cached file holds (afs_RELEASE: always flush if modified).          *)
ModifiedIsFlushed ==
  [][\A c \in Client :
       stamp[c] = Modified /\ stamp'[c] # Modified =>
         \E t \in On(c) : /\ Replied(t, "store")
                          /\ pc'[t] = "idle"
                          /\ ~reply[t].err
                          /\ buf[t] = cache[c]]_vars

(* A call of t returns to the application.                                 *)
CallReturns(t) ==
  pc[t] \notin {"idle", "open"} /\ pc'[t] \in {"idle", "open"}

(* On every machine the calls go on returning, whatever fails, if every    *)
(* RPC is answered or reported failed: either no call is in progress, time *)
(* and again, or time and again one returns.  The retries of retry_req are *)
(* bounded, although its counter belongs to all calls of the machine.  One *)
(* of several calls may fail and be sent again for ever, since a success   *)
(* of another sets the counter back; the only call of a machine returns.   *)
CallsReturn ==
  \A c \in Client : \/ []<>Settled(c)
                    \/ []<><<\E t \in On(c) : CallReturns(t)>>_vars

=============================================================================
