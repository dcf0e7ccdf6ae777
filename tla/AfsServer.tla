----------------------------- MODULE AfsServer -----------------------------
(***************************************************************************)
(* The server's handlers of one file (server.cc), system call by system    *)
(* call.  gRPC runs the handlers of different clients in parallel, and the *)
(* service takes no lock: whatever order the calls of several handlers     *)
(* reach the kernel in is possible.  One system call is atomic.            *)
(*                                                                         *)
(* afs_GETATTR makes a single lstat(), so there is nothing of it to        *)
(* interleave; AfsCache has it, and the handlers whose open() fails.       *)
(***************************************************************************)
EXTENDS Integers, Sequences

CONSTANTS
  Handler,      (* handler threads                                         *)
  Inode,        (* inodes the server's disk has for the file               *)
  Block,        (* contents of files are sequences of blocks               *)
  Image,        (* the images clients store                                *)
  Junk,         (* a byte of a buffer that was never written               *)
  NoInode,      (* no file, no descriptor                                  *)
  NSEC,         (* nanoseconds in a second                                 *)
  ClockSteps,   (* how far the kernel's file clock moves before a file is  *)
                (* created or truncated; write() may also share the tick   *)
                (* of the modification before it                           *)
  JunkTime,     (* what a struct stat that was never written has for       *)
                (* tv_nsec: any long                                       *)
  MaxTime       (* bound: no modifying handler starts at or after it       *)

Data == Seq(Block \cup {Junk})

ASSUME ServerConstants ==
  /\ NoInode \notin Inode
  /\ Image \subseteq Seq(Block)
  /\ NSEC \in Nat \ {0}
  /\ ClockSteps \subseteq Nat
  /\ JunkTime \subseteq Int
  /\ MaxTime \in Nat

VARIABLES
  path,       (* the inode the file's path names, or NoInode               *)
  data,       (* data[i]: the bytes of inode i                             *)
  mtime,      (* mtime[i]: its modification time                           *)
  now,        (* the kernel's file clock                                   *)
  pc,         (* pc[h]: the system call h makes next, or idle, or done:    *)
              (* the reply is on its way                                   *)
  fd,         (* fd[h]: the inode h has open, or NoInode                   *)
  size,       (* size[h]: st_size of the first fstat() of a fetch          *)
  buf,        (* buf[h]: the image h stores, or has read                   *)
  time,       (* time[h]: the time in h's reply                            *)
  (* The rest is history, which no handler looks at.                       *)
  asof,       (* asof[h]: the mtime of the bytes h wrote or read           *)
  disturbed   (* handlers during whose run another one changed the file,   *)
              (* or had it open to store and was yet to write it           *)

disk == <<path, data, mtime, now>>
thread == <<pc, fd, size, buf, time>>
serverVars == <<disk, thread, asof, disturbed>>

PC == {"idle", "store_write", "store_lstat", "fetch_fstat", "fetch_read",
       "fetch_time", "create_lstat", "stored", "fetched", "created", "missing"}

Answered == {"stored", "fetched", "created", "missing"}

ServerInit ==
  /\ path = NoInode
  /\ data = [i \in Inode |-> <<>>]
  /\ mtime = [i \in Inode |-> 0]
  /\ now = 1
  /\ pc = [h \in Handler |-> "idle"]
  /\ fd = [h \in Handler |-> NoInode]
  /\ size = [h \in Handler |-> 0]
  /\ buf = [h \in Handler |-> <<>>]
  /\ time = [h \in Handler |-> 0]
  /\ asof = [h \in Handler |-> 0]
  /\ disturbed = {}

-----------------------------------------------------------------------------
Nsec(t) == t % NSEC

(* A mistake: the file is opened O_APPEND.                                 *)
Appended(image, old) == old \o image

(* write() of image at offset 0 over bytes that may be longer.             *)
Overlay(image, old) == image \o SubSeq(old, Len(image) + 1, Len(old))

(* A buffer of n bytes after a read() of the whole file: what the file no  *)
(* longer has is what malloc() left there.                                 *)
Read(d, n) == [k \in 1..n |-> IF k <= Len(d) THEN d[k] ELSE Junk]

(* An inode the kernel can give to a new file.                             *)
Free == {i \in Inode : i # path /\ \A h \in Handler : fd[h] # i}

(* Inode i gets bytes d and the time of the clock, which has moved on.     *)
Modify(i, d, steps) ==
  /\ \E s \in steps : now' = now + s
  /\ data' = [data EXCEPT ![i] = d]
  /\ mtime' = [mtime EXCEPT ![i] = now']

Running == {h \in Handler : pc[h] \notin {"idle"} \cup Answered}

(* A step of h changed the file under the other handlers that are running. *)
Others(h) == Running \ {h}

(* h opens a file that another handler has truncated and not yet written.  *)
Meets(h) ==
  IF \E g \in Handler \ {h} : pc[g] = "store_write" /\ fd[g] = path THEN {h} ELSE {}

Step(h, q) == pc' = [pc EXCEPT ![h] = q]

(* A mistake: the descriptor is not closed.                                *)
LstatOnly(h) ==
  /\ \E t \in IF path = NoInode THEN JunkTime ELSE {Nsec(mtime[path])} :
       time' = [time EXCEPT ![h] = t]
  /\ UNCHANGED fd

(* lstat(path) and close(fd) before the reply.  lstat()'s result is not    *)
(* looked at: without a file the time is that of a struct stat that was    *)
(* never written.                                                          *)
LstatAndClose(h) ==
  /\ \E t \in IF path = NoInode THEN JunkTime ELSE {Nsec(mtime[path])} :
       time' = [time EXCEPT ![h] = t]
  /\ fd' = [fd EXCEPT ![h] = NoInode]

-----------------------------------------------------------------------------
(***************************************************************************)
(* afs_STORE.                                                              *)
(***************************************************************************)

(* A mistake: O_TRUNC is left out.                                         *)
StoreOpenKeeping(h) ==
  /\ pc[h] = "idle"
  /\ now < MaxTime
  /\ \E image \in Image : buf' = [buf EXCEPT ![h] = image]
  /\ \E i \in IF path = NoInode THEN Free ELSE {path} :
       /\ path' = i
       /\ fd' = [fd EXCEPT ![h] = i]
       /\ Modify(i, IF path = NoInode THEN <<>> ELSE data[i], ClockSteps)
  /\ Step(h, "store_write")
  /\ disturbed' = disturbed \cup Others(h) \cup Meets(h)
  /\ UNCHANGED <<size, time, asof>>

(* open(path, O_RDWR | O_CREAT | O_TRUNC)                                  *)
StoreOpen(h) ==
  /\ pc[h] = "idle"
  /\ now < MaxTime
  /\ \E image \in Image : buf' = [buf EXCEPT ![h] = image]
  /\ \E i \in IF path = NoInode THEN Free ELSE {path} :
       /\ path' = i
       /\ fd' = [fd EXCEPT ![h] = i]
       /\ Modify(i, <<>>, ClockSteps)
  /\ Step(h, "store_write")
  /\ disturbed' = disturbed \cup Others(h) \cup Meets(h)
  /\ UNCHANGED <<size, time, asof>>

(* write(fd, buf, size): of no bytes, it changes nothing.                  *)
StoreWrite(h) ==
  /\ pc[h] = "store_write"
  /\ IF buf[h] = <<>>
     THEN UNCHANGED <<disk, disturbed>>
     ELSE /\ Modify(fd[h], Overlay(buf[h], data[fd[h]]), ClockSteps \cup {0})
          /\ disturbed' = disturbed \cup Others(h)
          /\ UNCHANGED path
  /\ asof' = [asof EXCEPT ![h] = mtime'[fd[h]]]
  /\ Step(h, "store_lstat")
  /\ UNCHANGED <<fd, size, buf, time>>

(* lstat(path), close(fd), and the reply.                                  *)
StoreLstat(h) ==
  /\ pc[h] = "store_lstat"
  /\ LstatAndClose(h)
  /\ Step(h, "stored")
  /\ UNCHANGED <<disk, size, buf, asof, disturbed>>

-----------------------------------------------------------------------------
(***************************************************************************)
(* afs_FETCH.                                                              *)
(***************************************************************************)

(* open(path, O_RDWR)                                                      *)
FetchOpen(h) ==
  /\ pc[h] = "idle"
  /\ fd' = [fd EXCEPT ![h] = path]
  /\ Step(h, IF path = NoInode THEN "missing" ELSE "fetch_fstat")
  /\ disturbed' = disturbed \cup Meets(h)
  /\ UNCHANGED <<disk, size, buf, time, asof>>

(* fstat(fd, &info)                                                        *)
FetchFstat(h) ==
  /\ pc[h] = "fetch_fstat"
  /\ size' = [size EXCEPT ![h] = Len(data[fd[h]])]
  /\ time' = [time EXCEPT ![h] = Nsec(mtime[fd[h]])]
  /\ Step(h, "fetch_read")
  /\ UNCHANGED <<disk, fd, buf, asof, disturbed>>

(* read(fd, buf, info.st_size)                                             *)
FetchRead(h) ==
  /\ pc[h] = "fetch_read"
  /\ buf' = [buf EXCEPT ![h] = Read(data[fd[h]], size[h])]
  /\ asof' = [asof EXCEPT ![h] = mtime[fd[h]]]
  /\ Step(h, "fetch_time")
  /\ UNCHANGED <<disk, fd, size, time, disturbed>>

(* A mistake: the time of the first fstat() is sent.                       *)
FetchTimeOfFirst(h) ==
  /\ pc[h] = "fetch_time"
  /\ fd' = [fd EXCEPT ![h] = NoInode]
  /\ Step(h, "fetched")
  /\ UNCHANGED <<disk, size, buf, time, asof, disturbed>>

(* fstat(fd, &stats), close(fd), and the reply.                            *)
FetchTime(h) ==
  /\ pc[h] = "fetch_time"
  /\ time' = [time EXCEPT ![h] = Nsec(mtime[fd[h]])]
  /\ fd' = [fd EXCEPT ![h] = NoInode]
  /\ Step(h, "fetched")
  /\ UNCHANGED <<disk, size, buf, asof, disturbed>>

-----------------------------------------------------------------------------
(***************************************************************************)
(* afs_CREATE, afs_UNLINK.                                                 *)
(***************************************************************************)

(* open(path, O_CREAT): a file that exists is left as it is.               *)
CreateOpen(h) ==
  /\ pc[h] = "idle"
  /\ now < MaxTime
  /\ IF path = NoInode
     THEN \E i \in Free :
            /\ path' = i
            /\ fd' = [fd EXCEPT ![h] = i]
            /\ Modify(i, <<>>, ClockSteps)
            /\ disturbed' = disturbed \cup Others(h)
     ELSE /\ fd' = [fd EXCEPT ![h] = path]
          /\ disturbed' = disturbed \cup Meets(h)
          /\ UNCHANGED disk
  /\ Step(h, "create_lstat")
  /\ UNCHANGED <<size, buf, time, asof>>

CreateLstat(h) ==
  /\ pc[h] = "create_lstat"
  /\ LstatAndClose(h)
  /\ Step(h, "created")
  /\ UNCHANGED <<disk, size, buf, asof, disturbed>>

(* unlink(path): an inode that is open lives on.                           *)
Unlink(h) ==
  /\ pc[h] = "idle"
  /\ now < MaxTime
  /\ path # NoInode
  /\ path' = NoInode
  /\ disturbed' = disturbed \cup Others(h)
  /\ UNCHANGED <<data, mtime, now, thread, asof>>

(* The client has the reply; the thread is free for another request.       *)
Delivered(h) ==
  /\ pc[h] \in Answered
  /\ Step(h, "idle")
  /\ size' = [size EXCEPT ![h] = 0]
  /\ buf' = [buf EXCEPT ![h] = <<>>]
  /\ time' = [time EXCEPT ![h] = 0]
  /\ asof' = [asof EXCEPT ![h] = 0]
  /\ disturbed' = disturbed \ {h}
  /\ UNCHANGED <<disk, fd>>

-----------------------------------------------------------------------------
Handle(h) ==
  \/ StoreOpen(h) \/ StoreWrite(h) \/ StoreLstat(h)
  \/ FetchOpen(h) \/ FetchFstat(h) \/ FetchRead(h) \/ FetchTime(h)
  \/ CreateOpen(h) \/ CreateLstat(h)
  \/ Unlink(h)
  \/ Delivered(h)

ServerNext == \E h \in Handler : Handle(h)

ServerSpec == ServerInit /\ [][ServerNext]_serverVars

(* A descriptor is open exactly from a handler's open() to its close(), on *)
(* every path through the handlers.                                        *)
ServerTypeOK ==
  /\ path \in Inode \cup {NoInode}
  /\ data \in [Inode -> Data]
  /\ mtime \in [Inode -> Nat]
  /\ now \in Nat
  /\ pc \in [Handler -> PC]
  /\ fd \in [Handler -> Inode \cup {NoInode}]
  /\ size \in [Handler -> Nat]
  /\ buf \in [Handler -> Data]
  /\ time \in [Handler -> Int]
  /\ asof \in [Handler -> Nat]
  /\ disturbed \subseteq Handler
  /\ \A h \in Handler : h \in Running <=> fd[h] # NoInode

-----------------------------------------------------------------------------
(***************************************************************************)
(* Properties.                                                             *)
(***************************************************************************)

(* A reply whose time is the file's current time makes the client trust    *)
(* the image it holds: the image must be the file.                         *)
Vouches(h) ==
  pc[h] \in {"stored", "fetched"} /\ path # NoInode /\ time[h] = Nsec(mtime[path])
    => buf[h] = data[path]

(* The data of a reply and its time belong together (README: "Returns the  *)
(* data of the specified file or directory and the modified time"): seen   *)
(* once every handler is through, so that no later time gives it away.     *)
AnswersVouch == Running = {} => \A h \in Handler : Vouches(h)

(* They do when no other handler changed the file while this one ran, or   *)
(* was between the open() and the write() of a STORE when it began,        *)
(* whatever ran before or runs after it, if no two handlers truncate or    *)
(* create within one tick of the clock (ClockSteps).                       *)
UndisturbedAnswersVouch == \A h \in Handler \ disturbed : Vouches(h)

(* Whatever the handlers' calls interleave with, the time of a fetch is    *)
(* never older than its data: a client may take old data for new, but      *)
(* never fetches in vain the version it already has.                       *)
FetchTimeNotBehindData ==
  now < NSEC => \A h \in Handler : pc[h] = "fetched" => asof[h] <= time[h]

(* Stores that interleave can leave a mixture of their images, but every   *)
(* byte of it is where one of the images has it, and its length is one of  *)
(* theirs: images of one length do not mix unless their bytes do.          *)
EveryByteIsStored ==
  \A i \in Inode :
    /\ Len(data[i]) \in {Len(image) : image \in Image} \cup {0}
    /\ \A k \in 1..Len(data[i]) :
         \E image \in Image : k <= Len(image) /\ data[i][k] = image[k]

=============================================================================
