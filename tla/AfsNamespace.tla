---------------------------- MODULE AfsNamespace ----------------------------
(***************************************************************************)
(* The calls that change or list names: CREATE and OPEN as far as they     *)
(* need the cache directory, UNLINK, MKDIR, RMDIR, CHMOD and LS.           *)
(*                                                                         *)
(* The server keeps the tree of names.  A client's cache directory repeats *)
(* as much of it as the client's own calls made there.  A call looks at    *)
(* the name (the kernel's lookup, a GETATTR), acts on the cache directory, *)
(* then sends its RPC: other machines may come between.  A handler is one  *)
(* system call, or an opendir() and the readdir()s of a small directory.   *)
(***************************************************************************)
EXTENDS Integers, FiniteSets

CONSTANTS
  Client,       (* machines                                                *)
  Path,         (* names of files and directories                          *)
  Root,         (* the root of the tree                                    *)
  parent,       (* parent[p]: the directory of p                           *)
  Mode,         (* permission bits                                         *)
  MaxStreams    (* descriptors the server may have open                    *)

VARIABLES
  kind,       (* kind[p]: "none", "dir" or "file" on the server            *)
  mode,       (* mode[p]: its permissions there                            *)
  streams,    (* descriptors the server has open                           *)
  local,      (* local[c][p]: what p is in the cache directory of c        *)
  pc,         (* "idle", "rpc": the request is sent, or "returned"         *)
  call,       (* call[c]: the operation, its path and its mode             *)
  ret,        (* ret[c]: "ok" for 0, "refused" for the server's errno, or      *)
              (* "no_local_dir", that of an open() in the cache directory   *)
  listing,    (* listing[c]: the names LS handed to filler()               *)
  made        (* history: directories c made that are there ever since     *)

tree == <<kind, mode, streams>>
client == <<pc, call, ret, listing>>
nsVars == <<tree, local, client, made>>

Nodes == Path \cup {Root}
IsDir(k, p) == p \in {Root} \cup {q \in Path : k[q] = "dir"}
Children(k, d) == {p \in Path : parent[p] = d /\ k[p] # "none"}

NoCall == [op |-> "none", path |-> Root, mode |-> CHOOSE m \in Mode : TRUE]

(* The server exports whatever is below its root; caches start empty.      *)
NamespaceInit ==
  /\ kind \in {k \in [Path -> {"none", "dir", "file"}] :
                \A p \in Path : k[p] # "none" => IsDir(k, parent[p])}
  /\ mode \in [Path -> Mode]
  /\ streams = 0
  /\ local = [c \in Client |-> [p \in Path |-> "none"]]
  /\ pc = [c \in Client |-> "idle"]
  /\ call = [c \in Client |-> NoCall]
  /\ ret = [c \in Client |-> "ok"]
  /\ listing = [c \in Client |-> {}]
  /\ made = [c \in Client |-> {}]

-----------------------------------------------------------------------------
(***************************************************************************)
(* The client's half: from FUSE's callback to the RPC.                     *)
(***************************************************************************)
Send(c, op, p, m) ==
  /\ pc[c] = "idle"
  /\ pc' = [pc EXCEPT ![c] = "rpc"]
  /\ call' = [call EXCEPT ![c] = [op |-> op, path |-> p, mode |-> m]]
  /\ UNCHANGED <<tree, ret, listing, made>>

(* A call that returns before it has sent anything.                        *)
Fail(c, op, p) ==
  /\ pc[c] = "idle"
  /\ pc' = [pc EXCEPT ![c] = "returned"]
  /\ call' = [call EXCEPT ![c] = [op |-> op, path |-> p, mode |-> NoCall.mode]]
  /\ ret' = [ret EXCEPT ![c] = "no_local_dir"]
  /\ UNCHANGED <<tree, listing, made>>

SetLocal(c, p, k) == local' = [local EXCEPT ![c][p] = k]

(* open(O_CREAT) below the cache path.  OPEN's two open()s fail the same   *)
(* way, and so does its ftruncate(-1).                                     *)
OpenLocally(c, op, p) ==
  IF IsDir(local[c], parent[p])
  THEN /\ Send(c, op, p, NoCall.mode)
       /\ SetLocal(c, p, IF local[c][p] = "none" THEN "file" ELSE local[c][p])
  ELSE Fail(c, op, p) /\ UNCHANGED local

Create(c, p) == kind[p] = "none" /\ IsDir(kind, parent[p]) /\ OpenLocally(c, "create", p)

Open(c, p) == kind[p] = "file" /\ OpenLocally(c, "open", p)

Unlink(c, p) ==
  /\ kind[p] = "file"
  /\ Send(c, "unlink", p, NoCall.mode)
  /\ SetLocal(c, p, IF local[c][p] = "file" THEN "none" ELSE local[c][p])

Chmod(c, p, m) == kind[p] # "none" /\ Send(c, "chmod", p, m) /\ UNCHANGED local

(* The mkdir() below the cache path comes after both returns.              *)
Mkdir(c, p, m) ==
  /\ kind[p] = "none" /\ IsDir(kind, parent[p])
  /\ Send(c, "mkdir", p, m)
  /\ UNCHANGED local

Rmdir(c, p) ==
  /\ kind[p] = "dir"
  /\ Send(c, "rmdir", p, NoCall.mode)
  /\ SetLocal(c, p, IF local[c][p] = "dir" /\ Children(local[c], p) = {} THEN "none"
                    ELSE local[c][p])

Ls(c, d) == IsDir(kind, d) /\ Send(c, "ls", d, NoCall.mode) /\ UNCHANGED local

-----------------------------------------------------------------------------
(***************************************************************************)
(* The server's handlers, and what the client makes of their replies.      *)
(***************************************************************************)
Answer(c, op, r) ==
  /\ pc[c] = "rpc" /\ call[c].op = op
  /\ pc' = [pc EXCEPT ![c] = "returned"]
  /\ ret' = [ret EXCEPT ![c] = r]
  /\ UNCHANGED <<local, call>>

SetKind(p, k) == kind' = [kind EXCEPT ![p] = k]

(* Whoever made p, it is not there any more.                               *)
Gone(p) == made' = [c \in Client |-> made[c] \ {p}]

(* open(O_CREAT), which refuses a directory; the client returns the ack.   *)
CreateHandler(c) ==
  LET p == call[c].path
      works == IsDir(kind, parent[p]) /\ kind[p] # "dir" IN
  /\ Answer(c, "create", IF works THEN "ok" ELSE "refused")
  /\ IF works THEN SetKind(p, "file") ELSE UNCHANGED kind
  /\ UNCHANGED <<mode, streams, listing, made>>

(* A FETCH that finds no file installs nothing and returns 0 all the same. *)
OpenHandler(c) == Answer(c, "open", "ok") /\ UNCHANGED <<tree, listing, made>>

(* The server's errno arrives with Status::OK, and the client returns 0.   *)
UnlinkHandler(c) ==
  LET p == call[c].path IN
  /\ Answer(c, "unlink", "ok")
  /\ IF kind[p] = "file" THEN SetKind(p, "none") ELSE UNCHANGED kind
  /\ UNCHANGED <<mode, streams, listing, made>>

ChmodHandler(c) ==
  LET p == call[c].path IN
  /\ Answer(c, "chmod", "ok")
  /\ mode' = IF kind[p] # "none" THEN [mode EXCEPT ![p] = call[c].mode] ELSE mode
  /\ UNCHANGED <<kind, streams, listing, made>>

(* A mkdir() that fails is answered with UNAVAILABLE, and gRPC leaves the  *)
(* reply as it was: the client returns -reply.error(), which is 0.         *)
MkdirHandler(c) ==
  LET p == call[c].path IN
  /\ Answer(c, "mkdir", "ok")
  /\ IF kind[p] = "none" /\ IsDir(kind, parent[p])
     THEN /\ SetKind(p, "dir")
          /\ mode' = [mode EXCEPT ![p] = call[c].mode]
          /\ made' = [made EXCEPT ![c] = @ \cup {p}]
     ELSE UNCHANGED <<kind, mode, made>>
  /\ UNCHANGED <<streams, listing>>

RmdirHandler(c) ==
  LET p == call[c].path IN
  /\ Answer(c, "rmdir", "ok")
  /\ IF kind[p] = "dir" /\ Children(kind, p) = {}
     THEN SetKind(p, "none") /\ Gone(p)
     ELSE UNCHANGED <<kind, made>>
  /\ UNCHANGED <<mode, streams, listing>>

(* opendir() keeps a descriptor that is never closed.  When it fails, the  *)
(* client skips the error's entry and returns an empty list.               *)
LsHandler(c) ==
  LET d == call[c].path IN
  /\ Answer(c, "ls", "ok")
  /\ IF IsDir(kind, d) /\ streams < MaxStreams
     THEN /\ streams' = streams + 1
          /\ listing' = [listing EXCEPT ![c] = Children(kind, d)]
     ELSE UNCHANGED <<streams, listing>>
  /\ UNCHANGED <<kind, mode, made>>

Return(c) ==
  /\ pc[c] = "returned"
  /\ pc' = [pc EXCEPT ![c] = "idle"]
  /\ call' = [call EXCEPT ![c] = NoCall]
  /\ ret' = [ret EXCEPT ![c] = "ok"]
  /\ listing' = [listing EXCEPT ![c] = {}]
  /\ UNCHANGED <<tree, local, made>>

-----------------------------------------------------------------------------
Callback(c) ==
  \/ \E p \in Path : Create(c, p) \/ Open(c, p) \/ Unlink(c, p) \/ Rmdir(c, p)
  \/ \E p \in Path, m \in Mode : Mkdir(c, p, m) \/ Chmod(c, p, m)
  \/ \E d \in Nodes : Ls(c, d)

Handler(c) ==
  \/ CreateHandler(c) \/ OpenHandler(c) \/ UnlinkHandler(c) \/ ChmodHandler(c)
  \/ MkdirHandler(c) \/ RmdirHandler(c) \/ LsHandler(c)

NamespaceNext == \E c \in Client : Callback(c) \/ Handler(c) \/ Return(c)

NamespaceSpec == NamespaceInit /\ [][NamespaceNext]_nsVars

-----------------------------------------------------------------------------
(* A directory that a client made, and that nobody removed, takes that     *)
(* client's files: its open() and create() below it are not refused for    *)
(* want of a directory in its own cache.                                   *)
DirectoriesTakeFiles ==
  \A c \in Client :
    pc[c] = "returned" /\ call[c].op \in {"create", "open"} /\ parent[call[c].path] \in made[c]
      => ret[c] # "no_local_dir"

=============================================================================
