# Verification of the wi-AFS client/server file system

wi-AFS is a small AFS-like file system: a FUSE client (`src/client.cc`,
`src/AfsClient.h`) caches whole files in a local directory, and a gRPC server
(`src/server.cc`) keeps the originals. This directory holds TLA+ models of it,
the TLC configurations that check them and TLAPS proofs about them. All
references below are to `src/`.

## 1. Inventory

| Part | State | Operations | Where |
|---|---|---|---|
| Caching protocol | cached file, hash-table entry (time, `-12345678` = modified, `-1` = not found), fds | `afs_OPEN`, `afs_CREATE`, `afs_READ`, `afs_WRITE`, `afs_TRUNCATE`, `afs_RELEASE`, `afs_UNLINK`, with `afs_FETCH`, `afs_STORE`, `afs_GETATTR` under them | `AfsClient.h` |
| Server handlers of data | files under `root_path`, one fd per running handler | `afs_CREATE`, `afs_STORE`, `afs_FETCH`, `afs_GETATTR`, `afs_UNLINK` | `server.cc` |
| Namespace | directory trees on the client and the server | `afs_MKDIR`, `afs_RMDIR`, `afs_CHMOD`, `afs_LS` | both |
| Retry | `retries`, `interval`: members of the one `AfsClient` object | `retry_req` | `AfsClient.h:214` |
| Persistent hash table | `ht[]` with chained nodes, `database.txt` | `get`, `put`, `dump`, `read_from_database`, `init_ht` | `commonheaders.h` |
| FUSE table and start-up | `options`, `cache_path` | `client_*` callbacks, `main` | `client.cc` |
| Attributes kept locally | none of the program's own | `afs_CHOWN`, `afs_UTIMENS`, `afs_FSYNC` | `AfsClient.h` |
| Protocol definition | - | messages of the RPCs; six RPCs that nobody implements | `protos/afs.proto` |
| Tests, benchmarks, CMake output | - | - | the rest |

**How they interact.** The kernel calls the FUSE callbacks from several
threads; each forwards to the one `AfsClient`. `afs_OPEN` compares the server's
time (GETATTR) with the entry of the hash table and, when it is larger,
truncates the cached file, fetches the server's, puts the time of the reply in
the table, dumps the table and writes the data. `afs_WRITE` builds a new copy in
`<file>_tmp`, renames it over the cached file and flags the entry.
`afs_RELEASE` stores the whole file if the entry is flagged, and `afs_STORE`
puts the time of the reply over the flag. No call of the program takes a lock:
not on a cached file, not on the table, not on the retry counter, and not on
the server, where gRPC runs handlers of one file in parallel.

**What is hard.**

- *Concurrency on a machine*: two descriptors of one file, each between any two
  RPCs of its call, share the cached file, the entry and the counter.
- *Concurrency on the server*: the system calls of handlers interleave; each
  handler takes the time of the file separately from its bytes.
- *Concurrency of machines*: validation is by comparing times that the server
  hands out, and a reply may be overtaken by another machine's store.
- *Failure*: an RPC whose status is not OK may have run or not; it is sent
  again. A handler whose system call fails answers with status OK and an error
  field that `afs_FETCH` and `afs_OPEN` do not look at, and that `afs_STORE`
  looks at after it has cleared the flag.
- *Crash*: the table and the cached file are written separately.
- *Numbers*: the time in every reply is `tv_nsec` alone, which starts again
  every second.

**What makes each part correct.**

- Caching protocol: a copy that `afs_OPEN` keeps is the server's file; a
  modification is not dropped before it is stored; a flag has a descriptor
  that flushes it; calls return; together, close-to-open consistency.
- Server handlers: the time and the data of an answer belong together; no byte
  of a file is misplaced, and what a client takes for fresh is the file.
- Namespace: the local tree has the directories the server's has; a call that
  failed on the server does not report success.
- Retry: a call whose RPCs keep failing returns. (No RPC has a deadline: one that
  is never answered nor reported failed holds its call.)
- Hash table: `get` returns a value the table had while it ran, whatever else is
  put meanwhile; every walk ends; what `read_from_database` loads is what the
  table was.
- Local files and crash: a restart never finds a copy and an entry that vouches
  for another content; only whole files are stored; descriptors that are opened
  are accounted for.

`PROJECT.json` ("hazards") names the line at which each of these can go wrong
and the properties that watch it, or why none does.

## 2. Modules

| Module | What it is |
|---|---|
| `AfsCache` | the caching protocol for one file: server copy, cached copies, entries, calls in progress |
| `AfsCacheProofs` | its inductive invariants and the theorems, for every value of the constants |
| `CloseToOpen` | abstract specification: what an AFS-like file system promises applications |
| `AfsCacheRefinement` | the mapping under which `AfsCache` implements `CloseToOpen` |
| `AfsCacheRefinementProofs` | that every step of `AfsCache` maps to a step of `CloseToOpen` or to none |
| `AfsServer` | the server's handlers of one file, system call by system call |
| `AfsServerProofs` | theorems about them, for any number of handlers and inodes |
| `AfsHash` | the hash table and its database: pointer by pointer, character by character, with crashes |
| `StampTable` | abstract specification of the table: one value per file |
| `AfsHashProofs` | that its chains stay sound, for any number of threads, keys and buckets |
| `AfsHashTableProofs` | what they are worth as a table: no key twice, what `get()` returns, what a `put()` leaves alone |
| `AfsHashDatabaseProofs` | what they leave in `database.txt`, and that it is read back as the table |
| `AfsLocal` | one client at system-call level: cached file, `_tmp`, database, descriptors, crash and restart |
| `AfsLocalProofs`, `AfsLocalCrashProofs` | theorems about its descriptors, and about what a crash leaves behind |
| `AfsNamespace` | MKDIR, RMDIR, CHMOD, LS, UNLINK, and what CREATE and OPEN need of the cache directory |
| `MCAfsCache`, `MCAfsCacheRefinement`, `MCAfsServer`, `MCAfsHash`, `MCAfsLocal`, `MCAfsNamespace` | instances for TLC |

`AfsCache` is the core, with the RPCs, their failures and several machines, and the
handlers system call by system call. The others go into one part of it: `AfsServer`
into the handlers, with inodes, unlinked files and what `lstat()` leaves when it
fails; `AfsLocal` into the calls of one machine; `AfsHash` into `put()`, `get()` and
`dump()`.

An operator whose comment begins "A mistake" (such as `OpenCompareSwapped`) is a mutated
form of the definition that follows it; nothing of a specification uses it.
It shows that the property it belongs to would notice such a bug.

### AfsCache

One file, any number of machines (`Client`), any number of descriptors on each
(`Thread`, `host`).

| Variable | In the code |
|---|---|
| `file`, `mtime` | the file under `root_path` and its `st_mtim`, as one number of which `Nsec` keeps `tv_nsec` |
| `cache[c]` | the file at `client_path` |
| `stamp[c]` | what `get(path)` returns |
| `linked` | threads in `afs_OPEN` whose `fd` still is the file at `client_path`; WRITE renames another file over it, UNLINK removes it |
| `retries[c]` | `AfsClient::retries` |
| `pc[t]` | the RPC that `t` waits for; `install`: between `put()` in `afs_FETCH` and `write()` in `afs_OPEN`; `open`; `idle` |
| `stage[t]` | the system call the handler of `t`'s RPC makes next; `begin`: it has not begun; `done`: it has answered |
| `reply[t]` | the reply, as far as the handler has filled it |
| `buf[t]` | the image in `afs_OPEN`'s or `afs_RELEASE`'s buffer |

| Action | In the code |
|---|---|
| `OpenBegin`, `OpenCompare`, `OpenFetched`, `OpenInstall` | `afs_OPEN` with `afs_GETATTR` and `afs_FETCH`, cut at the RPCs and at the write of the data |
| `Create`, `CreateReturn` | `afs_CREATE` |
| `Write` | `afs_WRITE` |
| `Truncate` | `afs_TRUNCATE` to a shorter length |
| `Release`, `StoreReturn` | `afs_RELEASE` with `afs_STORE` |
| `Unlink`, `UnlinkReturn` | `afs_UNLINK` |
| `FetchOpen`, `FetchRead`, `FetchFstat` | `afs_FETCH` on the server: `open()` with the first `fstat()`, `read()`, the second `fstat()` |
| `StoreOpen`, `StoreWrite`, `StoreLstat` | `afs_STORE` on the server: `open(O_TRUNC)`, `write()`, `lstat()` by path |
| `CreateOpen`, `CreateLstat` | `afs_CREATE` on the server: `open(O_CREAT)`, `lstat()` by path |
| `ServeGetattr`, `ServeUnlink`, `Refuse` | handlers of one system call; `Refuse` is the error branch of any |
| `Retry`, `*GiveUp`, `FailOnce` | a status that is not OK: `retry_req`, and what each caller does when it returns false |

Undefined behaviour is a choice: `remoteFileInfo` that was never written
compares either way, a file that `lstat()` did not find is read as an empty or
a junk image, and a give-up that returns `-errno` returns 0 or not.

The server takes no lock, so handlers of the file overlap: that is `Overlap = TRUE`.
With `Overlap = FALSE` one begins only when none is between two of its system calls.
That is an *assumption*, which `server.cc` does nothing to bring about: validation
and close-to-open consistency need it, and without it TLC finds both violated. Each
property says whether it needs it. An UNLINK that overlaps a handler is left to
`AfsServer` (`ConstantsOK`): there the path has no file for `lstat()`, and the
reply carries a time that was never written.

When a call can start is decided by the kernel and libfuse, which are not in
`src/`: a path lookup (a GETATTR of its own) finds the file before open,
truncate and unlink, and does not find it before create; libfuse hides the file
instead of unlinking it while the machine has it open.

### AfsServer

Each handler is a sequence of system calls, each atomic; any number of handlers
interleave. It has inodes, so that an unlinked file lives on under the
descriptors that have it open, and a `lstat()` by path may see another file
than the one written. `asof` and `disturbed` are history that no handler looks
at. GETATTR is one `lstat()`, so there is nothing in it to interleave; it is in
`AfsCache`, with the handlers' error branches. Deliveries and requests are
abstract: a handler starts at any time, with any image of `Image`. A `lstat()` that
finds no file leaves `struct stat` as it was: the time is any of `JunkTime`, a set of
integers. The `write()` of a STORE may fall in the tick of its `open(O_TRUNC)`, which
is the usual case with a coarse file clock; the first change of each handler moves
the clock by `ClockSteps`. A handler is `disturbed` when another one changes the file
while it runs, or has truncated it and not yet written it when it begins (`Meets`).

### AfsHash and StampTable

| Variable | In the code |
|---|---|
| `head[b]` | `ht[b]` |
| `node`, `next` | `hash_node`s in the order of their `malloc()` |
| `db` | the text in `database.txt` |
| `up`, `offset` | whether `main` has reached `fuse_main`, and where `read_from_database` is in the file by then |
| `pc[t]`, `arg[t]`, `cur[t]`, `out[t]` | where a thread is, its key and value, the node or bucket it has reached, what it has printed |
| `contended`, `tangled`, `seen` | history, for the properties |

| Action | In the code |
|---|---|
| `GetBegin`, `GetWalk`, `GetReturn` | `get` |
| `PutBegin`, `PutFirst`, `PutWalk`, `PutLink` | `put`: the empty bucket, a node of the chain, the new node |
| `DumpOpen`, `DumpScan`, `DumpClose` | `fopen("w")`, the lines of a bucket, `fclose` |
| `Crash`, `ReadLine`, `Started` | the end of the process; `main` until FUSE starts |

Each access to a shared pointer or value is a step, so that two `put()`s may read
the same link before either writes it. The database is text, because two
`dump()`s write over each other from position 0 and because `stdio` passes its
buffer on wherever it is full: a crash may cut a line, run two together, or leave
one without a comma. A key is one character; `digits` gives each value its text.
`StampTable` is the table as the rest of the program imagines it.

### AfsLocal

One file on one machine. Contents are versions; `Empty` is a file of length 0 and
`Torn` anything that never was a file: cut, doubled or uninitialised.

| Variable | In the code |
|---|---|
| `main`, `tmp` | the files at `client_path` and `client_path + "_tmp"` |
| `entry`, `db` | the file's entry in the hash table, and in `database.txt` |
| `linked` | as in `AfsCache` |
| `handles` | threads whose `file_info->fh` is an open descriptor |
| `fds` | open descriptors of the process, of which it may have `MaxFd` |
| `pc[t]`, `after[t]`, `buf[t]` | the next system call; what follows `dump()`; what was read, or its `lstat()` |
| `stored`, `mtime`, `last` | the server's file and time; the newest content anywhere |
| `used`, `overlapped`, `harmed`, `failed` | history, for the properties |

OPEN, WRITE and RELEASE are one action per system call (`Open*`, `Write*`,
`Release*`), READ is one. A `put()` and a `dump()` are `PutAndDump`, `DumpOpen`
and `DumpClose`; between the last two the entry is not in the file (`AfsHash`
has the text). `Crash` may come between any two steps; `DumpFault` is the crash of
`fprintf(NULL, ...)` when `fopen` finds no descriptor. `OtherPut` is a call for
another file, which dumps this file's entry too; `RemoteStore` is another machine.
An `open()` that finds no descriptor takes the branch the code takes, which
mostly is to go on. The kernel lets one `write()` of a file through at a time.

### AfsNamespace

The server's tree (`kind`, `mode`), each client's cache directory (`local`), and
the directory streams the server has open (`streams`). A call is three steps: the
kernel's lookup with what the client does to its cache directory (`Create`, `Open`,
`Unlink`, `Chmod`, `Mkdir`, `Rmdir`, `Ls`), the handler (`*Handler`), and `Return`.
`ret` is what the client returns, `listing` what LS handed to `filler()`.

### CloseToOpen and AfsCacheRefinement

`CloseToOpen` has one published version and a view per session. A session gets
the published version at one instant of its open and publishes its whole view
at one instant of its close, if it was written. The mapping puts the instant of
the open at the handler whose answer decides it (the GETATTR that lets the
cached copy stay, or the FETCH), and that of the close at the STORE handler.

## 3. Runs

| Run | Question | Result |
|---|---|---|
| `validation` | two machines, one descriptor each, open/write/close; handlers do not overlap; fetches and stores fail and are refused: can a stale copy look fresh? | holds |
| `flush` | two machines, one descriptor each, with create and unlink; handlers do not overlap; everything but stores failing: can a flag be cleared without a store of the modification, or be left with nobody to flush it? can a descriptor be open without a cached file? can an entry be ahead of the server's time? | holds |
| `shared` | two descriptors on one machine, every call but unlink; handlers overlap; every RPC fails and is refused: can an entry be ahead of the server's time? do calls return, with one retry counter for both? | holds |
| `close_to_open` | three machines with no failures and handlers that do not overlap: is it close-to-open consistent? | holds |
| `handlers` | three handlers in every order of their system calls: is an answer right that nobody disturbed? is a fetch's time behind its data? are bytes misplaced? is every descriptor closed? | holds |
| `hash` | two threads that get, put and dump, with crashes: do chains stay sound? does a get return what was there? does a put leave other keys alone? does the database restore the table? | holds |
| `local` | three descriptors on a machine that may be killed at every system call: what do the copy and the database say afterwards? what reaches the server? how many descriptors are open? | holds |
| `shared_open` | README.md:53 with a second open on the machine | violated |
| `second_wrap` | README.md:66 when the second changes | violated |
| `store_refused` | README.md:71 when the server refuses the store | violated |
| `overlap` | README.md:47 and 59 when two stores each take the time by path after the other's write | violated |
| `namespace` | README.md:27-29 and 55-56: files in a directory that the client made | violated |

**Bounds, and why they are enough.**

- `MaxTime` caps the number of modifications: from it on no application starts a
  write, a truncate or an unlink and no RPC fails. The server's clock moves on to 5
  or more by the calls that have begun, since a STORE modifies the file twice; so
  another machine can modify the file more than once while a call is under way,
  which is what it takes for a reply to be overtaken and overtaken again.
- `MaxLen` caps the file at 2 blocks (1 in `close_to_open`): what
  the properties tell apart is one content from another, and a prefix or a
  doubled copy from the whole.
- `RetryLimit` is 1 instead of 5: a call fails, is sent again, fails again and
  gives up, which is every branch of `retry_req`.
- `Block` has two values, as a copy has to differ from the file; `shared` has
  one because neither of its properties looks at contents.
- `NSEC` is 100 where the second is not to change within a run and 3 where it is.
- `Lossy`, `Refusable` and `Calls` say which failures and calls a run has. They
  are part of a run's question: with stores that get lost for good, for example,
  a flag *is* left without a descriptor (section 5).
- In `handlers` no handler that modifies starts at 4 or later: two stores that
  overlap, a third that begins after them, and creates between; two inodes let a
  file be removed and made again while a handler has it open. Images of two lengths
  make tails survive. `JunkTime` is no time of a file, the time of one, and a later
  one: what a time is told apart by.

- `hash` has two keys that share a bucket and one that does not, `Puts` that
  insert each and change one, and `MaxNodes` 4, one more than the keys: in a bucket
  that two threads fill at once a node can be lost and made again; a thread that
  needs a fifth waits. Two threads
  are every pair that can meet. One value's text begins with the other's, so a
  cut line can read as a wrong but legal one.
- `local` has `MaxVersion` 4: the first file and three changes, two by the
  applications and one by another machine. `MaxFd` 6 is enough for
  three calls at once, and low enough for a leak to use up. Its `CONSTRAINT
  StillUndisturbed` does not go on from states in which calls overlapped, a crash
  fell in a window or an `open()` failed: two of the properties say nothing of
  those, and the other two are proved for all states (section 4).
- `namespace` has a directory, a file in it and a name beside it; `MaxStreams` 2
  lets LS run out.

Symmetry: blocks in `flush`, `shared_open`, `second_wrap` and `store_refused`;
handlers and inodes in `handlers` and `overlap`; threads in `hash` and `local`;
machines in `namespace`. No run with a liveness property uses it. Deadlock is
checked everywhere but in `hash`: elsewhere an application can always open or
close, but a client whose database has a damaged line dies whenever it is
started, and never gets further.

**What `hash` and `local` exclude.** Three properties of `hash` and three of
`local` hold only as long as something has not happened, which the history
variables record. Each exclusion is as narrow as the code allows: without it TLC
finds the property violated (section 5).

- `TableIsKept`: two `put()`s of *new* keys of one bucket at the same time
  (`contended`). Updates, walks, dumps and insertions elsewhere may overlap.
- `GetIsRegular`: the same, for the bucket of its key. A `get()` that stands on a
  node that is lost returns what another thread that stands there puts into it;
  that takes three threads, and the proof found it.
- `DatabaseIsTable`: two `dump()`s that overlapped, until a later one has run alone
  (`tangled`), and `put()`s and `dump()`s under way.
- `RestartIsSafe`, `OnlyWholeFilesAreStored`: a call that comes between the steps of
  a change of the same file (`overlapped`), a crash in one of the two `Windows`
  (`harmed`), an `open()` without a descriptor (`failed`).
- `DescriptorsAreAccounted`: the last of these only.

**Fairness.** `FairSpec` adds `EveryRpcEnds`: weak fairness of `Progress(t)` for each
thread. A call inside the client goes on, because the client's code has no wait of
its own other than the back-off; and an RPC that is sent is answered, or gRPC
reports that its connection failed. The second half is an assumption about the
server and the network. The code does not see to it: no `ClientContext` has a
deadline (`AfsClient.h:93`, `:243`, `:428`), so a server that keeps the connection and
never answers holds the call for ever. Nothing is asked of applications.
`CallsReturn` then rests on `retry_req`: RPCs that always fail are given up. Because
the counter is shared, and a call that succeeds resets it for all, what holds is
that the calls of a machine go on returning, one or another; a single one may fail
and be sent again for ever while others succeed (section 5), and the only call of a
machine returns. It is checked with handlers that overlap: if they excluded each
other, as `Overlap = FALSE` has it, weak fairness would not make one begin. The
lookups of the kernel, GETATTRs with the same counter, are not in the model. The
other modules state safety only and need no fairness: what has to happen eventually
is a matter of RPCs.

## 4. Proofs

`AfsCacheProofs` and `AfsCacheRefinementProofs` prove, for any number of machines,
descriptors, blocks, retries, clock steps and any file length and number of steps:

| Theorem | Assumptions | Statement |
|---|---|---|
| `TypeCorrect` | none | `Spec => []TypeOK` |
| `StampsAreNotAhead` | none (`ConstantsOK`: no unlink if handlers overlap) | `Spec => []NoStampAhead` |
| `OpenFilesAreCached` | `OneDescriptor`, or no unlink | `Spec => []OpenHasCachedFile` |
| `ValidationIsSound` | `Orderly`, of which: handlers do not overlap | within a second of the clock, a copy that `afs_OPEN` would accept is the server's file |
| `ModificationsHaveOwners` | no store is lost | `Spec => []ModifiedHasOwner` |
| `ModificationsAreFlushed` | `OneDescriptor`; no truncate; stores neither lost nor refused | `Spec => ModifiedIsFlushed` |
| `CacheImplementsCloseToOpen` | `Orderly`, of which: handlers do not overlap; `NothingFails` | within a second of the clock, `AfsCache` implements `CloseToOpen`, with RELEASE for its close |

The theorems have no bound on time other than the one the code has: `NSEC`
itself, since the reported time starts again then.

The other modules' theorems have no bound either: any number of threads or
handlers, of keys and buckets, inodes, versions and descriptors.

| Module | Theorem | Assumptions | Statement |
|---|---|---|---|
| `AfsServerProofs` | `ServerTypeCorrect` | none | `ServerSpec => []ServerTypeOK`: types, and a descriptor is open exactly from a handler's `open()` to its `close()` |
| | `BytesAreStored` | none | `ServerSpec => []EveryByteIsStored` |
| | `FetchesAreNotBehind` | none | `ServerSpec => []FetchTimeNotBehindData` |
| | `UndisturbedAnswers` | `ClockMoves`: no two truncates or creates in one tick | within a second of the clock, `UndisturbedAnswersVouch` |
| `AfsLocalProofs` | `LocalTypeCorrect` | none | `LocalSpec => []LocalTypeOK` |
| | `LeakIsOnePerCall` | none | `LocalSpec => []DescriptorsAreAccounted` |
| `AfsLocalCrashProofs` | `CrashesAreSafe` | none | `LocalSpec => []RestartIsSafe` |
| | `OnlyWholeFiles` | none | `LocalSpec => []OnlyWholeFilesAreStored` |
| `AfsHashProofs` | `ChainsAlwaysEnd` | none | `HashSpec => []ChainsEnd` |
| `AfsHashTableProofs` | `HashTypeCorrect` | none | `HashSpec => []HashTypeOK` |
| | `KeysAreSingle` | none | `HashSpec => []NoKeyTwice` |
| | `GetsAreRegular` | none | `HashSpec => []GetIsRegular` |
| | `TableKept` | none | `HashSpec => TableIsKept` |
| `AfsHashDatabaseProofs` | `DatabaseIsKept` | none | `HashSpec => []DatabaseIsTable` |

**The argument for `AfsCache`.**

- `TypeOK` is not inductive alone: `afs_OPEN` appends to the cached file, so it
  needs `LinkedIsCached`, that a descriptor that still is the cached file finds one.
- `NoStampAhead` speaks of entries, but an entry gets its value from a reply
  that may be old by then. `TimesInv` adds that the replies under way are not
  ahead either, which the clock's monotonicity keeps true.
- `OpenHasCachedFile` is about descriptors that are open, but each was a call
  before, which made the file and then waited for the server. `HeldIsCached` says
  it of every call from its own `open()` on. Only UNLINK takes a cached file away
  (`CacheStays`), and the kernel lets it in only while the machine has no
  descriptor open; one that is still being opened it does not see, hence the
  hypothesis.
- `ValidationIsSound` is the main one. `CallsInv` ties each call to its
  machine: a descriptor that is fetching finds an empty cached file of its own;
  one that stores holds the image the cache has, with the flag up. `TrustInv`
  says who may vouch for a content: an entry equal to the file's time belongs
  to a copy that is the file or to a fetch about to be installed (`VouchOK`),
  and a reply with the file's time carries the file (`ReplyOK`). With `TimesInv`,
  "not larger than the entry" means "equal to it", and the theorem follows. The
  step that matters is the `open()` of a STORE: its time is larger than every entry
  and every reply (`Unseen`), so nothing older vouches for anything any more.
  `SerialInv` says what a handler knows between its system calls when no other
  runs (`BetweenOK`): the file is empty and its time unseen until the `write()`,
  which may share the tick of the `open()`, then it is the image; what a FETCH has
  read is the file.
- `ModificationsAreFlushed` uses `ModifiedHasOwner` (the machine's only descriptor is
  open or storing while the flag is up, so only `StoreReturn` can take it down),
  and `StoresCopy`: what is on its way to the server is the cached file, which
  nothing touches meanwhile, and which RELEASE found because of `HeldIsCached`.
- `CacheImplementsCloseToOpen` needs no invariant of its own: `ViewsInv` is the
  conjunction of those above. With one descriptor per machine a step changes the
  view of one session only (`StepOfOne`), so each action is compared with the
  abstract step of its own session. A GETATTR handler opens the session if
  what it answers makes `afs_OPEN` keep the copy: the copy is the file then, by
  `VouchOK`. Else the FETCH handler does, with the bytes it reads. The `open()` of
  a STORE closes a written session: from there to the `write()` the published version
  is the image that is about to be written (`Published`), which is the view by
  `CallOK`, and the `write()` then changes nothing that is published; a RELEASE of an unflagged file closes one that was not written.
  Everything else leaves file and views as they were (`ClientStutters`).

**The arguments for the other modules.**

- `ServerInv`: `HandlersInv` says a handler between `open()` and `close()` has an
  inode, and `TimesInv` that no file is later than the clock and that a fetch's
  inode is not older than what was read from it: times of inodes only grow. For
  `UndisturbedAnswers`, `AnswerInv` says at each system call what a handler knows
  that nobody disturbed (path and descriptor are one file, its bytes are those
  it wrote or read, and no STORE is between its `open()` and `write()` there), and
  after it has answered that only a later time can belong to another content. The
  step that matters is another handler's modification: the `open()` of a STORE or a
  CREATE has a new time by `ClockMoves`, and its `write()`, which may share that
  tick, comes to a time that no undisturbed answer has.
- `LocalInv`: to close a descriptor it must be open, whatever has failed before
  (`Backed`: handles, OPENs and dumps under way together hold no more than `fds`);
  the equation of the leak needs what calls hold in between (`Balanced`: RELEASE
  gives one back before it takes another, WRITE and `dump()` have one more for a
  while) and that a descriptor RELEASE closes is there (`HandlesKept`).
- `CrashInv`: no entry is ahead of the server; each call knows the files it works
  on as long as nobody comes between (`CallInv`); outside the windows an entry
  that is fresh belongs to the cached file (`EntryIsTrue`), in memory and on the
  disk (`DatabaseIsEntry`). The steps that matter are the ends of the windows: OPEN's
  write of the data, and the end of the `dump()` of the flag. WRITE's own window is
  safe from its `remove()` on, because a file that is missing is fetched.
- `HashInv`: whoever walks stands on a node of its key's bucket (`WalksInBucket`),
  and links lead to later nodes. A `put()` that links a node puts it behind one
  that was there before it, even if it overwrites the link of another.
- `TableInv` adds what makes the chains a table. `Reached[n]` is the set of nodes a
  walk from `n` meets. A node is linked once (`OneLink`), so a lost link loses the
  end of a chain and never joins two. Who walks on a chain has not passed its own
  key (`WalkedPast`), whoever puts it meanwhile puts it behind; so a
  new node never has the key of one that is there (`KeysOnce`). Where no two new keys
  met, a walk stands on the chain and ends at its end (`OnChain`, with `Noted` for what
  the history variable knows). Then a walk that finds its key finds what
  `Lookup` gives at that moment, and one that comes to the end was on a chain
  without the key (`GetIsExact`); an update changes one key, and so does a new node
  (`UpdateIsPut`, `InsertIsPut`). `ChainFrom` is a recursive function. That it
  exists and what it reaches is proved by the largest node for which the claim
  fails (`Largest`): links lead to later nodes, so its successor satisfies it.

- `DatabaseInv` adds the database. While the client runs, and no `dump()`s overlap
  (`NotTangled`: the last of two that did leaves an empty file to a new one), the
  text that the one `dump()` has printed restores the buckets it has walked and no
  other (`Restores`), unless a `put()` has changed the table meanwhile; then
  that `put()`'s own `dump()` is still to come (`Pending`), and the next `fopen`
  begins anew (`RunningOK`). While the client starts it is the other way round: the
  table is what the lines up to `offset` give, except at the key that is being put
  (`StartingOK`). One thread puts then, so nothing is contended and `UpdateIsPut` and
  `InsertIsPut` apply. What a crash left in the file does not matter: either a line
  of it faults, and the client never starts, or the table becomes what it says.
  Under all this lies the text: an entry that is printed behind a text of whole
  lines is a line of its own, leaves the other lines as they are, and is read back
  as the entry (`RecordIsRead`, `LineAppended`, `EntryAppended`), and so a chain is
  (`ChainIsRead`). That needs of the values only what `HashConstants` says of
  `digits`: no comma, no newline, and no two values with one text. `FlattenSeq` is
  unfolded, and induction along a chain done, by the smallest place at which the
  claim fails (`Smallest`).

**What is assumed.** `LocalConstants`, `HashConstants` and `ServerConstants` are
the types of the constants; `ClockMoves` is that no two truncates or creates get one
time (a `write()` may share the time of its truncate). Of `AfsCache`, `ConstantsOK` (types of the constants) and, where named:

- `OneDescriptor`: no machine has two descriptors of the file. A second one makes
  an OPEN drop the modification of the first (`shared_open`).
- `Orderly`: `OneDescriptor`; applications that open, write and close; GETATTRs that
  get through; handlers of the file that do not overlap; no two truncates within
  one tick of the file clock. The last three are nothing the code sees to. Every
  conjunct is needed: TLC finds a stale copy that looks fresh when any of them is
  dropped: two descriptors; handlers that overlap, with no RPC failing; a CREATE, a
  TRUNCATE or an UNLINK; a GETATTR that fails (an
  uninitialised time is compared, a current copy is truncated for it, and the
  FETCH fails too); a clock step of 0 (a FETCH that ran before a STORE of the
  same tick).
- A failed RPC (`Fails`) has a handler that has run or never runs: one that has begun
  answers before the client hears of the failure.
- `NothingFails`: no FETCH and no STORE is lost or refused. A FETCH given up opens
  what is in memory, and a STORE refused loses the image (`store_refused`).

**Only model-checked.** `CallsReturn`, which is liveness; every other property of a
passing run is a theorem. And, of course, the five violations. `AfsNamespace` has
no theorem: its one property is violated.

## 5. What the code does otherwise than it says

- `shared_open`: a second open on the machine that modified the file compares
  the server's time with the flag, finds it larger, truncates the modification
  away and clears the flag (`AfsClient.h:147`, `:104`). README.md:53 and
  `AfsClient.h:456` say a modified file is flushed.
- `second_wrap`: the stored value is `tv_nsec`, not the mtime of README.md:66:
  a newer version can have a smaller time and is then not fetched.
- `store_refused`: `afs_STORE` clears the flag without looking at
  `reply.error()` (`AfsClient.h:436`), against README.md:71.
- `overlap`: STORE and FETCH take the time apart from the bytes
  (`server.cc:100`, `:254`): a client gets data with the time of another
  version and keeps it as fresh.
- `namespace`: `afs_MKDIR` returns in both branches before its `mkdir()` of the
  cache directory (`AfsClient.h:369`): the directory is on the server, and every
  create and open below it fails for want of it in the cache.

Further consequences of the same code that TLC shows, for which no run is kept
because they break the same properties.

*Caching protocol*: handlers that overlap make `TrustedCopyIsCurrent` and
`ImplementsCloseToOpen` fail without any RPC failing (`validation` and
`close_to_open` with `Overlap = TRUE`), which is what `overlap` shows of the server
alone; a call of another thread that succeeds resets the shared retry counter, so
a call that fails is sent again for ever (`CallsReturn` asked of each call,
`AfsClient.h:216`); a store that fails for good leaves the
flag up with no descriptor (`AfsClient.h:463`); two creates of one file stamp an
empty cached file with the time of a file that has content (`AfsClient.h:73`); a
truncate changes a copy and not its entry (`AfsClient.h:282`); a GETATTR given
up makes `afs_OPEN` compare an uninitialised time (`AfsClient.h:146`); two
stores within one tick of the server's file clock have one time, and a client
that has the first never fetches the second (`server.cc:106`); an UNLINK that
overlaps an OPEN or a CREATE of the same machine takes away the cached file that
the new descriptor is for (`AfsClient.h:304`, `OpenHasCachedFile`).

*Hash table* (`TableIsKept` and `DatabaseIsTable` without their exclusions): two
new keys of one bucket at the same time lose a node, and with it a flag or a time
(`commonheaders.h:131`, `:148`); two overlapping `dump()`s leave the tail of the
longer text or a line run together; a line without a comma, left by them or by a
crash, makes `atol(NULL)` kill the client at every start (`commonheaders.h:169`).

*Crashes* (`RestartIsSafe` without `harmed`): between the `dump()` of a FETCH's time
and the write of its data an empty copy is vouched for (`AfsClient.h:107`); between
WRITE's `rename()` and the `dump()` of the flag a modified copy is taken for the
server's and never stored (`AfsClient.h:566`); and after a crash between WRITE's
`remove()` and `rename()` the entry is still fresh, so that an OPEN that has made
the missing file and is killed before it has fetched leaves an empty copy that
is vouched for (`AfsClient.h:139`).

*Overlapping calls* (`OnlyWholeFilesAreStored` without `overlapped`): two opens of a
file append the same data twice, its descriptor being `O_APPEND`
(`AfsClient.h:166`); a release between the truncate and the write of an open, or
inside a write, stores an empty file or junk.

*Descriptors* (the same without `failed`): READ, OPEN and RELEASE leave one open
each time (`AfsClient.h:199`, `:461`). When none is left, WRITE removes the cached
file all the same (`:565`), and `dump()` ends in a segmentation fault.

*Return values*, which `AfsNamespace` has and no run asks about, as no document
promises anything: CHMOD, RMDIR and UNLINK return 0 when the handler failed; a
status that is not OK leaves the reply empty, so `-reply.error()` is 0 (`:376`); LS
returns an empty listing and 0 when the server's `opendir()` fails, which it does
in the end because no stream is ever closed (`server.cc:281`).

Hazards that no property catches are listed with a note in `PROJECT.json`. Three that
the models have and nothing is asked of: a write between RELEASE's read of the image
and the return of its STORE loses its flag (`AfsClient.h:436`); a STORE that is sent
again overwrites a version stored meanwhile (`:429`); a crash inside `dump()` loses
the entries, flags included, that it had not yet written (`commonheaders.h:186`).

## 6. Not modelled

- Bytes within a block, permissions, owners and `errno` values: no property
  tells them apart.
- `truncate()` to a longer file; `afs_READ`'s data, which is a `pread()` of the
  cached file (its descriptor is in `AfsLocal`).
- CHOWN, UTIMENS and FSYNC: they change nothing that another call looks at.
- Names: two file names with one 64-bit hash, a user's file that is called like
  another's `_tmp` file or `/database.txt`, and `hashtableindex()` itself, which
  is a constant of `AfsHash`.
- In `AfsHash`, a full `stdio` buffer that goes to the kernel while another thread
  dumps: it does in a crash only. What two dumps do to each other the model has in
  any case, at `fclose()`.
- In `AfsLocal` and `AfsNamespace`, RPCs that fail: `AfsCache` has them.
- The sleep of `retry_req`: only its counter is there.
- Server start-up, tests, benchmarks, build output: no state of their own.
- The kernel's page and attribute caches: the models let an application's call
  reach the client in every state in which the kernel could pass it on.

## 7. Plan

Done: `AfsCache` and its proofs, `CloseToOpen` and the refinement; `AfsServer`,
`AfsHash`, `AfsLocal` and their proofs, the database included; `AfsNamespace`.
Left, in this order:

1. `AfsRetry`: the shared counter and interval with several calls of a machine, the
   kernel's lookups among them: which fairness of the server makes each call return.
2. What overlapping handlers leave of close-to-open consistency: a specification
   weaker than `CloseToOpen` that `AfsCache` implements with `Overlap = TRUE`.
3. The clock tick (`server.cc:106`): two truncates with one time. The properties
   assume it away (`ClockMoves`, `Orderly`).
4. Names in `AfsLocal`: `_tmp` and `database.txt` as files like others.
5. Proofs: every property of a passing run but `CallsReturn` has its theorem. Next
   is `ValidationIsSound` with weaker conditions on the calls than `Orderly` (TLC has
   to say first which truncates and creates are harmless).
