------------------------------ MODULE AfsHash ------------------------------
(***************************************************************************)
(* The persistent hash table of commonheaders.h: buckets of chained nodes  *)
(* in memory, and the file database.txt that dump() rewrites after every   *)
(* put() and read_from_database() loads when the client starts.            *)
(*                                                                         *)
(* FUSE calls put(), get() and dump() from several threads, and none takes *)
(* a lock.  A step is one access to a shared pointer or value, one bucket  *)
(* walked by dump(), or one system call on the database.                   *)
(*                                                                         *)
(* The database is a sequence of characters, because two dump()s overwrite *)
(* each other's text from position 0, and because stdio hands its buffer   *)
(* to the kernel wherever it happens to be full.  A key is one character.  *)
(***************************************************************************)
EXTENDS Integers, SequencesExt

CONSTANTS
  Thread,       (* threads of the client                                   *)
  Key,          (* hashes of file names                                    *)
  bucket,       (* bucket[k]: the index hashtableindex() gives k           *)
  Buckets,      (* HTABLESIZE                                              *)
  Value,        (* the times and flags that are put                        *)
  digits,       (* digits[v]: the text of a value                          *)
  Wrong,        (* what atol() makes of a damaged text, "" included        *)
  NotFound,     (* what get() returns for a key that is not in the table   *)
  Puts,         (* bound: the keys and values that are put                 *)
  MaxNodes      (* bound: nodes that one run of the client allocates       *)

Comma == ","
Newline == "n"

Stored == Value \cup {Wrong}

ASSUME HashConstants ==
  /\ Buckets \in Nat \ {0} /\ Key # {}
  /\ bucket \in [Key -> 1..Buckets]
  /\ Wrong \notin Value /\ NotFound \notin Stored
  /\ Puts \subseteq Key \X Value
  /\ MaxNodes \in Nat
  /\ digits \in [Stored -> Seq(STRING)]
  /\ \A v \in Stored : Range(digits[v]) \cap {Comma, Newline} = {}
  /\ Key \cap {Comma, Newline} = {}
  /\ \A v, w \in Stored : digits[v] = digits[w] => v = w

Node == 1..MaxNodes
Null == 0

VARIABLES
  head,       (* ht: the first node of each bucket, or Null                *)
  next,       (* next[n]: the node after n, or Null                        *)
  node,       (* node[n]: its key and value, in the order of malloc()      *)
  db,         (* the text in database.txt                                  *)
  up,         (* the client runs, or reads the database when it starts     *)
  offset,     (* the characters of it that have been read by then          *)
  pc,         (* what t does next                                          *)
  arg,        (* arg[t]: the key and the value of t's call                 *)
  cur,        (* cur[t]: the node t has reached (temp_hn, prev), or the    *)
              (* bucket dump() has reached                                 *)
  out,        (* out[t]: the text t has printed                            *)
  (* The rest is history, which the program does not have.                 *)
  contended,  (* buckets in which two put()s of new keys overlapped        *)
  tangled,    (* the last dump()s overlapped                               *)
  seen        (* seen[t]: what a get() of t's key could return so far      *)

memory == <<head, next, node>>
thread == <<pc, arg, cur, out>>
history == <<contended, tangled, seen>>
hashVars == <<memory, db, up, offset, thread, history>>

NoCall == [key |-> CHOOSE k \in Key : TRUE, value |-> Wrong]

PutSteps == {"put_first", "put_walk", "put_link"}
DumpSteps == {"dump_scan", "dump_close"}
PC == {"idle", "get_walk", "got", "dump_open"} \cup PutSteps \cup DumpSteps

All(x) == [t \in Thread |-> x]

(* init_ht()                                                               *)
NoTable == [b \in 1..Buckets |-> Null]

HashInit ==
  /\ head = NoTable /\ next = <<>> /\ node = <<>>
  /\ db = <<>> /\ up = TRUE /\ offset = 0
  /\ pc = All("idle") /\ arg = All(NoCall) /\ cur = All(Null)
  /\ out = All(<<>>)
  /\ contended = {} /\ tangled = FALSE /\ seen = All({})

-----------------------------------------------------------------------------
(***************************************************************************)
(* Walks.                                                                  *)
(***************************************************************************)

(* The nodes from n on.  A chain goes on to nodes allocated later, or not  *)
(* at all (ChainsEnd).                                                     *)
ChainFrom ==
  LET f[n \in 0..Len(node)] ==
        IF n = Null THEN <<>>
        ELSE <<n>> \o (IF next[n] \in (n + 1)..Len(node) THEN f[next[n]] ELSE <<>>)
  IN f

Chain(b) == ChainFrom[head[b]]

(* What get() finds when nothing comes between.                            *)
Lookup(k) ==
  LET found == {n \in ToSet(Chain(bucket[k])) : node[n].key = k}
  IN IF found = {} THEN NotFound ELSE node[CHOOSE n \in found : TRUE].value

(* fprintf("%ld,%ld\n") of the nodes of a chain.                           *)
Line(n) == <<node[n].key, Comma>> \o digits[node[n].value] \o <<Newline>>
Text(chain) == FlattenSeq([i \in DOMAIN chain |-> Line(chain[i])])

(* write() of text at the beginning of a file.                             *)
Overwrite(file, text) == text \o SubSeq(file, Len(text) + 1, Len(file))

(* Where lines end: at a newline, or at the end of the file.               *)
Ends(text) == {i \in DOMAIN text : text[i] = Newline \/ i = Len(text)}

(* getline(): the line that ends at i, without its newline.                *)
LineTo(text, i) ==
  LET start == 1 + Max({0} \cup {j \in Ends(text) : j < i})
  IN SubSeq(text, start, IF text[i] = Newline THEN i - 1 ELSE i)

(* strsep() needs exactly one comma: with none the second call returns     *)
(* NULL, and atol(NULL) is a segmentation fault; with two, free(tempstr)   *)
(* gets a pointer into the middle of the line, and aborts.                 *)
Faults(line) == Cardinality({i \in DOMAIN line : line[i] = Comma}) # 1

(* A line as the entry it puts.  Digits that were cut or run together are  *)
(* a wrong number; a key that was, a number no file name has.              *)
NoEntry == [key |-> Comma, value |-> Wrong]
Entry(line) ==
  LET number == SubSeq(line, 3, Len(line))
  IN IF Len(line) >= 2 /\ line[1] \in Key /\ line[2] = Comma
     THEN [key |-> line[1],
           value |-> IF \E v \in Stored : digits[v] = number
                     THEN CHOOSE v \in Stored : digits[v] = number ELSE Wrong]
     ELSE NoEntry

(* What get() finds once the database is read: the last line counts.       *)
LookupIn(text, k) ==
  LET found == {i \in Ends(text) : Entry(LineTo(text, i)).key = k}
  IN IF found = {} THEN NotFound ELSE Entry(LineTo(text, Max(found))).value

-----------------------------------------------------------------------------
(***************************************************************************)
(* get(), put().                                                           *)
(***************************************************************************)

Goto(t, q, n) ==
  /\ pc' = [pc EXCEPT ![t] = q]
  /\ cur' = [cur EXCEPT ![t] = n]

Call(t, k, v) == arg' = [arg EXCEPT ![t] = [key |-> k, value |-> v]]

(* A thread is inserting when its key is not in the table yet.             *)
Inserting(t) == pc[t] \in PutSteps /\ Lookup(arg[t].key) = NotFound

GetBegin(t) ==
  /\ up /\ pc[t] = "idle"
  /\ \E k \in Key :
       /\ Call(t, k, NotFound)
       /\ Goto(t, IF head[bucket[k]] = Null THEN "got" ELSE "get_walk", head[bucket[k]])
  /\ UNCHANGED <<memory, db, up, offset, out>>

(* A mistake: the first node of the bucket is taken for the one of the key. *)
GetFirst(t) ==
  /\ pc[t] = "get_walk"
  /\ Call(t, arg[t].key, node[cur[t]].value)
  /\ Goto(t, "got", Null)
  /\ UNCHANGED <<memory, db, up, offset, out>>

GetWalk(t) ==
  /\ pc[t] = "get_walk"
  /\ IF node[cur[t]].key = arg[t].key
     THEN /\ Call(t, arg[t].key, node[cur[t]].value)
          /\ Goto(t, "got", Null)
     ELSE /\ Goto(t, IF next[cur[t]] = Null THEN "got" ELSE "get_walk", next[cur[t]])
          /\ UNCHANGED arg
  /\ UNCHANGED <<memory, db, up, offset, out>>

GetReturn(t) ==
  /\ pc[t] = "got"
  /\ Call(t, NoCall.key, NoCall.value)
  /\ Goto(t, "idle", Null)
  /\ UNCHANGED <<memory, db, up, offset, out>>

(* put() looks at the head of the bucket.                                  *)
Put(t, k, v) ==
  /\ Call(t, k, v)
  /\ Goto(t, IF head[bucket[k]] = Null THEN "put_first" ELSE "put_walk", head[bucket[k]])

(* Every call of the program that puts dumps next.                         *)
PutBegin(t) ==
  /\ up /\ pc[t] = "idle"
  /\ \E p \in Puts : Put(t, p[1], p[2])
  /\ UNCHANGED <<memory, db, up, offset, out>>

AfterPut(t) ==
  IF up THEN Goto(t, "dump_open", Null) /\ UNCHANGED arg
        ELSE Goto(t, "idle", Null) /\ Call(t, NoCall.key, NoCall.value)

(* A mistake: the link of the new node is not cleared.                     *)
CreateUnset(t, links) ==
  /\ Len(node) < MaxNodes
  /\ node' = Append(node, arg[t])
  /\ \E n \in Node \cup {Null} : next' = Append(links, n)

(* create_hash_node(), with the links there are by then.  Bound: a thread  *)
(* waits when MaxNodes are allocated.                                      *)
Create(t, links) ==
  /\ Len(node) < MaxNodes
  /\ node' = Append(node, arg[t])
  /\ next' = Append(links, Null)

(* The bucket was empty when put() looked.                                 *)
PutFirst(t) ==
  /\ pc[t] = "put_first"
  /\ Create(t, next)
  /\ head' = [head EXCEPT ![bucket[arg[t].key]] = Len(node) + 1]
  /\ AfterPut(t)
  /\ UNCHANGED <<db, up, offset, out>>

(* A mistake: the node put() stands on is skipped.                         *)
PutWalkPast(t) ==
  /\ pc[t] = "put_walk"
  /\ LET n == next[cur[t]] IN
     IF n # Null /\ node[n].key = arg[t].key
     THEN /\ node' = [node EXCEPT ![n].value = arg[t].value]
          /\ AfterPut(t)
     ELSE /\ Goto(t, IF n = Null THEN "put_link" ELSE "put_walk",
                     IF n = Null THEN cur[t] ELSE n)
          /\ UNCHANGED <<node, arg>>
  /\ UNCHANGED <<head, next, db, up, offset, out>>

(* A mistake: the first node of the bucket is taken for the one of the key. *)
PutWalkFirst(t) ==
  /\ pc[t] = "put_walk"
  /\ node' = [node EXCEPT ![cur[t]].value = arg[t].value]
  /\ AfterPut(t)
  /\ UNCHANGED <<head, next, db, up, offset, out>>

(* The node of the key gets the value; from the last node, which may not   *)
(* stay the last one, put() goes on to link a new one.                     *)
PutWalk(t) ==
  /\ pc[t] = "put_walk"
  /\ LET n == cur[t] IN
     IF node[n].key = arg[t].key
     THEN /\ node' = [node EXCEPT ![n].value = arg[t].value]
          /\ AfterPut(t)
     ELSE /\ Goto(t, IF next[n] = Null THEN "put_link" ELSE "put_walk",
                     IF next[n] = Null THEN n ELSE next[n])
          /\ UNCHANGED <<node, arg>>
  /\ UNCHANGED <<head, next, db, up, offset, out>>

(* prev->next = create_hash_node(...)                                      *)
PutLink(t) ==
  /\ pc[t] = "put_link"
  /\ Create(t, [next EXCEPT ![cur[t]] = Len(node) + 1])
  /\ AfterPut(t)
  /\ UNCHANGED <<head, db, up, offset, out>>

-----------------------------------------------------------------------------
(***************************************************************************)
(* dump().                                                                 *)
(***************************************************************************)

(* fopen(path, "w")                                                        *)
DumpOpen(t) ==
  /\ pc[t] = "dump_open"
  /\ db' = <<>>
  /\ Goto(t, "dump_scan", 1)
  /\ UNCHANGED <<memory, up, offset, arg, out>>

(* A mistake: only the first node of a bucket is printed.                  *)
DumpScanHeads(t) ==
  /\ pc[t] = "dump_scan"
  /\ out' = [out EXCEPT ![t] = @ \o Text(SelectSeq(Chain(cur[t]), LAMBDA n : n = head[cur[t]]))]
  /\ Goto(t, IF cur[t] = Buckets THEN "dump_close" ELSE "dump_scan", cur[t] + 1)
  /\ UNCHANGED <<memory, db, up, offset, arg>>

(* fprintf() of the nodes of one bucket.                                   *)
DumpScan(t) ==
  /\ pc[t] = "dump_scan"
  /\ out' = [out EXCEPT ![t] = @ \o Text(Chain(cur[t]))]
  /\ Goto(t, IF cur[t] = Buckets THEN "dump_close" ELSE "dump_scan", cur[t] + 1)
  /\ UNCHANGED <<memory, db, up, offset, arg>>

(* fclose(): the text goes to the kernel.                                  *)
DumpClose(t) ==
  /\ pc[t] = "dump_close"
  /\ db' = Overwrite(db, out[t])
  /\ Goto(t, "idle", Null)
  /\ Call(t, NoCall.key, NoCall.value)
  /\ out' = [out EXCEPT ![t] = <<>>]
  /\ UNCHANGED <<memory, up, offset>>

-----------------------------------------------------------------------------
(***************************************************************************)
(* Crash and start.                                                        *)
(***************************************************************************)

(* The client is killed, or dies while it starts, and is started again.    *)
(* Of the text of a dump() under way the kernel has a part: stdio's buffer *)
(* goes to it whenever it is full, wherever that cuts the text.            *)
Crash ==
  /\ head' = NoTable /\ next' = <<>> /\ node' = <<>>
  /\ up' = FALSE
  /\ pc' = All("idle") /\ arg' = All(NoCall) /\ cur' = All(Null)
  /\ out' = All(<<>>)
  /\ contended' = {} /\ tangled' = FALSE /\ seen' = All({})
  /\ up
  /\ \/ UNCHANGED db
     \/ \E t \in Thread : \E n \in 1..Len(out[t]) :
          db' = Overwrite(db, SubSeq(out[t], 1, n))
  /\ offset' = 0

(* read_from_database() runs before the threads of FUSE: one thread puts  *)
(* line after line.                                                        *)
ReadLine(t) ==
  /\ ~up /\ pc = All("idle")
  /\ offset < Len(db)
  /\ offset' = Min({i \in Ends(db) : i > offset})
  /\ LET line == LineTo(db, offset')
         e == Entry(line)
     IN /\ ~Faults(line)
        /\ IF e = NoEntry THEN UNCHANGED thread
                          ELSE Put(t, e.key, e.value) /\ UNCHANGED out
  /\ UNCHANGED <<memory, db, up>>

Started ==
  /\ ~up /\ pc = All("idle")
  /\ offset = Len(db)
  /\ up' = TRUE /\ offset' = 0
  /\ UNCHANGED <<memory, db, thread>>

-----------------------------------------------------------------------------
Step(t) ==
  \/ GetWalk(t) \/ GetReturn(t)
  \/ PutFirst(t) \/ PutWalk(t) \/ PutLink(t)
  \/ DumpOpen(t) \/ DumpScan(t) \/ DumpClose(t)

(* History.                                                                *)
InsertingTogether ==
  {bucket[arg[t].key] : t \in {t \in Thread :
     Inserting(t) /\ \E u \in Thread \ {t} :
       Inserting(u) /\ bucket[arg[u].key] = bucket[arg[t].key]}}

Dumping == {t \in Thread : pc[t] \in DumpSteps}

Getting(t) == pc[t] \in {"get_walk", "got"}

Track ==
  /\ contended' = contended \cup InsertingTogether'
  /\ tangled' = \/ Cardinality(Dumping') > 1
                \/ tangled /\ (Dumping # {} \/ Dumping' = {})
  /\ seen' = [t \in Thread |->
                IF ~Getting(t)' THEN {}
                ELSE seen[t] \cup {Lookup(arg[t].key)'}]

Run(t) == (GetBegin(t) \/ PutBegin(t) \/ ReadLine(t) \/ Step(t)) /\ Track

HashNext == (\E t \in Thread : Run(t)) \/ (Started /\ Track) \/ Crash

HashSpec == HashInit /\ [][HashNext]_hashVars

-----------------------------------------------------------------------------
HashTypeOK ==
  /\ head \in [1..Buckets -> 0..Len(node)]
  /\ Len(node) \in 0..MaxNodes
  /\ node \in [DOMAIN node -> [key : Key, value : Stored]]
  /\ next \in [DOMAIN node -> 0..Len(node)]
  /\ up \in BOOLEAN
  /\ pc \in [Thread -> PC]
  /\ arg \in [Thread -> [key : Key, value : Stored \cup {NotFound}]]
  /\ contended \subseteq 1..Buckets
  /\ tangled \in BOOLEAN

(***************************************************************************)
(* Properties.                                                             *)
(***************************************************************************)

(* Whatever put()s overlap, a chain leads to nodes of its own bucket, each *)
(* made later than the one before it: every walk stays in its bucket and   *)
(* comes to an end.                                                        *)
ChainsEnd ==
  /\ \A b \in 1..Buckets : head[b] # Null => bucket[node[head[b]].key] = b
  /\ \A n \in DOMAIN node :
       next[n] # Null => next[n] > n /\ bucket[node[next[n]].key] = bucket[node[n].key]

(* Whatever put()s overlap, no key is in the table twice: an update never  *)
(* goes to a node that get() does not look at.                             *)
NoKeyTwice ==
  \A b \in 1..Buckets :
    \A m, n \in ToSet(Chain(b)) : node[m].key = node[n].key => m = n

(* As long as no two new keys are put into one bucket at the same time,    *)
(* the table does what StampTable says, and a change of it is that of a    *)
(* put() under way: no put() ever disturbs another key, whatever updates,  *)
(* insertions elsewhere, walks and dumps overlap.                          *)
Table == [k \in Key |-> Lookup(k)]

Promise == INSTANCE StampTable WITH Stamp <- Stored, table <- Table

OwnPut == \E t \in Thread : Promise!PutStamp(arg[t].key, arg[t].value)

TableIsKept == [][contended' = {} => [Promise!Forget \/ OwnPut]_Table]_hashVars

(* As long as no two new keys are put into its bucket at the same time,    *)
(* get() returns a value the table had for its key while it ran: the walk  *)
(* is not led astray by nodes that are linked or updated meanwhile.  (With *)
(* two new keys it may be: a get() that stands on a node that is lost sees *)
(* what a third thread that stands there, too, puts into it.)              *)
GetIsRegular ==
  \A t \in Thread :
    pc[t] = "got" /\ bucket[arg[t].key] \notin contended => arg[t].value \in seen[t]

(* When no put() or dump() is under way and no two dump()s overlapped, the *)
(* database restores the table there is: a crash then loses no flag and no *)
(* time, and the client starts again.                                      *)
DatabaseIsTable ==
  up /\ ~tangled /\ (\A t \in Thread : pc[t] \in {"idle", "get_walk", "got"}) =>
    /\ \A i \in Ends(db) : ~Faults(LineTo(db, i))
    /\ \A k \in Key : LookupIn(db, k) = Lookup(k)

=============================================================================
