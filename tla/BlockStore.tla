---------------------------- MODULE BlockStore ----------------------------
(***************************************************************************)
(* The SSD tier of the prefix cache (src/src/cache/block_store.cpp) under  *)
(* the RAM pool that feeds it (src/src/cache/block_pool.cpp and the hooks  *)
(* of src/src/runtime/worker.cpp): the worker thread looks blocks up,      *)
(* inserts them and spills what the pool evicts; the writer thread turns   *)
(* queued blocks into files, a temporary name first, and deletes the least *)
(* recently used ones beyond the budget.  The process may be killed        *)
(* between any two steps, and started again for another model: only the    *)
(* directory survives.                                                     *)
(*                                                                         *)
(* A block is identified by the token prefix it stands for; its key is a   *)
(* digest of the salt and the prefix, and digests of different salts may   *)
(* collide.  Recency stamps only order the index, so the index is kept in  *)
(* stamp order, and the directory in order of modification time.           *)
(***************************************************************************)
EXTENDS SeqOps, SequencesExt, FiniteSetsExt

CONSTANTS
    Block,       \* the token prefixes whose K/V may be cached
    Salt,        \* fingerprints of model and storage configuration
    HashOf,      \* [Salt -> [Block -> key]], chain_hash seeded with the salt
    Size,        \* bytes of a block
    PoolBytes,   \* pool budget (0 = unbounded)
    SpillBytes,  \* disk budget (0 = unbounded)
    MaxFiles,    \* bound: files that earlier runs left in the directory
    MaxLives     \* bound: how often the process is started

Hash == UNION {{HashOf[s][b] : b \in Block} : s \in Salt}

(* Within one model two prefixes do not collide.                           *)
ASSUME HashAssumption ==
    \A s \in Salt : \A a, b \in Block : HashOf[s][a] = HashOf[s][b] => a = b
ASSUME SizeAssumption ==
    /\ \A b \in Block : Size[b] \in Nat \ {0}
    /\ {PoolBytes, SpillBytes, MaxFiles, MaxLives} \subseteq Nat

VARIABLES
    disk,     \* *.kvb files, oldest first: [hash, file]
    tmp,      \* keys that have a .kvb.tmp file
    lives,    \* how often the process was started
    salt,     \* salt_ of the running process
    index,    \* keys of index_, smallest stamp first
    bytes,    \* bytes_
    queue,    \* queue_: [hash, file] jobs
    stop,     \* stop_
    writer,   \* "down", or where writer_loop is
    job,      \* the job the writer copied
    lru,      \* the RAM pool, most recent first: [hash, block] entries
    worker,   \* "down", "idle", or where the worker is inside match or harvest
    arg,      \* the prefix the worker is looking up or inserting
    got       \* what the finished lookup returned: a block's contents or None

diskVars == <<disk, tmp>>
storeVars == <<index, bytes, queue, stop>>
writerVars == <<writer, job>>
workerVars == <<lru, worker, arg, got>>
vars == <<diskVars, lives, salt, storeVars, writerVars, workerVars>>

None == [salt |-> "none", block |-> "none"]
NoJob == [hash |-> "none", file |-> None]
(* A file of another format version, or cut short.                         *)
Foreign == [salt |-> "none", block |-> "foreign"]

AnyFile == {Foreign} \cup [salt : Salt, block : Block]

(* What serialize_block writes is the K/V of a prefix under a model, with
   the model's salt in front of it.                                        *)
SerializeBlock(b) == [salt |-> salt, block |-> b]

(* A slip: the salt in the file is read and not compared.                  *)
DeserializeUnsalted(file) == IF file # Foreign THEN file ELSE None

(* deserialize_block: magic, version and salt must match, and every
   component must be there in full; otherwise the caller sees a miss.      *)
DeserializeBlock(file) ==
    IF file # Foreign /\ file.salt = salt THEN file ELSE None

FileBytes(file) == IF file.block \in Block THEN Size[file.block] ELSE 1
Hashes(seq) == {seq[i].hash : i \in 1 .. Len(seq)}
Without(seq, x) == Keep(seq, Range(seq) \ {x})
Key(b) == HashOf[salt][b]
Entry(seq, h) == seq[CHOOSE i \in 1 .. Len(seq) : seq[i].hash = h]
PoolSize(l) == Total([i \in DOMAIN l |-> FileBytes(l[i].block)])
DirBytes(d) == Total([i \in DOMAIN d |-> FileBytes(d[i].file)])

(* The directory may hold what earlier runs of any model left in it.       *)
Init ==
    /\ disk \in UNION {[1 .. n -> [hash : Hash, file : AnyFile]] : n \in 0 .. MaxFiles}
    /\ \A i \in 1 .. Len(disk) : LET f == disk[i].file IN
          f # Foreign => HashOf[f.salt][f.block] = disk[i].hash
    /\ \A i, j \in 1 .. Len(disk) : disk[i].hash = disk[j].hash => i = j
    /\ tmp = {}
    /\ lives = 0 /\ salt = CHOOSE s \in Salt : TRUE
    /\ index = <<>> /\ bytes = 0 /\ queue = <<>> /\ stop = FALSE
    /\ writer = "down" /\ job = NoJob
    /\ lru = <<>> /\ worker = "down" /\ arg = None.block /\ got = None

-----------------------------------------------------------------------------
(* The process.                                                            *)

(* The constructor indexes every file of the directory, oldest first, and
   starts the writer.  Nothing is evicted yet, and temporary files are not
   looked at.                                                              *)
Start(s) ==
    /\ worker = "down" /\ writer = "down" /\ lives < MaxLives
    /\ lives' = lives + 1
    /\ salt' = s
    /\ index' = [i \in 1 .. Len(disk) |-> disk[i].hash]
    /\ bytes' = DirBytes(disk)
    /\ writer' = "wait" /\ worker' = "idle"
    /\ UNCHANGED <<diskVars, queue, stop, job, lru, arg, got>>

(* A kill, at any point: memory is gone, files are as they are.            *)
Crash ==
    /\ worker # "down" \/ writer # "down"
    /\ index' = <<>> /\ bytes' = 0 /\ queue' = <<>> /\ stop' = FALSE
    /\ writer' = "down" /\ job' = NoJob
    /\ lru' = <<>> /\ worker' = "down" /\ arg' = None.block /\ got' = None
    /\ UNCHANGED <<diskVars, lives, salt>>

(* The destructor runs when the worker thread has left its loop; the pool
   is destroyed without its hook being called.                             *)
Shutdown ==
    /\ worker = "idle"
    /\ stop' = TRUE
    /\ worker' = "joining" /\ lru' = <<>> /\ got' = None
    /\ UNCHANGED <<diskVars, lives, salt, index, bytes, queue, writerVars, arg>>

Joined ==
    /\ worker = "joining" /\ writer = "exited"
    /\ worker' = "down" /\ writer' = "down"
    /\ index' = <<>> /\ bytes' = 0 /\ stop' = FALSE
    /\ UNCHANGED <<diskVars, lives, salt, queue, job, lru, arg, got>>

-----------------------------------------------------------------------------
(* The worker thread: PrefixCache::match for one block, and insert.        *)

(* BlockPool::get, which also makes the entry the most recent one.         *)
MatchHit(b) ==
    /\ worker = "idle" /\ Key(b) \in Hashes(lru)
    /\ LET e == Entry(lru, Key(b)) IN
         /\ lru' = <<e>> \o Without(lru, e)
         /\ got' = e.block
    /\ arg' = b
    /\ UNCHANGED <<diskVars, lives, salt, storeVars, writerVars, worker>>

(* BlockPool::insert of a block the pool does not hold: one above the whole
   budget is not admitted.  Eviction follows.                              *)
OverPool(l) == PoolBytes # 0 /\ PoolSize(l) > PoolBytes /\ l # <<>>
AfterEviction(l) == IF OverPool(l) THEN "evict" ELSE "idle"
Insert(b, block) ==
    /\ lru' = IF PoolBytes # 0 /\ FileBytes(block) > PoolBytes THEN lru
              ELSE <<[hash |-> Key(b), block |-> block]>> \o lru
    /\ worker' = AfterEviction(lru')

(* What match() does with the miss hook's answer: a revived block goes back
   into the pool.                                                          *)
Revive(b, block) ==
    /\ got' = block
    /\ IF block = None THEN worker' = "idle" /\ UNCHANGED lru ELSE Insert(b, block)

(* A key that gets the next stamp is the last of the index.                *)
Bumped(h) == Append(Without(index, h), h)

(* BlockStore::get under the lock: an indexed key is bumped and its file is
   read later, without the lock; a key still queued is served from there.  *)
MatchMiss(b) ==
    /\ worker = "idle" /\ Key(b) \notin Hashes(lru)
    /\ arg' = b
    /\ IF Key(b) \in Range(index)
       THEN /\ index' = Bumped(Key(b))
            /\ worker' = "read" /\ got' = None /\ UNCHANGED lru
       ELSE /\ UNCHANGED index
            /\ Revive(b, IF Key(b) \in Hashes(queue)
                         THEN DeserializeBlock(Entry(queue, Key(b)).file) ELSE None)
    /\ UNCHANGED <<diskVars, lives, salt, bytes, queue, stop, writerVars>>

(* BlockStore::get after the lock: the file may be gone by now.            *)
ReadFile ==
    /\ worker = "read"
    /\ Revive(arg, IF Key(arg) \in Hashes(disk)
                   THEN DeserializeBlock(Entry(disk, Key(arg)).file) ELSE None)
    /\ UNCHANGED <<diskVars, lives, salt, storeVars, writerVars, arg>>

(* A harvest seals a block the pool does not hold, computed by the model.  *)
Harvest(b) ==
    /\ worker = "idle" /\ Key(b) \notin Hashes(lru)
    /\ arg' = b /\ got' = SerializeBlock(b)
    /\ Insert(b, SerializeBlock(b))
    /\ UNCHANGED <<diskVars, lives, salt, storeVars, writerVars>>

Victim == lru[Len(lru)]
OnStore(h) == h \in Range(index) \cup Hashes(queue)

(* The evict hook first asks contains(), in a critical section of its own. *)
EvictAsk ==
    /\ worker = "evict"
    /\ IF OnStore(Victim.hash)
       THEN lru' = Front(lru) /\ worker' = AfterEviction(lru')
       ELSE worker' = "put" /\ UNCHANGED lru
    /\ UNCHANGED <<diskVars, lives, salt, storeVars, writerVars, arg, got>>

(* put(), which looks at the index only.  The block was serialized before. *)
EvictPut ==
    /\ worker = "put"
    /\ queue' = IF Victim.hash \in Range(index) THEN queue
                ELSE Append(queue, [hash |-> Victim.hash, file |-> Victim.block])
    /\ lru' = Front(lru)
    /\ worker' = AfterEviction(lru')
    /\ UNCHANGED <<diskVars, lives, salt, index, bytes, stop, writerVars, arg, got>>

-----------------------------------------------------------------------------
(* The writer thread.                                                      *)

(* A slip: the job leaves the queue when the writer picks it up.           *)
TakeJobOut ==
    /\ writer = "wait" /\ queue # <<>>
    /\ job' = queue[1] /\ writer' = "write"
    /\ queue' = Tail(queue)
    /\ UNCHANGED <<diskVars, lives, salt, index, bytes, stop, workerVars>>

(* The slip of a writer that leaves as soon as it is told to.              *)
WriterExitsAtOnce ==
    /\ writer = "wait" /\ stop
    /\ writer' = "exited"
    /\ UNCHANGED <<diskVars, lives, salt, storeVars, job, workerVars>>

(* The job is copied, not taken: it stays visible to get and contains.     *)
TakeJob ==
    /\ writer = "wait" /\ queue # <<>>
    /\ job' = queue[1] /\ writer' = "write"
    /\ UNCHANGED <<diskVars, lives, salt, storeVars, workerVars>>

WriterExits ==
    /\ writer = "wait" /\ stop /\ queue = <<>>
    /\ writer' = "exited"
    /\ UNCHANGED <<diskVars, lives, salt, storeVars, job, workerVars>>

(* Opening or writing the temporary file may fail; it is there from the
   moment it is opened.                                                    *)
WriteTmp ==
    /\ writer = "write"
    /\ \/ tmp' = tmp \cup {job.hash} /\ writer' \in {"rename", "drop"}
       \/ UNCHANGED tmp /\ writer' = "drop"
    /\ UNCHANGED <<disk, lives, salt, storeVars, job, workerVars>>

Renamed(h, file) ==
    Append(Keep(disk, {f \in Range(disk) : f.hash # h}), [hash |-> h, file |-> file])

RenameTmp ==
    /\ writer = "rename"
    /\ \/ /\ disk' = Renamed(job.hash, job.file)
          /\ tmp' = tmp \ {job.hash}
          /\ writer' = "commit"
       \/ UNCHANGED <<disk, tmp>> /\ writer' = "drop"
    /\ UNCHANGED <<lives, salt, storeVars, job, workerVars>>

(* A failed write: its temporary file is removed, then the job is dropped. *)
DropJob ==
    /\ writer = "drop"
    /\ tmp' = tmp \ {job.hash}
    /\ queue' = Tail(queue)
    /\ writer' = "wait" /\ job' = NoJob
    /\ UNCHANGED <<disk, lives, salt, index, bytes, stop, workerVars>>

(* A slip: eviction starts when the budget is exceeded by a whole file.    *)
OverhangLax(idx, n) ==
    IF SpillBytes = 0 \/ n <= 2 * SpillBytes THEN 0 ELSE Len(idx) - 1

(* evict_to_budget_locked, on an index idx worth n bytes: the smallest number
   of oldest entries whose deletion meets the budget; one always stays.     *)
EntryBytes(idx, k) == Total([i \in 1 .. k |-> FileBytes(Entry(disk, idx[i]).file)])
Enough(idx, n, k) == n - EntryBytes(idx, k) <= SpillBytes \/ Len(idx) - k <= 1
Overhang(idx, n) ==
    IF SpillBytes = 0 \/ n <= SpillBytes THEN 0
    ELSE CHOOSE k \in 0 .. Len(idx) :
           Enough(idx, n, k) /\ \A j \in 0 .. k - 1 : ~Enough(idx, n, j)

(* A slip: the index is updated and the file is left where it is.          *)
CommitKeepsFiles ==
    /\ writer = "commit"
    /\ \E idx \in {Bumped(job.hash)}, n \in {bytes + FileBytes(job.file)} :
         \E cut \in {Overhang(idx, n)} :
           /\ index' = SubSeq(idx, cut + 1, Len(idx))
           /\ bytes' = n - EntryBytes(idx, cut)
    /\ queue' = Tail(queue)
    /\ writer' = "wait" /\ job' = NoJob
    /\ UNCHANGED <<diskVars, lives, salt, stop, workerVars>>

(* The end of a successful write: index, eviction and queue in one critical
   section.                                                                *)
CommitJob ==
    /\ writer = "commit"
    /\ \E idx \in {Bumped(job.hash)}, n \in {bytes + FileBytes(job.file)} :
         \E cut \in {Overhang(idx, n)} :
           /\ index' = SubSeq(idx, cut + 1, Len(idx))
           /\ bytes' = n - EntryBytes(idx, cut)
           /\ disk' = Keep(disk, {f \in Range(disk) : f.hash \notin Range(SubSeq(idx, 1, cut))})
    /\ queue' = Tail(queue)
    /\ writer' = "wait" /\ job' = NoJob
    /\ UNCHANGED <<tmp, lives, salt, stop, workerVars>>

-----------------------------------------------------------------------------
Worker ==
    \/ \E b \in Block : MatchHit(b) \/ MatchMiss(b) \/ Harvest(b)
    \/ ReadFile \/ EvictAsk \/ EvictPut
Writer == TakeJob \/ WriterExits \/ WriteTmp \/ RenameTmp \/ DropJob \/ CommitJob
Next ==
    \/ \E s \in Salt : Start(s)
    \/ Crash \/ Shutdown \/ Joined
    \/ Worker \/ Writer

Fairness == WF_vars(Writer) /\ WF_vars(Joined)
Spec == Init /\ [][Next]_vars /\ Fairness

-----------------------------------------------------------------------------
TypeOK ==
    /\ Range(index) \subseteq Hash /\ Hashes(disk) \cup tmp \subseteq Hash
    /\ bytes \in Nat /\ stop \in BOOLEAN /\ lives \in 0 .. MaxLives
    /\ writer \in {"down", "wait", "write", "rename", "drop", "commit", "exited"}
    /\ worker \in {"down", "idle", "read", "evict", "put", "joining"}

(* What a lookup returns and what the pool holds is the K/V of the prefix it
   was asked for, computed by the model that is running: never a block of
   another model whose key collides, nor a file the reader cannot parse
   (block_store.h: a file can never be revived for a different model).     *)
RevivedIsOwn ==
    /\ got # None => got = SerializeBlock(arg)
    /\ \A i \in 1 .. Len(lru) :
          LET e == lru[i] IN e.block.salt = salt /\ Key(e.block.block) = e.hash

(* The index tells the truth about the directory: every indexed file exists,
   the only file without an entry is the one just renamed, and no key is
   queued twice or both queued and indexed: a block spilled, revived and
   spilled again is written once.                                          *)
IndexMatchesDisk ==
    writer # "down" /\ worker # "down" =>
      /\ Range(index) \subseteq Hashes(disk)
      /\ Hashes(disk) \ Range(index)
           \subseteq (IF writer = "commit" THEN {job.hash} ELSE {})
      /\ \A i, j \in 1 .. Len(queue) : queue[i].hash = queue[j].hash => i = j
      /\ Hashes(queue) \cap Range(index) = {}

(* The writer never loses a hit: a block that was handed to the store stays
   in its queue or index while its file is written, and leaves only when its
   write failed, for the disk budget, or with the process.                 *)
NeverLosesAHit ==
    [][\A h \in Hash : OnStore(h) /\ ~OnStore(h)' =>
         \/ writer' = "down"
         \/ writer = "drop" /\ job.hash = h
         \/ writer = "commit" /\ bytes + FileBytes(job.file) > SpillBytes]_vars

(* After a write the byte count is that of the files, and the directory is
   within its budget, or down to one file: the restart that finds too much
   on disk pays it back at the first write.                                *)
BudgetAfterWrite ==
    [][writer = "commit" /\ writer' = "wait" =>
         /\ bytes' = DirBytes(disk')
         /\ \/ SpillBytes = 0
            \/ DirBytes(disk') <= SpillBytes
            \/ Len(disk') = 1]_vars

(* Closing the store drains it: what is queued at shutdown has been written,
   or tried, when the destructor returns, which it does.                   *)
ShutdownDrains ==
    /\ [][Joined => queue = <<>>]_vars
    /\ worker = "joining" ~> worker = "down"
=============================================================================
