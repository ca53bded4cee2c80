------------------------- MODULE BlockStoreProofs -------------------------
(***************************************************************************)
(* The SSD tier returns only blocks of the running model, its index tells  *)
(* the truth about the directory, its writer loses nothing and keeps the   *)
(* budget, for every set of blocks and models, every budget, every content *)
(* of the directory and any number of kills and restarts.                  *)
(***************************************************************************)
EXTENDS BlockStore, SeqLemmas

(* What the store and the pool hold while the model with salt s runs.      *)
OwnJob(s) == {[hash |-> HashOf[s][b], file |-> [salt |-> s, block |-> b]] : b \in Block}
OwnEntry(s) == {[hash |-> HashOf[s][b], block |-> [salt |-> s, block |-> b]] : b \in Block}

(* A file under a key is one that the reader rejects, or a block with it.  *)
DiskEntry ==
    {d \in [hash : Hash, file : AnyFile] :
       d.file # Foreign => HashOf[d.file.salt][d.file.block] = d.hash}

Types ==
    /\ disk \in Seq(DiskEntry) /\ index \in Seq(Hash)
    /\ queue \in Seq(OwnJob(salt)) /\ lru \in Seq(OwnEntry(salt))
    /\ bytes \in Int /\ stop \in BOOLEAN
    /\ writer \in {"down", "wait", "write", "rename", "drop", "commit", "exited"}
    /\ worker \in {"down", "idle", "read", "evict", "put", "joining"}
    /\ worker # "down" => salt \in Salt

(* The two threads come and go together; the store closes when the pool is
   gone, and the writer leaves an empty queue behind.                      *)
Threads ==
    /\ worker = "down" <=> writer = "down"
    /\ worker = "down" => index = <<>> /\ queue = <<>>
    /\ worker \in {"down", "joining"} => lru = <<>> /\ got = None
    /\ stop <=> worker = "joining"
    /\ writer = "exited" => stop /\ queue = <<>>

(* What the worker relies on between two critical sections: only it adds to
   the queue, so what contains() denied is still neither queued nor indexed
   when put() is called.                                                   *)
WorkerKnows ==
    /\ worker = "read" => arg \in Block
    /\ worker \in {"evict", "put"} => lru # <<>>
    /\ worker = "put" => ~OnStore(Victim.hash)

(* The job being written stays the first of the queue.                     *)
WriterKnows ==
    /\ writer \in {"write", "rename", "drop", "commit"} => queue # <<>> /\ job = queue[1]
    /\ writer = "commit" => job.hash \in Hashes(disk)

(* One file, one index entry and one job per key.                          *)
OnePerKey ==
    /\ \A i, j \in 1 .. Len(disk) : disk[i].hash = disk[j].hash => i = j
    /\ \A i, j \in 1 .. Len(queue) : queue[i].hash = queue[j].hash => i = j
    /\ Distinct(index)
    /\ Hashes(queue) \cap Range(index) = {}

(* What is indexed is on disk, and the converse but for the write that is
   about to be committed.                                                  *)
IndexTruth ==
    worker # "down" =>
      /\ Range(index) \subseteq Hashes(disk)
      /\ Hashes(disk) \subseteq Range(index) \cup (IF writer = "commit" THEN {job.hash} ELSE {})

GotOwn == got # None => got = SerializeBlock(arg)

IInv ==
    /\ Types /\ Threads
    /\ WorkerKnows /\ WriterKnows
    /\ OnePerKey /\ IndexTruth /\ GotOwn

-----------------------------------------------------------------------------
(* The operators.                                                          *)

(* A queued block is a file that the directory may hold.                   *)
LEMMA OwnJobsAreFiles ==
    ASSUME NEW s \in Salt
    PROVE  OwnJob(s) \subseteq DiskEntry
BY DEF OwnJob, DiskEntry, AnyFile, Hash

(* The pool and the queue know a block by its key: within one model there is one
   block per key.                                                          *)
LEMMA OwnByKey ==
    ASSUME NEW s \in Salt, NEW b \in Block
    PROVE  /\ \A e \in OwnEntry(s) : e.hash = HashOf[s][b] => e.block = [salt |-> s, block |-> b]
           /\ \A e \in OwnJob(s) : e.hash = HashOf[s][b] => e.file = [salt |-> s, block |-> b]
           /\ HashOf[s][b] \in Hash
           /\ \A e \in OwnEntry(s) : e.hash \in Hash /\ [hash |-> e.hash, file |-> e.block] \in OwnJob(s)
BY HashAssumption DEF OwnEntry, OwnJob, Hash

(* A file that deserialize_block accepts under the key of a block is that block. *)
LEMMA ReadIsOwn ==
    ASSUME salt \in Salt, NEW b \in Block, NEW d \in DiskEntry, d.hash = Key(b)
    PROVE  DeserializeBlock(d.file) \in {None, SerializeBlock(b)}
<1>1. CASE d.file # Foreign /\ d.file.salt = salt
  <2>1. d.file \in [salt : Salt, block : Block] /\ HashOf[salt][d.file.block] = HashOf[salt][b]
    BY <1>1 DEF DiskEntry, AnyFile, Key
  <2>2. d.file.block = b
    BY <2>1, HashAssumption
  <2> QED BY <1>1, <2>1, <2>2 DEF DeserializeBlock, SerializeBlock
<1>2. CASE ~(d.file # Foreign /\ d.file.salt = salt)
  BY <1>2 DEF DeserializeBlock
<1> QED BY <1>1, <1>2

(* The element that Entry finds is one of the sequence, with that key.     *)
LEMMA EntryIsThere ==
    ASSUME NEW A, NEW s \in Seq(A), NEW h \in Hashes(s)
    PROVE  Entry(s, h) \in A /\ Entry(s, h).hash = h
<1>1. \E i \in 1 .. Len(s) : s[i].hash = h
  BY DEF Hashes
<1> DEFINE i == CHOOSE i \in 1 .. Len(s) : s[i].hash = h
<1>2. i \in 1 .. Len(s) /\ s[i].hash = h
  BY <1>1
<1> HIDE DEF i
<1>3. s[i] \in A
  BY <1>2
<1> QED BY <1>2, <1>3 DEF Entry, i

(* The first job leaves the queue: its key and no other does.              *)
LEMMA QueueTail ==
    ASSUME NEW A, NEW q \in Seq(A), q # <<>>,
           \A i, j \in 1 .. Len(q) : q[i].hash = q[j].hash => i = j
    PROVE  /\ Tail(q) \in Seq(A)
           /\ Hashes(Tail(q)) = Hashes(q) \ {q[1].hash}
           /\ q[1] \in A /\ q[1].hash \in Hashes(q)
           /\ \A i, j \in 1 .. Len(Tail(q)) : Tail(q)[i].hash = Tail(q)[j].hash => i = j
<1> DEFINE t == Tail(q)
<1>1. /\ t \in Seq(A) /\ Len(t) = Len(q) - 1 /\ Len(q) \in Nat \ {0}
      /\ \A i \in 1 .. Len(q) - 1 : t[i] = q[i + 1]
  BY HeadTailProperties, EmptySeq
<1>2. 1 \in 1 .. Len(q) /\ \A i \in 1 .. Len(q) - 1 : i + 1 \in 1 .. Len(q) /\ i + 1 # 1
  BY <1>1
<1> HIDE DEF t
<1>3. \A i, j \in 1 .. Len(t) : t[i].hash = t[j].hash => i = j
  <2> SUFFICES ASSUME NEW i \in 1 .. Len(t), NEW j \in 1 .. Len(t), t[i].hash = t[j].hash
               PROVE  i = j
    OBVIOUS
  <2>1. i \in 1 .. Len(q) - 1 /\ j \in 1 .. Len(q) - 1
    BY <1>1
  <2>2. i + 1 \in 1 .. Len(q) /\ j + 1 \in 1 .. Len(q) /\ q[i + 1].hash = q[j + 1].hash
    BY <1>1, <1>2, <2>1
  <2>3. i + 1 = j + 1
    BY <2>2
  <2> QED BY <2>1, <2>3
<1>4. ASSUME NEW h \in Hashes(t) PROVE h \in Hashes(q) \ {q[1].hash}
  <2>1. PICK i \in 1 .. Len(t) : t[i].hash = h
    BY DEF Hashes
  <2>2. i \in 1 .. Len(q) - 1 /\ t[i] = q[i + 1]
    BY <1>1
  <2>3. i + 1 \in 1 .. Len(q) /\ i + 1 # 1 /\ q[i + 1].hash = h
    BY <1>2, <2>1, <2>2
  <2>4. q[1].hash # h
    BY <1>2, <2>3
  <2> QED BY <2>3, <2>4 DEF Hashes
<1>5. ASSUME NEW h \in Hashes(q), h # q[1].hash PROVE h \in Hashes(t)
  <2>1. PICK i \in 1 .. Len(q) : q[i].hash = h
    BY DEF Hashes
  <2>2. i - 1 \in 1 .. Len(q) - 1 /\ i - 1 + 1 = i
    BY <1>1, <1>5, <2>1
  <2>3. t[i - 1] = q[i]
    BY <1>1, <2>2
  <2> QED BY <1>1, <2>1, <2>2, <2>3 DEF Hashes
<1>6. q[1] \in A /\ q[1].hash \in Hashes(q)
  BY <1>1, <1>2 DEF Hashes
<1> QED BY <1>1, <1>3, <1>4, <1>5, <1>6 DEF t

(* A job is added behind the others.                                       *)
LEMMA QueueAppend ==
    ASSUME NEW A, NEW q \in Seq(A), NEW x \in A
    PROVE  /\ Append(q, x) \in Seq(A) /\ Append(q, x) # <<>>
           /\ Hashes(Append(q, x)) = Hashes(q) \cup {x.hash}
           /\ q # <<>> => Append(q, x)[1] = q[1]
           /\ (/\ \A i, j \in 1 .. Len(q) : q[i].hash = q[j].hash => i = j
               /\ x.hash \notin Hashes(q)) =>
                \A i, j \in 1 .. Len(Append(q, x)) :
                    Append(q, x)[i].hash = Append(q, x)[j].hash => i = j
<1> DEFINE a == Append(q, x)
<1>1. /\ a \in Seq(A) /\ Len(a) = Len(q) + 1
      /\ \A i \in 1 .. Len(q) : a[i] = q[i]
      /\ a[Len(q) + 1] = x
  BY AppendProperties
<1>2. Len(q) \in Nat /\ \A i \in 1 .. Len(q) + 1 : i \in 1 .. Len(q) \/ i = Len(q) + 1
  OBVIOUS
<1>3. Len(q) + 1 \in 1 .. Len(q) + 1 /\ \A i \in 1 .. Len(q) : i \in 1 .. Len(q) + 1
  OBVIOUS
<1> HIDE DEF a
<1>4. Hashes(a) = Hashes(q) \cup {x.hash}
  BY <1>1, <1>2, <1>3 DEF Hashes
<1>5. q # <<>> => a[1] = q[1]
  BY <1>1, <1>2, EmptySeq
<1>6. ASSUME \A i, j \in 1 .. Len(q) : q[i].hash = q[j].hash => i = j, x.hash \notin Hashes(q),
             NEW i \in 1 .. Len(a), NEW j \in 1 .. Len(a), a[i].hash = a[j].hash
      PROVE  i = j
  <2>1. \A m \in 1 .. Len(q) : q[m].hash # x.hash
    BY <1>6 DEF Hashes
  <2> QED BY <1>1, <1>2, <1>6, <2>1
<1>7. a # <<>>
  BY <1>1, <1>2, EmptySeq
<1> QED BY <1>1, <1>4, <1>5, <1>6, <1>7 DEF a

(* A bumped key is in the index, once, and no other key has left it.       *)
LEMMA BumpedIndex ==
    ASSUME index \in Seq(Hash), Distinct(index), NEW h \in Hash
    PROVE  /\ Bumped(h) \in Seq(Hash) /\ Distinct(Bumped(h))
           /\ Range(Bumped(h)) = Range(index) \cup {h}
<1> DEFINE k == Without(index, h)
<1>1. /\ k \in Seq(Hash) /\ Distinct(k) /\ Range(k) = Range(index) \ {h}
  BY KeepEmbeds, KeepDistinct, KeepRange DEF Without
<1> HIDE DEF k
<1>2. Append(k, h) \in Seq(Hash) /\ Range(Append(k, h)) = Range(k) \cup {h}
  BY <1>1, AppendRange
<1>3. Distinct(Append(k, h))
  <2>1. /\ Len(Append(k, h)) = Len(k) + 1 /\ Len(k) \in Nat
        /\ \A i \in 1 .. Len(k) : Append(k, h)[i] = k[i]
        /\ Append(k, h)[Len(k) + 1] = h
    BY <1>1, AppendProperties
  <2>2. \A i \in 1 .. Len(k) : k[i] # h
    <3>1. DOMAIN k = 1 .. Len(k)
      BY <1>1
    <3> QED BY <1>1, <3>1 DEF Range
  <2>3. \A i \in 1 .. Len(k) + 1 : i \in 1 .. Len(k) \/ i = Len(k) + 1
    BY <2>1
  <2> QED BY <1>1, <2>1, <2>2, <2>3 DEF Distinct
<1> QED BY <1>1, <1>2, <1>3 DEF Bumped, k

(* Every file has a size.                                                  *)
LEMMA SizesAreInt ==
    /\ \A f : FileBytes(f) \in Nat
    /\ \A d \in Seq(DiskEntry) : DirBytes(d) \in Int
    /\ \A idx, k : k \in Nat => EntryBytes(idx, k) \in Int
<1>1. \A f : FileBytes(f) \in Nat
  BY SizeAssumption DEF FileBytes
<1>2. ASSUME NEW d \in Seq(DiskEntry) PROVE DirBytes(d) \in Int
  <2>1. [i \in DOMAIN d |-> FileBytes(d[i].file)] \in Seq(Int)
    BY <1>1
  <2> QED BY <2>1, TotalInt DEF DirBytes
<1>3. ASSUME NEW idx, NEW k \in Nat PROVE EntryBytes(idx, k) \in Int
  <2>1. [i \in 1 .. k |-> FileBytes(Entry(disk, idx[i]).file)] \in Seq(Int)
    BY <1>1
  <2> QED BY <2>1, TotalInt DEF EntryBytes
<1> QED BY <1>1, <1>2, <1>3

(* The eviction loop ends, with a part of the index, does nothing while the
   budget is met and otherwise stops where it is, or at one entry.         *)
LEMMA OverhangIsACut ==
    ASSUME NEW idx \in Seq(Hash), NEW n \in Int
    PROVE  /\ Overhang(idx, n) \in 0 .. Len(idx)
           /\ n <= SpillBytes => Overhang(idx, n) = 0
           /\ SpillBytes = 0 \/ n <= SpillBytes \/ Enough(idx, n, Overhang(idx, n))
<1> DEFINE E == {k \in 0 .. Len(idx) : Enough(idx, n, k)}
<1>1. Len(idx) \in E
  BY DEF Enough
<1>2. PICK k \in E : \A j \in E : k <= j
  <2>1. E \subseteq Nat /\ E # {}
    BY <1>1
  <2> HIDE DEF E
  <2> QED BY <2>1, LeastElement
<1>3. \A j \in 0 .. k - 1 : ~Enough(idx, n, j)
  <2> SUFFICES ASSUME NEW j \in 0 .. k - 1, Enough(idx, n, j) PROVE FALSE
    OBVIOUS
  <2>1. j \in 0 .. Len(idx) /\ ~(k <= j)
    OBVIOUS
  <2> QED BY <1>2, <2>1
<1>4. \E m \in 0 .. Len(idx) : Enough(idx, n, m) /\ \A j \in 0 .. m - 1 : ~Enough(idx, n, j)
  BY <1>2, <1>3
<1> DEFINE C == CHOOSE m \in 0 .. Len(idx) :
                   Enough(idx, n, m) /\ \A j \in 0 .. m - 1 : ~Enough(idx, n, j)
<1>5. C \in 0 .. Len(idx) /\ Enough(idx, n, C)
  BY <1>4
<1> HIDE DEF C
<1>6. Overhang(idx, n) = IF SpillBytes = 0 \/ n <= SpillBytes THEN 0 ELSE C
  BY DEF Overhang, C
<1> QED BY <1>5, <1>6

-----------------------------------------------------------------------------
(* The worker thread.                                                      *)

(* What a step of the worker that touches neither index nor queue leaves true. *)
LEMMA PoolStep ==
    ASSUME IInv, UNCHANGED <<diskVars, lives, salt, storeVars, writerVars>>,
           worker # "down", worker # "joining",
           lru' \in Seq(OwnEntry(salt)), worker' \in {"idle", "read", "evict", "put"},
           worker' = "read" => arg' \in Block,
           worker' \in {"evict", "put"} => lru' # <<>>,
           worker' = "put" => ~OnStore(Victim.hash)',
           GotOwn'
    PROVE  IInv'
<1> USE DEF IInv, diskVars, storeVars, writerVars
<1>1. Types'
  BY DEF Types
<1>2. Threads'
  BY DEF Threads, Types
<1>3. WorkerKnows'
  BY DEF WorkerKnows
<1>4. WriterKnows'
  BY DEF WriterKnows, Hashes
<1>5. OnePerKey'
  BY DEF OnePerKey, Hashes, Distinct
<1>6. IndexTruth'
  BY DEF IndexTruth, Hashes
<1> QED BY <1>1, <1>2, <1>3, <1>4, <1>5, <1>6

(* Insert puts a block of the running model in front of the pool.          *)
LEMMA InsertKeepsPool ==
    ASSUME Types, salt \in Salt, NEW b \in Block, Insert(b, SerializeBlock(b))
    PROVE  /\ lru' \in Seq(OwnEntry(salt)) /\ worker' \in {"idle", "evict"}
           /\ worker' = "evict" => lru' # <<>>
<1>1. [hash |-> Key(b), block |-> SerializeBlock(b)] \in OwnEntry(salt)
  BY DEF OwnEntry, Key, SerializeBlock
<1>2. <<[hash |-> Key(b), block |-> SerializeBlock(b)]>> \o lru \in Seq(OwnEntry(salt))
  BY <1>1, ConcatProperties DEF Types
<1>3. lru' \in Seq(OwnEntry(salt))
  BY <1>2 DEF Insert, Types
<1> QED BY <1>3 DEF Insert, AfterEviction, OverPool

(* What match does with the answer of the store.                           *)
LEMMA ReviveKeepsPool ==
    ASSUME Types, salt \in Salt, NEW b \in Block, NEW x \in {None, SerializeBlock(b)},
           Revive(b, x), arg' = b, salt' = salt
    PROVE  /\ lru' \in Seq(OwnEntry(salt)) /\ worker' \in {"idle", "evict"}
           /\ worker' = "evict" => lru' # <<>>
           /\ GotOwn'
<1>1. GotOwn'
  BY DEF Revive, GotOwn, SerializeBlock
<1>2. CASE x = None
  BY <1>1, <1>2 DEF Revive, Types
<1>3. CASE x # None
  <2>1. Insert(b, SerializeBlock(b))
    BY <1>3 DEF Revive
  <2> QED BY <1>1, <2>1, InsertKeepsPool
<1> QED BY <1>2, <1>3

(* A hit returns the block that was asked for.                             *)
LEMMA AfterMatchHit ==
    ASSUME IInv, NEW b \in Block, MatchHit(b)
    PROVE  IInv'
<1> DEFINE e == Entry(lru, Key(b))
<1>1. lru \in Seq(OwnEntry(salt)) /\ salt \in Salt /\ worker = "idle"
  BY DEF IInv, Types, MatchHit
<1>2. e \in OwnEntry(salt) /\ e.hash = Key(b)
  BY <1>1, EntryIsThere DEF MatchHit
<1>3. e.block = SerializeBlock(b)
  BY <1>1, <1>2, OwnByKey DEF Key, SerializeBlock
<1> HIDE DEF e
<1>4. Without(lru, e) \in Seq(OwnEntry(salt))
  BY <1>1, KeepEmbeds DEF Without
<1>5. <<e>> \o Without(lru, e) \in Seq(OwnEntry(salt))
  BY <1>2, <1>4, ConcatProperties
<1>6. /\ lru' = <<e>> \o Without(lru, e) /\ got' = e.block /\ arg' = b /\ worker' = worker
      /\ UNCHANGED <<diskVars, lives, salt, storeVars, writerVars>>
  BY DEF MatchHit, e
<1>7. GotOwn'
  BY <1>3, <1>6 DEF GotOwn, SerializeBlock
<1> QED BY <1>1, <1>5, <1>6, <1>7, PoolStep

(* A lookup of the store bumps the key it finds in the index, or answers from the
   queue with the block that was asked for.                                *)
LEMMA AfterMatchMiss ==
    ASSUME IInv, NEW b \in Block, MatchMiss(b)
    PROVE  IInv'
<1>1. /\ Types /\ salt \in Salt /\ worker = "idle" /\ arg' = b /\ Key(b) \in Hash
      /\ UNCHANGED <<diskVars, lives, salt, bytes, queue, stop, writerVars>>
  BY OwnByKey DEF IInv, Types, MatchMiss, Key
<1>2. CASE Key(b) \in Range(index)
  <2>1. /\ index' = Bumped(Key(b)) /\ worker' = "read" /\ got' = None /\ UNCHANGED lru
    BY <1>2 DEF MatchMiss
  <2>2. /\ index' \in Seq(Hash) /\ Distinct(index') /\ Range(index') = Range(index)
    <3>1. index \in Seq(Hash) /\ Distinct(index)
      BY DEF IInv, Types, OnePerKey
    <3>2. /\ Bumped(Key(b)) \in Seq(Hash) /\ Distinct(Bumped(Key(b)))
          /\ Range(Bumped(Key(b))) = Range(index) \cup {Key(b)}
      BY <1>1, <3>1, BumpedIndex
    <3> QED BY <1>2, <2>1, <3>2
  <2>3. Hashes(queue)' = Hashes(queue) /\ Hashes(disk)' = Hashes(disk)
    BY <1>1 DEF Hashes, diskVars
  <2> USE <1>1, <2>1, <2>2, <2>3 DEF IInv, diskVars, writerVars
  <2>4. Types' /\ Threads'
    BY DEF Types, Threads
  <2>5. WorkerKnows' /\ WriterKnows'
    BY DEF WorkerKnows, WriterKnows
  <2>6. OnePerKey'
    BY DEF OnePerKey
  <2>7. IndexTruth'
    BY DEF IndexTruth
  <2>8. GotOwn'
    BY DEF GotOwn
  <2> QED BY <2>4, <2>5, <2>6, <2>7, <2>8
<1>3. CASE Key(b) \notin Range(index)
  <2> DEFINE x == IF Key(b) \in Hashes(queue)
                  THEN DeserializeBlock(Entry(queue, Key(b)).file) ELSE None
  <2>1. UNCHANGED index /\ Revive(b, x)
    BY <1>3 DEF MatchMiss
  <2>2. x \in {None, SerializeBlock(b)}
    <3>1. CASE Key(b) \in Hashes(queue)
      <4>1. Entry(queue, Key(b)) \in OwnJob(salt) /\ Entry(queue, Key(b)).hash = Key(b)
        BY <1>1, <3>1, EntryIsThere DEF Types
      <4>2. Entry(queue, Key(b)) \in DiskEntry
        BY <1>1, <4>1, OwnJobsAreFiles
      <4> QED BY <1>1, <3>1, <4>1, <4>2, ReadIsOwn
    <3>2. CASE Key(b) \notin Hashes(queue)
      BY <3>2
    <3> QED BY <3>1, <3>2
  <2> HIDE DEF x
  <2>3. /\ lru' \in Seq(OwnEntry(salt)) /\ worker' \in {"idle", "evict"}
        /\ worker' = "evict" => lru' # <<>>
        /\ GotOwn'
    BY <1>1, <2>1, <2>2, ReviveKeepsPool
  <2> QED BY <1>1, <2>1, <2>3, PoolStep DEF storeVars
<1> QED BY <1>2, <1>3

(* The file that is read after the lock is that of the block, of another model,
   or gone.                                                                *)
LEMMA AfterReadFile ==
    ASSUME IInv, ReadFile
    PROVE  IInv'
<1>1. /\ Types /\ salt \in Salt /\ worker = "read" /\ arg \in Block /\ arg' = arg
      /\ UNCHANGED <<diskVars, lives, salt, storeVars, writerVars>>
  BY DEF IInv, Types, ReadFile, WorkerKnows
<1> DEFINE x == IF Key(arg) \in Hashes(disk)
                THEN DeserializeBlock(Entry(disk, Key(arg)).file) ELSE None
<1>2. Revive(arg, x)
  BY DEF ReadFile
<1>3. x \in {None, SerializeBlock(arg)}
  <2>1. CASE Key(arg) \in Hashes(disk)
    <3>1. Entry(disk, Key(arg)) \in DiskEntry /\ Entry(disk, Key(arg)).hash = Key(arg)
      BY <1>1, <2>1, EntryIsThere DEF Types
    <3> QED BY <1>1, <2>1, <3>1, ReadIsOwn
  <2>2. CASE Key(arg) \notin Hashes(disk)
    BY <2>2
  <2> QED BY <2>1, <2>2
<1> HIDE DEF x
<1>4. /\ lru' \in Seq(OwnEntry(salt)) /\ worker' \in {"idle", "evict"}
      /\ worker' = "evict" => lru' # <<>>
      /\ GotOwn'
  BY <1>1, <1>2, <1>3, ReviveKeepsPool
<1> QED BY <1>1, <1>4, PoolStep

(* A harvested block is the running model's.                               *)
LEMMA AfterHarvest ==
    ASSUME IInv, NEW b \in Block, Harvest(b)
    PROVE  IInv'
<1>1. /\ Types /\ salt \in Salt /\ worker = "idle" /\ arg' = b /\ got' = SerializeBlock(b)
      /\ Insert(b, SerializeBlock(b))
      /\ UNCHANGED <<diskVars, lives, salt, storeVars, writerVars>>
  BY DEF IInv, Types, Harvest
<1>2. GotOwn'
  BY <1>1 DEF GotOwn, SerializeBlock
<1>3. /\ lru' \in Seq(OwnEntry(salt)) /\ worker' \in {"idle", "evict"}
      /\ worker' = "evict" => lru' # <<>>
  BY <1>1, InsertKeepsPool
<1> QED BY <1>1, <1>2, <1>3, PoolStep

(* The pool without its last entry.                                        *)
LEMMA FrontOfPool ==
    ASSUME Types, lru # <<>>
    PROVE  /\ Front(lru) \in Seq(OwnEntry(salt)) /\ Victim \in OwnEntry(salt)
           /\ \A l : AfterEviction(l) \in {"idle", "evict"}
           /\ \A l : AfterEviction(l) = "evict" => l # <<>>
<1>1. Len(lru) \in Nat \ {0} /\ lru \in Seq(OwnEntry(salt))
  BY EmptySeq DEF Types
<1>2. Front(lru) \in Seq(OwnEntry(salt))
  BY <1>1, SubSeqProperties DEF Front
<1>3. Victim \in OwnEntry(salt)
  BY <1>1 DEF Victim
<1> QED BY <1>2, <1>3 DEF AfterEviction, OverPool

(* The evict hook drops what the store has, and goes on to put() with what it
   does not have.                                                          *)
LEMMA AfterEvictAsk ==
    ASSUME IInv, EvictAsk
    PROVE  IInv'
<1>1. /\ Types /\ worker = "evict" /\ lru # <<>> /\ UNCHANGED <<arg, got>>
      /\ UNCHANGED <<diskVars, lives, salt, storeVars, writerVars>>
  BY DEF IInv, EvictAsk, WorkerKnows
<1>2. GotOwn'
  BY <1>1 DEF GotOwn, SerializeBlock, IInv
<1>3. CASE OnStore(Victim.hash)
  <2>1. lru' = Front(lru) /\ worker' = AfterEviction(lru')
    BY <1>3 DEF EvictAsk
  <2>2. lru' \in Seq(OwnEntry(salt)) /\ worker' \in {"idle", "evict"}
        /\ (worker' = "evict" => lru' # <<>>)
    BY <1>1, <2>1, FrontOfPool
  <2> QED BY <1>1, <1>2, <2>2, PoolStep
<1>4. CASE ~OnStore(Victim.hash)
  <2>1. worker' = "put" /\ UNCHANGED lru
    BY <1>4 DEF EvictAsk
  <2>2. ~OnStore(Victim.hash)'
    BY <1>1, <1>4, <2>1 DEF OnStore, Victim, Hashes, storeVars
  <2> QED BY <1>1, <1>2, <2>1, <2>2, PoolStep DEF Types
<1> QED BY <1>3, <1>4

(* put() queues a block that is neither queued nor indexed.                *)
LEMMA AfterEvictPut ==
    ASSUME IInv, EvictPut
    PROVE  IInv'
<1> DEFINE v == [hash |-> Victim.hash, file |-> Victim.block]
<1>1. /\ Types /\ worker = "put" /\ lru # <<>> /\ ~OnStore(Victim.hash) /\ salt \in Salt
      /\ lru' = Front(lru) /\ worker' = AfterEviction(lru')
      /\ UNCHANGED <<diskVars, lives, salt, index, bytes, stop, writerVars, arg, got>>
  BY DEF IInv, EvictPut, WorkerKnows, Types
<1>2. Victim.hash \notin Range(index) /\ Victim.hash \notin Hashes(queue)
  BY <1>1 DEF OnStore
<1>3. queue' = Append(queue, v)
  BY <1>2 DEF EvictPut
<1>4. lru' \in Seq(OwnEntry(salt)) /\ worker' \in {"idle", "evict"}
      /\ (worker' = "evict" => lru' # <<>>) /\ Victim \in OwnEntry(salt)
  BY <1>1, FrontOfPool
<1>5. v \in OwnJob(salt) /\ v.hash = Victim.hash
  BY <1>4 DEF OwnEntry, OwnJob
<1> HIDE DEF v
<1>6. /\ queue' \in Seq(OwnJob(salt)) /\ queue' # <<>>
      /\ Hashes(queue)' = Hashes(queue) \cup {v.hash}
      /\ queue # <<>> => queue'[1] = queue[1]
      /\ \A i, j \in 1 .. Len(queue') : queue'[i].hash = queue'[j].hash => i = j
  <2>1. queue \in Seq(OwnJob(salt))
    BY <1>1 DEF Types
  <2>2. /\ \A i, j \in 1 .. Len(queue) : queue[i].hash = queue[j].hash => i = j
        /\ v.hash \notin Hashes(queue)
    BY <1>2, <1>5 DEF IInv, OnePerKey
  <2>3. Hashes(queue)' = Hashes(queue')
    BY DEF Hashes
  <2> QED BY <1>3, <1>5, <2>1, <2>2, <2>3, QueueAppend
<1>7. Hashes(disk)' = Hashes(disk)
  BY <1>1 DEF Hashes, diskVars
<1> USE <1>1, <1>4, <1>6 DEF IInv, diskVars, writerVars
<1>8. Types'
  BY DEF Types
<1>9. Threads'
  BY DEF Threads
<1>10. WorkerKnows' /\ WriterKnows'
  BY <1>7 DEF WorkerKnows, WriterKnows
<1>11. OnePerKey'
  BY <1>2, <1>5 DEF OnePerKey
<1>12. IndexTruth'
  BY <1>7 DEF IndexTruth
<1>13. GotOwn'
  BY DEF GotOwn, SerializeBlock
<1> QED BY <1>8, <1>9, <1>10, <1>11, <1>12, <1>13

-----------------------------------------------------------------------------
(* The writer thread.                                                      *)

(* A step of the writer that moves on with the same job leaves the rest.   *)
LEMMA WriterMoves ==
    ASSUME IInv, UNCHANGED <<disk, lives, salt, storeVars, workerVars>>,
           writer \notin {"down", "exited", "commit"},
           \/ writer' \in {"write", "rename", "drop"} /\ queue # <<>> /\ job' = queue[1]
           \/ writer' = "exited" /\ stop /\ queue = <<>>
    PROVE  IInv'
<1> USE DEF IInv, storeVars, workerVars
<1>1. Types'
  BY DEF Types
<1>2. Threads'
  BY DEF Threads
<1>3. WorkerKnows'
  BY DEF WorkerKnows, OnStore, Victim, Hashes
<1>4. WriterKnows'
  BY DEF WriterKnows
<1>5. OnePerKey'
  BY DEF OnePerKey, Hashes, Distinct
<1>6. IndexTruth'
  BY DEF IndexTruth, Hashes
<1>7. GotOwn'
  BY DEF GotOwn, SerializeBlock
<1> QED BY <1>1, <1>2, <1>3, <1>4, <1>5, <1>6, <1>7

(* The writer copies the first job.                                        *)
LEMMA AfterTakeJob ==
    ASSUME IInv, TakeJob
    PROVE  IInv'
BY WriterMoves DEF TakeJob, diskVars

(* It leaves when it was told to and the queue is empty.                   *)
LEMMA AfterWriterExits ==
    ASSUME IInv, WriterExits
    PROVE  IInv'
BY WriterMoves DEF WriterExits, diskVars

(* Writing the temporary file changes no .kvb file.                        *)
LEMMA AfterWriteTmp ==
    ASSUME IInv, WriteTmp
    PROVE  IInv'
BY WriterMoves DEF WriteTmp, IInv, WriterKnows

(* The renamed file is there, once, and every other file still is.         *)
LEMMA RenamedDisk ==
    ASSUME disk \in Seq(DiskEntry), NEW x \in DiskEntry,
           \A i, j \in 1 .. Len(disk) : disk[i].hash = disk[j].hash => i = j
    PROVE  LET d == Renamed(x.hash, x.file) IN
           /\ d \in Seq(DiskEntry) /\ Hashes(d) = Hashes(disk) \cup {x.hash}
           /\ \A i, j \in 1 .. Len(d) : d[i].hash = d[j].hash => i = j
<1> DEFINE T == {f \in Range(disk) : f.hash # x.hash}
           k == Keep(disk, T)
           d == Renamed(x.hash, x.file)
<1>1. /\ k \in Seq(DiskEntry) /\ Range(k) = Range(disk) \cap T
  BY KeepEmbeds, KeepRange
<1>2. PICK e \in [1 .. Len(k) -> 1 .. Len(disk)] :
              /\ \A i \in 1 .. Len(k) : k[i] = disk[e[i]]
              /\ \A i, j \in 1 .. Len(k) : e[i] = e[j] => i = j
  <2> HIDE DEF T
  <2> QED BY KeepPositions
<1>3. d = Append(k, x)
  <2>1. x = [hash |-> x.hash, file |-> x.file]
    BY DEF DiskEntry
  <2> QED BY <2>1 DEF Renamed
<1>4. DOMAIN k = 1 .. Len(k) /\ DOMAIN disk = 1 .. Len(disk)
  BY <1>1
<1> HIDE DEF k, d
<1>5. \A i, j \in 1 .. Len(k) : k[i].hash = k[j].hash => i = j
  <2> SUFFICES ASSUME NEW i \in 1 .. Len(k), NEW j \in 1 .. Len(k), k[i].hash = k[j].hash
               PROVE  i = j
    OBVIOUS
  <2>1. e[i] \in 1 .. Len(disk) /\ e[j] \in 1 .. Len(disk)
    BY <1>2
  <2>2. k[i] = disk[e[i]] /\ k[j] = disk[e[j]]
    BY <1>2
  <2>3. e[i] = e[j]
    BY <2>1, <2>2
  <2> QED BY <1>2, <2>3
<1>6. Hashes(k) = Hashes(disk) \ {x.hash}
  <2>1. Hashes(k) = {f.hash : f \in Range(k)} /\ Hashes(disk) = {f.hash : f \in Range(disk)}
    BY <1>4 DEF Hashes, Range
  <2> QED BY <1>1, <2>1
<1>7. /\ d \in Seq(DiskEntry) /\ Hashes(d) = Hashes(k) \cup {x.hash}
      /\ \A i, j \in 1 .. Len(d) : d[i].hash = d[j].hash => i = j
  BY <1>1, <1>3, <1>5, <1>6, QueueAppend
<1> QED BY <1>6, <1>7 DEF d

(* The rename makes the file visible; its index entry follows.             *)
LEMMA AfterRenameTmp ==
    ASSUME IInv, RenameTmp
    PROVE  IInv'
<1>1. /\ writer = "rename" /\ queue # <<>> /\ job = queue[1] /\ salt \in Salt /\ worker # "down"
      /\ UNCHANGED <<lives, salt, storeVars, job, workerVars>>
  BY DEF IInv, RenameTmp, WriterKnows, Threads, Types
<1>2. CASE UNCHANGED <<disk, tmp>> /\ writer' = "drop"
  BY <1>1, <1>2, WriterMoves
<1>3. CASE /\ disk' = Renamed(job.hash, job.file)
           /\ tmp' = tmp \ {job.hash}
           /\ writer' = "commit"
  <2>1. job \in DiskEntry
    <3>1. queue[1] \in OwnJob(salt)
      BY <1>1, QueueTail DEF IInv, Types, OnePerKey
    <3> QED BY <1>1, <3>1, OwnJobsAreFiles
  <2>2. /\ disk' \in Seq(DiskEntry) /\ Hashes(disk)' = Hashes(disk) \cup {job.hash}
        /\ \A i, j \in 1 .. Len(disk') : disk'[i].hash = disk'[j].hash => i = j
    <3>1. Hashes(disk)' = Hashes(disk')
      BY DEF Hashes
    <3>2. /\ disk \in Seq(DiskEntry)
          /\ \A i, j \in 1 .. Len(disk) : disk[i].hash = disk[j].hash => i = j
      BY DEF IInv, Types, OnePerKey
    <3> QED BY <1>3, <2>1, <3>1, <3>2, RenamedDisk
  <2>3. Hashes(queue)' = Hashes(queue)
    BY <1>1 DEF Hashes, storeVars
  <2> USE <1>1, <1>3, <2>2, <2>3 DEF IInv, storeVars, workerVars
  <2>4. Types'
    BY DEF Types
  <2>5. Threads'
    BY DEF Threads
  <2>6. WorkerKnows'
    BY DEF WorkerKnows, OnStore, Victim
  <2>7. WriterKnows'
    BY DEF WriterKnows
  <2>8. OnePerKey'
    BY DEF OnePerKey
  <2>9. IndexTruth'
    BY DEF IndexTruth
  <2>10. GotOwn'
    BY DEF GotOwn, SerializeBlock
  <2> QED BY <2>4, <2>5, <2>6, <2>7, <2>8, <2>9, <2>10
<1> QED BY <1>2, <1>3 DEF RenameTmp

(* A failed write: its job is dropped, and nothing else.                   *)
LEMMA AfterDropJob ==
    ASSUME IInv, DropJob
    PROVE  IInv'
<1>1. /\ writer = "drop" /\ queue # <<>> /\ queue' = Tail(queue) /\ writer' = "wait"
      /\ worker # "down" /\ UNCHANGED <<disk, lives, salt, index, bytes, stop, workerVars>>
  BY DEF IInv, DropJob, WriterKnows, Threads
<1>2. /\ queue' \in Seq(OwnJob(salt)) /\ Hashes(queue)' = Hashes(queue) \ {queue[1].hash}
      /\ \A i, j \in 1 .. Len(queue') : queue'[i].hash = queue'[j].hash => i = j
  <2>1. Hashes(queue)' = Hashes(queue')
    BY DEF Hashes
  <2>2. /\ queue \in Seq(OwnJob(salt)) /\ queue # <<>>
        /\ \A i, j \in 1 .. Len(queue) : queue[i].hash = queue[j].hash => i = j
    BY <1>1 DEF IInv, Types, OnePerKey
  <2>3. /\ Tail(queue) \in Seq(OwnJob(salt)) /\ Hashes(Tail(queue)) = Hashes(queue) \ {queue[1].hash}
        /\ \A i, j \in 1 .. Len(Tail(queue)) : Tail(queue)[i].hash = Tail(queue)[j].hash => i = j
    BY <2>2, QueueTail
  <2> QED BY <1>1, <2>1, <2>3
<1>3. Hashes(disk)' = Hashes(disk)
  BY <1>1 DEF Hashes
<1> USE <1>1, <1>2, <1>3 DEF IInv, workerVars
<1>4. Types'
  BY DEF Types
<1>5. Threads'
  BY DEF Threads
<1>6. WorkerKnows' /\ WriterKnows'
  BY DEF WorkerKnows, WriterKnows, OnStore, Victim
<1>7. OnePerKey'
  BY DEF OnePerKey
<1>8. IndexTruth'
  BY DEF IndexTruth
<1>9. GotOwn'
  BY DEF GotOwn, SerializeBlock
<1> QED BY <1>4, <1>5, <1>6, <1>7, <1>8, <1>9

(* What a commit does to index, directory and queue.                       *)
LEMMA CommitEffect ==
    ASSUME IInv, CommitJob
    PROVE  /\ index' \in Seq(Hash) /\ Distinct(index') /\ bytes' \in Int
           /\ disk' \in Seq(DiskEntry)
           /\ \A i, j \in 1 .. Len(disk') : disk'[i].hash = disk'[j].hash => i = j
           /\ Range(index') = Hashes(disk')
           /\ Range(index') \subseteq Range(index) \cup {job.hash}
           /\ bytes + FileBytes(job.file) <= SpillBytes =>
                Range(index') = Range(index) \cup {job.hash}
<1>1. /\ Types /\ OnePerKey /\ writer = "commit" /\ worker # "down" /\ salt \in Salt
      /\ queue # <<>> /\ job = queue[1] /\ job.hash \in Hashes(disk)
      /\ Hashes(disk) = Range(index) \cup {job.hash}
  BY DEF IInv, CommitJob, WriterKnows, Threads, IndexTruth, Types
<1>2. job.hash \in Hash
  <2>1. queue[1] \in OwnJob(salt)
    BY <1>1, QueueTail DEF Types, OnePerKey
  <2> QED BY <1>1, <2>1, OwnJobsAreFiles DEF DiskEntry
<1> DEFINE idx == Bumped(job.hash)
           n   == bytes + FileBytes(job.file)
           cut == Overhang(idx, n)
           a   == SubSeq(idx, 1, cut)
           z   == SubSeq(idx, cut + 1, Len(idx))
           T   == {f \in Range(disk) : f.hash \notin Range(a)}
           k   == Keep(disk, T)
<1>3. index' = z /\ bytes' = n - EntryBytes(idx, cut) /\ disk' = k
  BY DEF CommitJob
<1>4. /\ idx \in Seq(Hash) /\ Distinct(idx) /\ Range(idx) = Hashes(disk)
  BY <1>1, <1>2, BumpedIndex DEF Types, OnePerKey
<1>5. n \in Int
  BY <1>1, SizesAreInt DEF Types
<1> HIDE DEF idx, n
<1>6. cut \in 0 .. Len(idx) /\ (n <= SpillBytes => cut = 0)
  BY <1>4, <1>5, OverhangIsACut
<1> HIDE DEF cut
<1>7. /\ z \in Seq(Hash) /\ Distinct(z)
      /\ Range(a) \cup Range(z) = Range(idx) /\ Range(a) \cap Range(z) = {}
  BY <1>4, <1>6, CutInTwo
<1>8. n <= SpillBytes => Range(a) = {}
  <2> SUFFICES ASSUME n <= SpillBytes PROVE Range(a) = {}
    OBVIOUS
  <2>1. a = <<>>
    BY <1>6, SubSeqEmpty
  <2> HIDE DEF a
  <2> QED BY <2>1 DEF Range
<1>9. bytes' \in Int
  <2>1. cut \in Nat
    BY <1>6
  <2> QED BY <1>3, <1>5, <2>1, SizesAreInt
<1> HIDE DEF a, z
<1>10. /\ k \in Seq(DiskEntry) /\ Range(k) = Range(disk) \cap T
  BY <1>1, KeepEmbeds, KeepRange DEF Types
<1>11. PICK e \in [1 .. Len(k) -> 1 .. Len(disk)] :
              /\ \A i \in 1 .. Len(k) : k[i] = disk[e[i]]
              /\ \A i, j \in 1 .. Len(k) : e[i] = e[j] => i = j
  <2>1. disk \in Seq(DiskEntry)
    BY <1>1 DEF Types
  <2> HIDE DEF T
  <2> QED BY <2>1, KeepPositions
<1> HIDE DEF k
<1>12. \A i, j \in 1 .. Len(k) : k[i].hash = k[j].hash => i = j
  <2> SUFFICES ASSUME NEW i \in 1 .. Len(k), NEW j \in 1 .. Len(k), k[i].hash = k[j].hash
               PROVE  i = j
    OBVIOUS
  <2>1. e[i] \in 1 .. Len(disk) /\ e[j] \in 1 .. Len(disk)
    BY <1>11
  <2>2. k[i] = disk[e[i]] /\ k[j] = disk[e[j]]
    BY <1>11
  <2>3. e[i] = e[j]
    BY <1>1, <2>1, <2>2 DEF OnePerKey
  <2> QED BY <1>11, <2>3
<1>13. Hashes(k) = Hashes(disk) \ Range(a)
  <2>1. DOMAIN k = 1 .. Len(k) /\ DOMAIN disk = 1 .. Len(disk)
    BY <1>1, <1>10 DEF Types
  <2>2. Hashes(k) = {f.hash : f \in Range(k)} /\ Hashes(disk) = {f.hash : f \in Range(disk)}
    BY <2>1 DEF Hashes, Range
  <2>3. \A f : f \in Range(k) <=> f \in Range(disk) /\ f \in T
    BY <1>10
  <2> QED BY <2>2, <2>3
<1>14. Range(z) = Hashes(k)
  BY <1>4, <1>7, <1>13
<1>15. Range(z) \subseteq Range(index) \cup {job.hash}
  BY <1>1, <1>4, <1>7
<1>16. n <= SpillBytes => Range(z) = Range(index) \cup {job.hash}
  BY <1>1, <1>4, <1>7, <1>8
<1> QED BY <1>3, <1>7, <1>9, <1>10, <1>12, <1>14, <1>15, <1>16 DEF n

(* A commit leaves an index that is exactly the directory.                 *)
LEMMA AfterCommitJob ==
    ASSUME IInv, CommitJob
    PROVE  IInv'
<1>1. /\ writer = "commit" /\ queue # <<>> /\ queue' = Tail(queue) /\ writer' = "wait"
      /\ job = queue[1] /\ worker # "down" /\ UNCHANGED <<lives, salt, stop, workerVars>>
  BY DEF IInv, CommitJob, WriterKnows, Threads
<1>2. /\ queue' \in Seq(OwnJob(salt)) /\ Hashes(queue)' = Hashes(queue) \ {job.hash}
      /\ job.hash \in Hashes(queue)
      /\ \A i, j \in 1 .. Len(queue') : queue'[i].hash = queue'[j].hash => i = j
  <2>1. Hashes(queue)' = Hashes(queue')
    BY DEF Hashes
  <2>2. /\ queue \in Seq(OwnJob(salt))
        /\ \A i, j \in 1 .. Len(queue) : queue[i].hash = queue[j].hash => i = j
    BY DEF IInv, Types, OnePerKey
  <2> QED BY <1>1, <2>1, <2>2, QueueTail
<1>3. Hashes(disk)' = Hashes(disk')
  BY DEF Hashes
<1> USE <1>1, <1>2, <1>3, CommitEffect DEF IInv, workerVars
<1>4. Types'
  BY DEF Types
<1>5. Threads'
  BY DEF Threads
<1>6. WorkerKnows' /\ WriterKnows'
  BY DEF WorkerKnows, WriterKnows, OnStore, Victim
<1>7. OnePerKey'
  BY DEF OnePerKey
<1>8. IndexTruth'
  BY DEF IndexTruth
<1>9. GotOwn'
  BY DEF GotOwn, SerializeBlock
<1> QED BY <1>4, <1>5, <1>6, <1>7, <1>8, <1>9

-----------------------------------------------------------------------------
(* The process.                                                            *)

(* A start indexes exactly the directory.                                  *)
LEMMA AfterStart ==
    ASSUME IInv, NEW s \in Salt, Start(s)
    PROVE  IInv'
<1>1. /\ worker = "down" /\ writer = "down" /\ queue = <<>> /\ lru = <<>> /\ got = None
      /\ ~stop /\ stop \in BOOLEAN /\ disk \in Seq(DiskEntry)
      /\ \A i, j \in 1 .. Len(disk) : disk[i].hash = disk[j].hash => i = j
  BY DEF IInv, Start, Threads, Types, OnePerKey
<1>2. /\ salt' = s /\ index' = [i \in 1 .. Len(disk) |-> disk[i].hash] /\ bytes' = DirBytes(disk)
      /\ writer' = "wait" /\ worker' = "idle"
      /\ UNCHANGED <<disk, queue, stop, job, lru, arg, got>>
  BY DEF Start, diskVars
<1>3. /\ index' \in Seq(Hash) /\ Distinct(index') /\ Range(index') = Hashes(disk)
  <2>1. \A i \in 1 .. Len(disk) : disk[i].hash \in Hash
    BY <1>1 DEF DiskEntry
  <2>2. index' \in Seq(Hash) /\ Len(index') = Len(disk)
    BY <1>1, <1>2, <2>1
  <2> QED BY <1>1, <1>2, <2>2 DEF Distinct, Range, Hashes
<1>4. bytes' \in Int
  BY <1>1, <1>2, SizesAreInt
<1>5. Hashes(disk)' = Hashes(disk) /\ Hashes(queue)' = {}
  BY <1>1, <1>2 DEF Hashes
<1> USE <1>1, <1>2, <1>3, <1>4, <1>5
<1>6. Types'
  <2>1. <<>> \in Seq(OwnJob(s)) /\ <<>> \in Seq(OwnEntry(s))
    OBVIOUS
  <2> QED BY <2>1 DEF Types
<1>7. Threads'
  BY DEF Threads
<1>8. WorkerKnows' /\ WriterKnows'
  BY DEF WorkerKnows, WriterKnows
<1>9. OnePerKey'
  BY DEF OnePerKey
<1>10. IndexTruth'
  BY DEF IndexTruth
<1>11. GotOwn'
  BY DEF GotOwn
<1> QED BY <1>6, <1>7, <1>8, <1>9, <1>10, <1>11 DEF IInv

(* A kill, an end: only the directory is left, as it is.                   *)
LEMMA AllGone ==
    ASSUME IInv, index' = <<>>, queue' = <<>>, lru' = <<>>, got' = None, bytes' = 0, ~stop',
           stop' \in BOOLEAN, writer' = "down", worker' = "down", UNCHANGED <<disk, salt>>
    PROVE  IInv'
<1>1. /\ Types' /\ Threads' /\ WorkerKnows' /\ WriterKnows' /\ IndexTruth' /\ GotOwn'
  BY DEF IInv, Types, Threads, WorkerKnows, WriterKnows, IndexTruth, GotOwn
<1>2. Hashes(queue)' = {}
  BY DEF Hashes
<1>3. OnePerKey'
  BY <1>2 DEF IInv, OnePerKey, Distinct
<1> QED BY <1>1, <1>3 DEF IInv

(* Closing the store takes the pool away and nothing else.                 *)
LEMMA AfterShutdown ==
    ASSUME IInv, Shutdown
    PROVE  IInv'
<1> USE DEF IInv, Shutdown, diskVars, writerVars
<1>1. Types' /\ Threads'
  BY DEF Types, Threads
<1>2. WorkerKnows' /\ WriterKnows'
  BY DEF WorkerKnows, WriterKnows, Hashes
<1>3. OnePerKey' /\ IndexTruth'
  BY DEF OnePerKey, IndexTruth, Hashes, Distinct
<1>4. GotOwn'
  BY DEF GotOwn
<1> QED BY <1>1, <1>2, <1>3, <1>4

(* At first there is only what earlier runs left in the directory.         *)
LEMMA InitHolds ==
    ASSUME Init
    PROVE  IInv
<1>1. disk \in Seq(DiskEntry)
  <2>1. PICK n \in 0 .. MaxFiles : disk \in [1 .. n -> [hash : Hash, file : AnyFile]]
    BY DEF Init
  <2>2. n \in Nat /\ Len(disk) = n
    BY <2>1, SizeAssumption
  <2>3. \A i \in 1 .. n : disk[i] \in DiskEntry
    BY <2>1, <2>2 DEF Init, DiskEntry
  <2> QED BY <2>1, <2>2, <2>3
<1>2. Types
  <2>1. <<>> \in Seq(Hash) /\ <<>> \in Seq(OwnJob(salt)) /\ <<>> \in Seq(OwnEntry(salt))
    OBVIOUS
  <2>2. stop \in BOOLEAN /\ bytes \in Int
    <3>1. stop = FALSE /\ bytes = 0
      BY Zenon DEF Init
    <3>2. stop \in BOOLEAN
      BY <3>1, Zenon
    <3>3. bytes \in Int
      BY <3>1
    <3> QED BY <3>2, <3>3
  <2> QED BY <1>1, <2>1, <2>2 DEF Init, Types
<1>3. Threads /\ WorkerKnows /\ WriterKnows /\ IndexTruth /\ GotOwn
  BY DEF Init, Threads, WorkerKnows, WriterKnows, IndexTruth, GotOwn
<1>4. OnePerKey
  BY DEF Init, OnePerKey, Distinct, Hashes
<1> QED BY <1>2, <1>3, <1>4 DEF IInv

(* Every step of either thread, and every kill and restart, keeps the invariant. *)
LEMMA StepKeeps ==
    ASSUME IInv, [Next]_vars
    PROVE  IInv'
<1>1. CASE UNCHANGED vars
  BY <1>1 DEF vars, diskVars, storeVars, writerVars, workerVars, IInv, Types, Threads,
     WorkerKnows, WriterKnows, OnePerKey, IndexTruth, GotOwn, Hashes, OnStore, Victim,
     SerializeBlock, Distinct
<1>2. CASE \E s \in Salt : Start(s)
  BY <1>2, AfterStart
<1>3. CASE Crash
  BY <1>3, AllGone DEF Crash, diskVars
<1>4. CASE Shutdown
  BY <1>4, AfterShutdown
<1>5. CASE Joined
  BY <1>5, AllGone DEF Joined, diskVars, IInv, Threads
<1>6. CASE Worker
  BY <1>6, AfterMatchHit, AfterMatchMiss, AfterHarvest, AfterReadFile, AfterEvictAsk,
     AfterEvictPut DEF Worker
<1>7. CASE Writer
  BY <1>7, AfterTakeJob, AfterWriterExits, AfterWriteTmp, AfterRenameTmp, AfterDropJob,
     AfterCommitJob DEF Writer
<1> QED BY <1>1, <1>2, <1>3, <1>4, <1>5, <1>6, <1>7 DEF Next

(* The invariant is inductive.                                             *)
LEMMA Inductive == Spec => []IInv
BY InitHolds, StepKeeps, PTL DEF Spec

(* A lookup never returns the K/V of another prefix or of another model, whatever
   the directory holds and whichever keys collide between models.          *)
THEOREM RevivesOnlyItsOwn == Spec => []RevivedIsOwn
<1>1. IInv => RevivedIsOwn
  <2> SUFFICES ASSUME IInv PROVE RevivedIsOwn
    OBVIOUS
  <2>1. \A i \in 1 .. Len(lru) : lru[i] \in OwnEntry(salt)
    BY DEF IInv, Types
  <2> QED BY <2>1 DEF IInv, GotOwn, RevivedIsOwn, OwnEntry, Key
<1> QED BY <1>1, Inductive, PTL

(* While the store is open its index is the directory, but for the write about
   to be committed, and a key is queued or indexed once.                   *)
THEOREM IndexIsTrue == Spec => []IndexMatchesDisk
<1>1. IInv => IndexMatchesDisk
  BY DEF IInv, OnePerKey, IndexTruth, IndexMatchesDisk
<1> QED BY <1>1, Inductive, PTL

(* A block handed to the store is found in queue or index at every moment until
   its write fails, the budget evicts it, or the process ends.             *)
THEOREM WriterLosesNothing == Spec => NeverLosesAHit
<1> DEFINE Lost(h) == OnStore(h) /\ ~OnStore(h)'
           Excused(h) == \/ writer' = "down"
                         \/ writer = "drop" /\ job.hash = h
                         \/ writer = "commit" /\ bytes + FileBytes(job.file) > SpillBytes
<1>1. ASSUME IInv, [Next]_vars, NEW h \in Hash, Lost(h) PROVE Excused(h)
  <2>0. Hashes(queue)' = Hashes(queue')
    BY DEF Hashes
  <2>1. CASE UNCHANGED <<index, queue>>
    BY <1>1, <2>1 DEF OnStore, Hashes
  <2>2. CASE \E s \in Salt : Start(s)
    BY <1>1, <2>2 DEF Start, IInv, Threads, OnStore, Hashes, Range
  <2>3. CASE Crash \/ Joined
    BY <2>3 DEF Crash, Joined
  <2>4. ASSUME NEW b \in Block, MatchMiss(b) PROVE Excused(h)
    <3>1. /\ UNCHANGED queue /\ Key(b) \in Hash /\ index \in Seq(Hash) /\ Distinct(index)
          /\ index' \in {index, Bumped(Key(b))}
      BY <1>1, <2>4, OwnByKey DEF MatchMiss, IInv, Types, OnePerKey, Key
    <3>2. Range(index) \subseteq Range(index')
      <4>1. Range(Bumped(Key(b))) = Range(index) \cup {Key(b)}
        BY <3>1, BumpedIndex
      <4> QED BY <3>1, <4>1
    <3> QED BY <1>1, <2>0, <3>1, <3>2 DEF OnStore
  <2>5. CASE EvictPut
    <3>1. /\ UNCHANGED index /\ Hashes(queue) \subseteq Hashes(queue')
      <4>1. Victim \in OwnEntry(salt) /\ queue \in Seq(OwnJob(salt))
        BY <1>1, <2>5, FrontOfPool DEF EvictPut, IInv, WorkerKnows, Types
      <4>2. [hash |-> Victim.hash, file |-> Victim.block] \in OwnJob(salt)
        BY <4>1 DEF OwnEntry, OwnJob
      <4> QED BY <2>5, <4>1, <4>2, QueueAppend DEF EvictPut
    <3> QED BY <1>1, <2>0, <3>1 DEF OnStore
  <2>6. CASE DropJob
    <3>1. /\ UNCHANGED index /\ writer = "drop" /\ Hashes(queue') = Hashes(queue) \ {job.hash}
      BY <1>1, <2>6, QueueTail DEF DropJob, IInv, Types, OnePerKey, WriterKnows
    <3> QED BY <1>1, <2>0, <3>1 DEF OnStore
  <2>7. CASE CommitJob
    <3>1. /\ writer = "commit" /\ Hashes(queue') = Hashes(queue) \ {job.hash}
      BY <1>1, <2>7, QueueTail DEF CommitJob, IInv, Types, OnePerKey, WriterKnows
    <3>2. CASE bytes + FileBytes(job.file) <= SpillBytes
      <4>1. Range(index') = Range(index) \cup {job.hash}
        BY <1>1, <2>7, <3>2, CommitEffect
      <4> QED BY <1>1, <2>0, <3>1, <4>1 DEF OnStore
    <3>3. CASE ~(bytes + FileBytes(job.file) <= SpillBytes)
      <4>1. bytes \in Int /\ FileBytes(job.file) \in Nat /\ SpillBytes \in Nat
        BY <1>1, SizesAreInt, SizeAssumption DEF IInv, Types
      <4> QED BY <3>1, <3>3, <4>1
    <3> QED BY <3>2, <3>3
  <2> QED BY <1>1, <2>1, <2>2, <2>3, <2>4, <2>5, <2>6, <2>7 DEF Next, Worker, Writer, vars,
        storeVars, Shutdown, MatchHit, Harvest, ReadFile, EvictAsk, TakeJob, WriterExits,
        WriteTmp, RenameTmp
<1>2. IInv /\ [Next]_vars => [\A h \in Hash : Lost(h) => Excused(h)]_vars
  BY <1>1
<1> QED BY <1>2, Inductive, PTL DEF Spec, NeverLosesAHit

(* The destructor returns only when everything queued was written or tried. *)
THEOREM NothingQueuedAtTheEnd == Spec => [][Joined => queue = <<>>]_vars
<1>1. IInv => [Joined => queue = <<>>]_vars
  BY DEF IInv, Threads, Joined
<1> QED BY <1>1, Inductive, PTL

-----------------------------------------------------------------------------
(* The byte count.  It is that of the directory, but for a file that is renamed
   and not committed yet.                                                  *)
Ledger ==
    worker # "down" =>
      bytes + (IF writer = "commit" THEN FileBytes(job.file) ELSE 0) = DirBytes(disk)

(* The size of each file, as a function to add up.                         *)
FileSize == [f \in DiskEntry |-> FileBytes(f.file)]

(* The directory is worth the sizes of its files.                          *)
LEMMA DirBytesAdd ==
    /\ FileSize \in [DiskEntry -> Int]
    /\ \A d \in Seq(DiskEntry) : DirBytes(d) = Total(Weights(FileSize, d))
<1>1. FileSize \in [DiskEntry -> Int] /\ \A f \in DiskEntry : FileSize[f] = FileBytes(f.file)
  BY SizesAreInt DEF FileSize
<1>2. ASSUME NEW d \in Seq(DiskEntry) PROVE DirBytes(d) = Total(Weights(FileSize, d))
  <2>1. DOMAIN d = 1 .. Len(d) /\ \A i \in 1 .. Len(d) : d[i] \in DiskEntry
    OBVIOUS
  <2>2. [i \in DOMAIN d |-> FileBytes(d[i].file)] = Weights(FileSize, d)
    BY <1>1, <2>1 DEF Weights
  <2> QED BY <2>2 DEF DirBytes
<1> QED BY <1>1, <1>2

(* One more evicted entry is worth its file.                               *)
LEMMA EntryBytesStep ==
    ASSUME NEW idx, NEW k \in Nat
    PROVE  /\ EntryBytes(idx, 0) = 0
           /\ EntryBytes(idx, k + 1) = EntryBytes(idx, k) + FileBytes(Entry(disk, idx[k + 1]).file)
<1> DEFINE F(i) == FileBytes(Entry(disk, idx[i]).file)
           a == [i \in 1 .. k |-> F(i)]
           b == [i \in 1 .. k + 1 |-> F(i)]
<1>1. \A i : F(i) \in Int
  BY SizesAreInt
<1>2. EntryBytes(idx, k) = Total(a) /\ EntryBytes(idx, k + 1) = Total(b)
  BY DEF EntryBytes
<1>3. EntryBytes(idx, 0) = 0
  <2>1. [i \in 1 .. 0 |-> F(i)] = <<>>
    OBVIOUS
  <2>2. EntryBytes(idx, 0) = Total(<<>>)
    BY <2>1 DEF EntryBytes
  <2>3. <<>> \in Seq(Int) /\ Len(<<>>) = 0
    OBVIOUS
  <2>4. PICK t : t[0] = 0 /\ Total(<<>>) = t[Len(<<>>)]
    BY <2>3, TotalSums
  <2> QED BY <2>2, <2>3, <2>4
<1> HIDE DEF F
<1>4. a \in Seq(Int) /\ F(k + 1) \in Int
  BY <1>1
<1>5. b = Append(a, F(k + 1))
  OBVIOUS
<1>6. Total(b) = Total(a) + F(k + 1)
  BY <1>4, <1>5, TotalAppend
<1> QED BY <1>2, <1>3, <1>6 DEF F

(* What is kept of a directory: all of it, or one file less.               *)
LEMMA KeptBytes ==
    ASSUME NEW d \in Seq(DiskEntry), NEW V
    PROVE  /\ Keep(d, V) \in Seq(DiskEntry)
           /\ Range(d) \subseteq V => DirBytes(Keep(d, V)) = DirBytes(d)
           /\ Distinct(d) => \A x \in Range(d) \cap V : \A U : U = V \ {x} =>
                 DirBytes(Keep(d, V)) = DirBytes(Keep(d, U)) + FileBytes(x.file)
<1>1. PICK w \in [DiskEntry -> Int] : w = FileSize
  BY DirBytesAdd
<1>2. \A c \in Seq(DiskEntry) : DirBytes(c) = Total(Weights(w, c))
  BY <1>1, DirBytesAdd
<1>3. \A U : Keep(d, U) \in Seq(DiskEntry)
  BY KeepEmbeds
<1>4. ASSUME Range(d) \subseteq V PROVE DirBytes(Keep(d, V)) = DirBytes(d)
  <2>1. Total(Weights(w, Keep(d, V))) = Total(Weights(w, d))
    BY <1>4, KeepAllTotal
  <2> QED BY <1>2, <1>3, <2>1
<1>5. ASSUME Distinct(d), NEW x \in Range(d) \cap V, NEW U, U = V \ {x}
      PROVE  DirBytes(Keep(d, V)) = DirBytes(Keep(d, U)) + FileBytes(x.file)
  <2>1. Total(Weights(w, Keep(d, V))) = Total(Weights(w, Keep(d, U))) + w[x]
    BY <1>5, KeepOneLess
  <2>2. x \in DiskEntry
    <3>1. DOMAIN d = 1 .. Len(d) /\ \A i \in 1 .. Len(d) : d[i] \in DiskEntry
      OBVIOUS
    <3> QED BY <1>5, <3>1 DEF Range
  <2>3. w[x] = FileBytes(x.file)
    BY <1>1, <2>2 DEF FileSize
  <2> QED BY <1>2, <1>3, <2>1, <2>3
<1> QED BY <1>3, <1>4, <1>5

(* Evicting the first k entries of the index leaves a directory worth as much
   less as their files.                                                    *)
LEMMA CutBytes ==
    ASSUME disk \in Seq(DiskEntry), NEW idx \in Seq(Hash), Distinct(idx),
           Range(idx) = Hashes(disk), NEW k \in 0 .. Len(idx),
           \A i, j \in 1 .. Len(disk) : disk[i].hash = disk[j].hash => i = j
    PROVE  DirBytes(Keep(disk, {f \in Range(disk) : f.hash \notin Range(SubSeq(idx, 1, k))})) =
             DirBytes(disk) - EntryBytes(idx, k)
<1>0. PICK d \in Seq(DiskEntry) : d = disk
  OBVIOUS
<1> DEFINE T(n) == {f \in Range(d) : \A i \in 1 .. n : f.hash # idx[i]}
           B(n) == DirBytes(Keep(d, T(n)))
           S == {n \in Nat : n <= Len(idx) => B(n) = DirBytes(d) - EntryBytes(idx, n)}
<1>1. /\ DOMAIN d = 1 .. Len(d) /\ \A i \in 1 .. Len(d) : d[i] \in DiskEntry
      /\ DOMAIN idx = 1 .. Len(idx) /\ Len(idx) \in Nat /\ DirBytes(d) \in Int
      /\ \A n \in Nat : EntryBytes(idx, n) \in Int
  <2>1. /\ DOMAIN d = 1 .. Len(d) /\ \A i \in 1 .. Len(d) : d[i] \in DiskEntry
        /\ DOMAIN idx = 1 .. Len(idx) /\ Len(idx) \in Nat
    OBVIOUS
  <2>2. DirBytes(d) \in Int /\ \A n \in Nat : EntryBytes(idx, n) \in Int
    BY SizesAreInt, Zenon
  <2> QED BY <2>1, <2>2, Zenon
<1>2. /\ \A i, j \in 1 .. Len(d) : d[i].hash = d[j].hash => i = j
      /\ Distinct(d) /\ Range(idx) = Hashes(d)
  BY <1>0 DEF Distinct
<1>3. 0 \in S
  <2>1. Range(d) \subseteq T(0)
    OBVIOUS
  <2> HIDE DEF T
  <2>2. B(0) = DirBytes(d)
    BY <2>1, KeptBytes
  <2>3. EntryBytes(idx, 0) = 0
    BY EntryBytesStep
  <2> HIDE DEF B
  <2> QED BY <1>1, <2>2, <2>3
<1>4. ASSUME NEW n \in Nat, n \in S PROVE n + 1 \in S
  <2> SUFFICES ASSUME n + 1 <= Len(idx)
               PROVE  B(n + 1) = DirBytes(d) - EntryBytes(idx, n + 1)
    <3> HIDE DEF B
    <3> QED OBVIOUS
  <2>1. n + 1 \in 1 .. Len(idx) /\ n <= Len(idx) /\ \A i \in 1 .. n : i \in 1 .. Len(idx) /\ i # n + 1
    BY <1>1
  <2>2. PICK q \in 1 .. Len(d) : d[q].hash = idx[n + 1] /\ Entry(d, idx[n + 1]) = d[q]
    <3>1. idx[n + 1] \in Hashes(d)
      BY <1>1, <1>2, <2>1 DEF Range
    <3>2. \E j \in 1 .. Len(d) : d[j].hash = idx[n + 1]
      BY <3>1 DEF Hashes
    <3>3. PICK q : q = CHOOSE j \in 1 .. Len(d) : d[j].hash = idx[n + 1]
      OBVIOUS
    <3>4. q \in 1 .. Len(d) /\ d[q].hash = idx[n + 1]
      BY <3>2, <3>3
    <3> QED BY <3>3, <3>4 DEF Entry
  <2>3. PICK x \in DiskEntry : x = d[q]
    BY <1>1, <2>2
  <2>4. x \in Range(d) /\ x.hash = idx[n + 1]
    <3>1. x \in Range(d)
      BY <1>1, <2>2, <2>3 DEF Range
    <3> QED BY <2>2, <2>3, <3>1
  <2>5. \A i \in 1 .. n : idx[i] # idx[n + 1]
    BY <2>1 DEF Distinct
  <2>6. \A f \in Range(d) : f.hash = x.hash => f = x
    BY <1>1, <1>2, <2>2, <2>3 DEF Range
  <2>7. x \in Range(d) \cap T(n)
    BY <2>4, <2>5
  <2>8. T(n + 1) = T(n) \ {x}
    <3>1. \A i : i \in 1 .. n + 1 <=> i \in 1 .. n \/ i = n + 1
      OBVIOUS
    <3>2. ASSUME NEW f \in Range(d) PROVE f \in T(n + 1) <=> f \in T(n) /\ f.hash # x.hash
      BY <2>4, <3>1
    <3>3. ASSUME NEW f \in Range(d) PROVE f.hash # x.hash <=> f # x
      BY <2>6
    <3> QED BY <3>2, <3>3
  <2> HIDE DEF T
  <2>9. B(n) = B(n + 1) + FileBytes(x.file)
    <3>1. PICK V : V = T(n)
      OBVIOUS
    <3>2. PICK U : U = T(n + 1)
      OBVIOUS
    <3>3. x \in Range(d) \cap V /\ U = V \ {x}
      BY <2>7, <2>8, <3>1, <3>2
    <3>4. DirBytes(Keep(d, V)) = DirBytes(Keep(d, U)) + FileBytes(x.file)
      BY <1>2, <3>3, KeptBytes
    <3> QED BY <3>1, <3>2, <3>4
  <2>10. B(n + 1) \in Int
    <3>1. Keep(d, T(n + 1)) \in Seq(DiskEntry)
      BY KeptBytes
    <3> QED BY <3>1, SizesAreInt
  <2>11. FileBytes(x.file) \in Int
    BY SizesAreInt
  <2>12. EntryBytes(idx, n + 1) = EntryBytes(idx, n) + FileBytes(x.file)
    BY <1>0, <2>2, <2>3, EntryBytesStep
  <2>13. B(n) = DirBytes(d) - EntryBytes(idx, n)
    BY <1>4, <2>1
  <2> HIDE DEF B
  <2>14. PICK b0 \in Int, b1 \in Int, e0 \in Int, fb \in Int, db \in Int :
           /\ b1 = B(n + 1) /\ b0 = B(n) /\ e0 = EntryBytes(idx, n) /\ fb = FileBytes(x.file)
           /\ db = DirBytes(d)
    <3>1. EntryBytes(idx, n) \in Int /\ DirBytes(d) \in Int
      BY <1>1
    <3>2. \A u, v \in Int : u - v \in Int
      OBVIOUS
    <3>3. B(n) \in Int
      BY <2>13, <3>1, <3>2, Zenon
    <3> QED BY <2>10, <2>11, <3>1, <3>3, Zenon
  <2>15. b0 = b1 + fb /\ b0 = db - e0
    BY <2>9, <2>13, <2>14
  <2>16. b1 = db - (e0 + fb)
    BY <2>15
  <2> QED BY <2>12, <2>14, <2>16
<1> HIDE DEF S
<1>5. \A n \in Nat : n \in S
  BY <1>3, <1>4, SetInduction
<1>6. k \in S /\ k \in Nat /\ k <= Len(idx)
  BY <1>1, <1>5
<1>7. B(k) = DirBytes(d) - EntryBytes(idx, k)
  BY <1>6 DEF S
<1>8. {f \in Range(d) : f.hash \notin Range(SubSeq(idx, 1, k))} = T(k)
  <2> DEFINE a == SubSeq(idx, 1, k)
  <2>1. Len(a) = k /\ DOMAIN a = 1 .. k /\ \A i \in 1 .. k : a[i] = idx[i]
    <3>1. /\ SubSeq(idx, 1, k) \in Seq(Hash)
          /\ Len(SubSeq(idx, 1, k)) = IF 1 <= k THEN k - 1 + 1 ELSE 0
          /\ \A i \in 1 .. k - 1 + 1 : SubSeq(idx, 1, k)[i] = idx[1 + i - 1]
      BY SubSeqProperties
    <3> QED BY <1>6, <3>1
  <2> HIDE DEF a
  <2>2. \A h : h \notin Range(a) <=> \A i \in 1 .. k : h # idx[i]
    <3>1. Range(a) = {a[i] : i \in 1 .. k}
      BY <2>1, Zenon DEF Range
    <3>2. {a[i] : i \in 1 .. k} = {idx[i] : i \in 1 .. k}
      BY <2>1
    <3> QED BY <3>1, <3>2, Zenon
  <2> QED BY <2>2 DEF a
<1> QED BY <1>0, <1>7, <1>8

(* A file under a new key adds its size.                                   *)
LEMMA RenamedBytes ==
    ASSUME disk \in Seq(DiskEntry), NEW x \in DiskEntry, x.hash \notin Hashes(disk)
    PROVE  DirBytes(Renamed(x.hash, x.file)) = DirBytes(disk) + FileBytes(x.file)
<1>1. PICK d \in Seq(DiskEntry) : d = disk
  OBVIOUS
<1> DEFINE V == {f \in Range(d) : f.hash # x.hash}
           k == Keep(d, V)
           a == Append(k, x)
<1>2. Range(d) \subseteq V
  <2>1. DOMAIN d = 1 .. Len(d) /\ \A i \in 1 .. Len(d) : d[i].hash # x.hash
    BY <1>1 DEF Hashes
  <2> QED BY <2>1 DEF Range
<1>3. Renamed(x.hash, x.file) = a
  <2>1. x = [hash |-> x.hash, file |-> x.file]
    BY DEF DiskEntry
  <2> QED BY <1>1, <2>1 DEF Renamed
<1> HIDE DEF V
<1>4. k \in Seq(DiskEntry) /\ DirBytes(k) = DirBytes(d)
  BY <1>2, KeptBytes
<1> HIDE DEF k
<1>5. DirBytes(a) = DirBytes(k) + FileBytes(x.file)
  <2>1. /\ a \in Seq(DiskEntry) /\ Len(a) = Len(k) + 1 /\ Len(k) \in Nat
        /\ DOMAIN a = 1 .. Len(k) + 1 /\ DOMAIN k = 1 .. Len(k)
        /\ \A i \in 1 .. Len(k) : a[i] = k[i]
        /\ a[Len(k) + 1] = x
    BY <1>4, AppendProperties
  <2> HIDE DEF a
  <2> DEFINE u == [i \in DOMAIN k |-> FileBytes(k[i].file)]
             v == [i \in DOMAIN a |-> FileBytes(a[i].file)]
  <2>2. \A f : FileBytes(f) \in Int
    BY SizesAreInt
  <2>3. u \in Seq(Int)
    BY <2>1, <2>2
  <2>4. v = Append(u, FileBytes(x.file))
    <3>1. Len(u) = Len(k) /\ \A i \in 1 .. Len(k) : u[i] = FileBytes(k[i].file)
      BY <2>1
    <3>2. /\ v \in Seq(Int) /\ Len(v) = Len(k) + 1 /\ v[Len(k) + 1] = FileBytes(x.file)
          /\ \A i \in 1 .. Len(k) : v[i] = FileBytes(k[i].file)
      BY <2>1, <2>2
    <3> HIDE DEF u, v
    <3> QED BY <2>1, <2>2, <2>3, <3>1, <3>2
  <2>5. DirBytes(a) = Total(v) /\ DirBytes(k) = Total(u)
    BY DEF DirBytes
  <2> HIDE DEF u, v
  <2>6. Total(Append(u, FileBytes(x.file))) = Total(u) + FileBytes(x.file)
    BY <2>2, <2>3, TotalAppend
  <2> QED BY <2>4, <2>5, <2>6
<1> QED BY <1>1, <1>3, <1>4, <1>5

(* A directory with at most one key is empty or a single file.             *)
LEMMA OneKeyOneFile ==
    ASSUME NEW d \in Seq(DiskEntry), NEW z \in Seq(Hash), Len(z) <= 1, Range(z) = Hashes(d),
           \A i, j \in 1 .. Len(d) : d[i].hash = d[j].hash => i = j
    PROVE  Len(d) = 1 \/ DirBytes(d) = 0
<1>1. Len(d) \in Nat /\ Len(z) \in Nat /\ DOMAIN z = 1 .. Len(z) /\ DOMAIN d = 1 .. Len(d)
  OBVIOUS
<1>2. CASE Len(d) = 0
  <2>1. d = <<>>
    BY <1>2, EmptySeq
  <2>2. [i \in DOMAIN d |-> FileBytes(d[i].file)] = <<>>
    BY <2>1
  <2>3. DirBytes(d) = Total(<<>>)
    BY <2>2 DEF DirBytes
  <2>4. <<>> \in Seq(Int) /\ Len(<<>>) = 0
    OBVIOUS
  <2>5. PICK t : t[0] = 0 /\ Total(<<>>) = t[Len(<<>>)]
    BY <2>4, TotalSums
  <2> QED BY <2>3, <2>4, <2>5
<1>3. CASE Len(d) >= 2
  <2>1. 1 \in 1 .. Len(d) /\ 2 \in 1 .. Len(d)
    BY <1>1, <1>3
  <2>2. d[1].hash \in Hashes(d) /\ d[2].hash \in Hashes(d)
    BY <2>1 DEF Hashes
  <2>3. \A h \in Range(z) : h = z[1]
    <3>1. \A i \in 1 .. Len(z) : i = 1
      BY <1>1
    <3> QED BY <1>1, <3>1 DEF Range
  <2>4. d[1].hash = d[2].hash
    BY <2>2, <2>3
  <2>5. 1 = 2
    BY <2>1, <2>4
  <2> QED BY <2>5
<1> QED BY <1>1, <1>2, <1>3

(* A commit counts what is on disk, and pays back what the budget asks for. *)
LEMMA CommitBudget ==
    ASSUME IInv, Ledger, CommitJob
    PROVE  /\ bytes' = DirBytes(disk')
           /\ SpillBytes = 0 \/ DirBytes(disk') <= SpillBytes \/ Len(disk') = 1
<1>1. /\ Types /\ OnePerKey /\ writer = "commit" /\ worker # "down" /\ salt \in Salt
      /\ queue # <<>> /\ job = queue[1] /\ job.hash \in Hashes(disk)
      /\ Hashes(disk) = Range(index) \cup {job.hash}
  BY DEF IInv, CommitJob, WriterKnows, Threads, IndexTruth, Types
<1>2. job.hash \in Hash
  <2>1. queue[1] \in OwnJob(salt)
    BY <1>1, QueueTail DEF Types, OnePerKey
  <2> QED BY <1>1, <2>1, OwnJobsAreFiles DEF DiskEntry
<1> DEFINE idx == Bumped(job.hash)
           n   == bytes + FileBytes(job.file)
           cut == Overhang(idx, n)
           z   == SubSeq(idx, cut + 1, Len(idx))
           k   == Keep(disk, {f \in Range(disk) : f.hash \notin Range(SubSeq(idx, 1, cut))})
<1>3. index' = z /\ bytes' = n - EntryBytes(idx, cut) /\ disk' = k
  BY DEF CommitJob
<1>4. idx \in Seq(Hash) /\ Distinct(idx) /\ Range(idx) = Hashes(disk)
  BY <1>1, <1>2, BumpedIndex DEF Types, OnePerKey
<1>5. n \in Int /\ n = DirBytes(disk)
  BY <1>1, SizesAreInt DEF Types, Ledger
<1> HIDE DEF idx, n
<1>6. /\ cut \in 0 .. Len(idx)
      /\ n <= SpillBytes => cut = 0
      /\ SpillBytes = 0 \/ n <= SpillBytes \/ Enough(idx, n, cut)
  BY <1>4, <1>5, OverhangIsACut
<1> HIDE DEF cut
<1>7. DirBytes(k) = DirBytes(disk) - EntryBytes(idx, cut)
  BY <1>1, <1>4, <1>6, CutBytes DEF Types, OnePerKey
<1> HIDE DEF k
<1>8. bytes' = DirBytes(disk')
  BY <1>3, <1>5, <1>7
<1>9. CASE SpillBytes # 0 /\ n <= SpillBytes
  <2>1. EntryBytes(idx, cut) = 0
    BY <1>6, <1>9, EntryBytesStep
  <2>2. bytes' <= SpillBytes
    BY <1>3, <1>5, <1>9, <2>1
  <2> QED BY <1>8, <2>2
<1>10. CASE SpillBytes # 0 /\ ~(n <= SpillBytes)
  <2>1. Enough(idx, n, cut)
    BY <1>6, <1>10
  <2>2. CASE n - EntryBytes(idx, cut) <= SpillBytes
    BY <1>3, <1>8, <2>2
  <2>3. CASE Len(idx) - cut <= 1
    <3>1. Len(z) <= 1
      <4>1. Len(z) = IF cut + 1 <= Len(idx) THEN Len(idx) - (cut + 1) + 1 ELSE 0
        BY <1>4, <1>6, SubSeqProperties
      <4>2. Len(idx) \in Nat /\ cut \in Nat
        BY <1>4, <1>6
      <4> QED BY <2>3, <4>1, <4>2
    <3>2. /\ index' \in Seq(Hash) /\ disk' \in Seq(DiskEntry) /\ Range(index') = Hashes(disk')
          /\ \A i, j \in 1 .. Len(disk') : disk'[i].hash = disk'[j].hash => i = j
      BY CommitEffect
    <3>3. Len(index') <= 1
      BY <1>3, <3>1
    <3>4. Len(disk') = 1 \/ DirBytes(disk') = 0
      BY <3>2, <3>3, OneKeyOneFile
    <3>5. 0 <= SpillBytes
      BY SizeAssumption
    <3> QED BY <1>8, <3>4, <3>5
  <2> QED BY <1>8, <2>1, <2>2, <2>3 DEF Enough
<1> QED BY <1>8, <1>9, <1>10

(* The byte count stays that of the directory, whatever happens.           *)
LEMMA LedgerStep ==
    ASSUME IInv, Ledger, [Next]_vars
    PROVE  Ledger'
<1>0. DirBytes(disk)' = DirBytes(disk')
  BY DEF DirBytes, FileBytes
<1>1. CASE UNCHANGED <<disk, bytes, job>> /\ (writer' = "commit" <=> writer = "commit")
           /\ (worker' # "down" => worker # "down")
  BY <1>0, <1>1 DEF Ledger, FileBytes
<1>2. CASE \E s \in Salt : Start(s)
  <2>1. bytes' = DirBytes(disk') /\ writer' = "wait"
    BY <1>2 DEF Start, diskVars
  <2>2. DirBytes(disk') \in Int
    BY <1>2, SizesAreInt DEF Start, diskVars, IInv, Types
  <2> QED BY <1>0, <2>1, <2>2 DEF Ledger
<1>3. CASE Crash \/ Joined
  BY <1>3 DEF Crash, Joined, Ledger
<1>4. CASE RenameTmp
  <2>1. /\ writer = "rename" /\ queue # <<>> /\ job = queue[1] /\ salt \in Salt /\ worker # "down"
        /\ UNCHANGED <<bytes, job, worker>>
    BY <1>4 DEF RenameTmp, storeVars, workerVars, IInv, WriterKnows, Threads, Types
  <2>2. bytes = DirBytes(disk) /\ bytes \in Int
    BY <2>1 DEF Ledger, IInv, Types
  <2>3. CASE UNCHANGED disk /\ writer' = "drop"
    BY <1>0, <2>1, <2>2, <2>3 DEF Ledger
  <2>4. CASE disk' = Renamed(job.hash, job.file) /\ writer' = "commit"
    <3>1. job \in DiskEntry /\ job.hash \notin Hashes(disk)
      <4>1. queue[1] \in OwnJob(salt) /\ queue[1].hash \in Hashes(queue)
        BY <2>1, QueueTail DEF IInv, Types, OnePerKey
      <4>2. job \in DiskEntry
        BY <2>1, <4>1, OwnJobsAreFiles
      <4>3. Hashes(disk) \subseteq Range(index) /\ Hashes(queue) \cap Range(index) = {}
        BY <2>1 DEF IInv, IndexTruth, OnePerKey
      <4> QED BY <2>1, <4>1, <4>2, <4>3
    <3>2. disk \in Seq(DiskEntry)
      BY DEF IInv, Types
    <3>3. DirBytes(disk') = DirBytes(disk) + FileBytes(job.file)
      BY <2>4, <3>1, <3>2, RenamedBytes
    <3>4. FileBytes(job.file)' = FileBytes(job.file)
      BY <2>1 DEF FileBytes
    <3> QED BY <1>0, <2>1, <2>2, <2>4, <3>3, <3>4 DEF Ledger
  <2> QED BY <1>4, <2>3, <2>4 DEF RenameTmp
<1>5. CASE CommitJob
  <2>1. bytes' = DirBytes(disk') /\ writer' = "wait" /\ bytes' \in Int
    BY <1>5, CommitBudget, CommitEffect DEF CommitJob
  <2> QED BY <1>0, <2>1 DEF Ledger
<1>6. CASE DropJob
  <2>1. UNCHANGED <<disk, bytes, worker>> /\ writer # "commit" /\ writer' # "commit"
    BY <1>6 DEF DropJob, workerVars
  <2> QED BY <1>0, <2>1 DEF Ledger
<1>7. CASE TakeJob
  <2>1. UNCHANGED <<disk, bytes, worker>> /\ writer # "commit" /\ writer' # "commit"
    BY <1>7 DEF TakeJob, diskVars, storeVars, workerVars
  <2> QED BY <1>0, <2>1 DEF Ledger
<1>8. CASE UNCHANGED vars \/ Shutdown \/ WriterExits \/ WriteTmp \/ Worker
  <2>1. UNCHANGED <<disk, bytes, job>> /\ (writer' = "commit" <=> writer = "commit")
    BY <1>8 DEF vars, Shutdown, WriterExits, WriteTmp, Worker, MatchHit, MatchMiss, Harvest,
       ReadFile, EvictAsk, EvictPut, diskVars, storeVars, writerVars, workerVars
  <2>2. worker' # "down" => worker # "down"
    BY <1>8 DEF vars, Shutdown, WriterExits, WriteTmp, Worker, MatchHit, MatchMiss, Harvest,
       ReadFile, EvictAsk, EvictPut, workerVars
  <2> QED BY <1>1, <2>1, <2>2
<1> QED BY <1>2, <1>3, <1>4, <1>5, <1>6, <1>7, <1>8 DEF Next, Writer

(* After every write that succeeds the store counts what the directory holds, and
   the directory is within its budget or a single file: for every budget, every
   size of the blocks and whatever a restart found.                        *)
THEOREM BudgetKept == Spec => BudgetAfterWrite
<1> DEFINE Paid == /\ bytes' = DirBytes(disk')
                   /\ \/ SpillBytes = 0
                      \/ DirBytes(disk') <= SpillBytes
                      \/ Len(disk') = 1
<1>1. Init => Ledger
  BY DEF Init, Ledger
<1>2. IInv /\ Ledger /\ [Next]_vars => Ledger'
  BY LedgerStep
<1>3. Spec => []Ledger
  BY <1>1, <1>2, Inductive, PTL DEF Spec
<1>4. ASSUME IInv, Ledger, [Next]_vars, writer = "commit", writer' = "wait"
      PROVE  Paid
  <2>1. CommitJob
    BY <1>4 DEF Next, vars, writerVars, Start, Crash, Shutdown, Joined, Worker, MatchHit,
       MatchMiss, Harvest, ReadFile, EvictAsk, EvictPut, Writer, TakeJob, WriterExits,
       WriteTmp, RenameTmp, DropJob
  <2> QED BY <1>4, <2>1, CommitBudget
<1>5. IInv /\ Ledger /\ [Next]_vars => [writer = "commit" /\ writer' = "wait" => Paid]_vars
  BY <1>4
<1> QED BY <1>3, <1>5, Inductive, PTL DEF Spec, BudgetAfterWrite
=============================================================================
