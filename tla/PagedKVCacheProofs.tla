------------------------ MODULE PagedKVCacheProofs ------------------------
(***************************************************************************)
(* The paged cache, proved for every number of layers, blocks and ids, any *)
(* block size and budget.                                                  *)
(*                                                                         *)
(* Inv holds for every use of the cache.  Ids are handed out once between  *)
(* two calls of clear(), so no two slots of a page table share a block     *)
(* (Fresh); every block has a stamp, so the eviction loop finds a victim   *)
(* if there is one (Stamps); a request is in the queue or in the worker's  *)
(* hands (Requests).                                                       *)
(*                                                                         *)
(* CInv holds for a caller that neither prefetches nor runs into the       *)
(* timeout of a wait.  Then the worker works only for the caller that      *)
(* waits for it (Exclusive), so nobody writes to a block between the two   *)
(* steps of its eviction, and the file has the contents of the block that  *)
(* is dropped (WrittenOut).  With prefetches this is false: the run        *)
(* CacheContract loses a token.                                            *)
(***************************************************************************)
EXTENDS PagedKVCache, FiniteSetTheorems, SequenceTheorems, WellFoundedInduction, TLAPS

Labels == {"idle", "exited", "terminated", "lock", "load", "evict", "loaded", "alloc", "ensure", "wait", "write"}
JobType == [pc : Labels, layer : Int, id : Int, victim : Int, back : Labels]
ArgType == [op : {"none", "append", "get_range", "load_from_disk"}, pos : Int, n : Int,
            tag : Tags \cup {0}, todo : SUBSET Keys]
BlockType == [dirty : BOOLEAN, on_disk : BOOLEAN, data : Contents]

\* The block a thread works on.
Key(p) == <<job[p].layer, job[p].id>>
Busy == ~(At("worker", "idle") \/ At("worker", "exited"))
Working == IF Busy THEN {Key("worker")} ELSE {}
Evicting(p, label) == At(p, "evict") /\ job[p].back = label
In(p, label) == At(p, label) \/ Evicting(p, label)
Appending == job["caller"].pc \in {"ensure", "wait", "write"} \/ In("caller", "alloc")

Tables ==
    /\ table \in [Layers -> [BlockIndexes -> Ids \cup {NoId}]]
    /\ next_block_id_ \in Nat
    /\ written \in [Layers -> [Positions -> Tags \cup {0}]]

Blocks ==
    /\ blocks \in [Layers -> UNION {[D -> BlockType] : D \in SUBSET Ids}]
    /\ DOMAIN files \subseteq Keys /\ \A k \in DOMAIN files : files[k] \in Contents

\* Every block has a stamp.
Stamps ==
    /\ recency \in Seq(Keys)
    /\ \A l \in Layers : \A id \in DOMAIN blocks[l] : <<l, id>> \in ToSet(recency)

\* The places of the two threads.
Jobs ==
    /\ job \in [Threads -> JobType]
    /\ job["worker"].pc \in {"idle", "exited", "terminated", "lock", "load", "evict", "loaded"}
    /\ At("worker", "evict") => job["worker"].back = "load"
    /\ Busy => Key("worker") \in Keys
    /\ ~At("caller", "exited")
    /\ At("caller", "evict") => job["caller"].back \in {"load", "alloc"}

\* What the caller's operation is, and its block.
Caller ==
    /\ arg \in ArgType
    /\ Appending => arg.op = "append" /\ arg.n \in 1 .. BlockSize /\ arg.tag \in Tags
    /\ At("caller", "lock") => arg.op = "get_range"
    /\ At("caller", "loaded") \/ In("caller", "load") => arg.op \in {"get_range", "load_from_disk"}
    /\ In("caller", "load") => Key("caller") \in Keys
    /\ ~At("caller", "idle") /\ arg.op # "load_from_disk" =>
         /\ Key("caller") \in Keys /\ arg.pos \in Positions
         /\ job["caller"].id = Resolve(job["caller"].layer, arg.pos)

\* Ids are handed out once between two calls of clear().
Fresh ==
    /\ \A l \in Layers : \A id \in DOMAIN blocks[l] : id < next_block_id_
    /\ \A l \in Layers, b \in BlockIndexes : table[l][b] < next_block_id_
    /\ \A l \in Layers, b, c \in BlockIndexes : table[l][b] = table[l][c] /\ table[l][b] # NoId => b = c
    /\ In("caller", "alloc") => ~HasBlock(job["caller"].layer, job["caller"].id)

\* async_queue_ and the worker's request make up async_inflight_.
Requests ==
    /\ async_queue_ \in Seq(Keys) /\ IsInjective(async_queue_)
    /\ async_inflight_ = ToSet(async_queue_) \cup Working
    /\ ToSet(async_queue_) \cap Working = {}

Inv == Tables /\ Blocks /\ Stamps /\ Jobs /\ Caller /\ Fresh /\ Requests

\* Without prefetching and timeouts, the worker works only for the caller that waits for it.
Exclusive ==
    /\ Busy => At("caller", "wait") /\ Key("worker") = Key("caller")
    /\ \A k \in ToSet(async_queue_) : At("caller", "wait") /\ k = Key("caller")

\* The blocks whose files have just been written.
Writing == {<<job[p].layer, job[p].victim>> : p \in {q \in Threads : At(q, "evict")}}

\* The file of a block that is being evicted has its contents.
WrittenOut ==
    \A p \in Threads : At(p, "evict") =>
        /\ job[p].layer \in Layers /\ job[p].victim \in Resident(job[p].layer)
        /\ files[<<job[p].layer, job[p].victim>>] = blocks[job[p].layer][job[p].victim].data

Memory ==
    /\ IsFiniteSet(AllResident) /\ current_memory_used_ = Cardinality(AllResident)
    /\ Limit > 0 => current_memory_used_ <= Limit

\* A position whose block exists has the last tag written there; any other was never written.
Content ==
    \A l \in Layers, p \in Positions :
        IF HasBlock(l, Resolve(l, p)) THEN Stored(l, Resolve(l, p))[p % BlockSize] = written[l][p]
                                      ELSE written[l][p] = 0

Reads == ReadsLatest /\ (Appending => got = {})

CInv == Exclusive /\ WrittenOut /\ Memory /\ FilesExact /\ Content /\ Reads

-----------------------------------------------------------------------------
(* Numbers and sequences.                                                  *)

LEMMA LeastNumber == ASSUME NEW T, T \subseteq Nat, T # {} PROVE \E x \in T : \A y \in T : x <= y
<1>1. \A x, y \in Nat : x < y => <<x, y>> \in OpToRel(<, Nat)
  BY DEF OpToRel
<1>2. PICK R : IsWellFoundedOn(R, Nat) /\ \A x, y \in Nat : x < y => <<x, y>> \in R
  BY <1>1, NatLessThanWellFounded, Zenon
<1>3. IsWellFoundedOn(R, Nat)
  BY <1>2, Zenon
<1>4. \A x, y \in Nat : x < y => <<x, y>> \in R
  BY <1>2, Zenon
<1>5. \E x \in T : \A y \in T : ~(<<y, x>> \in R)
  BY <1>3, WFMin
<1>6. PICK x \in T : \A y \in T : ~(<<y, x>> \in R)
  BY <1>5, Zenon
<1>7. ASSUME NEW y \in T PROVE x <= y
  <2>1. x \in Nat /\ y \in Nat /\ ~(y < x)
    BY <1>4, <1>6
  <2>2. QED  BY <2>1
<1>8. QED  BY <1>7

\* A stamp is given to key, and the other blocks keep theirs.
LEMMA TouchCovers ==
    ASSUME NEW S, NEW s \in Seq(S), NEW key \in S
    PROVE  LET r == Append(RemoveFirst(s, key), key)
           IN  r \in Seq(S) /\ key \in ToSet(r) /\ ToSet(s) \subseteq ToSet(r)
<1> DEFINE f == RemoveFirst(s, key)
<1>1. /\ Len(s) \in Nat /\ DOMAIN s = 1 .. Len(s) /\ \A i \in 1 .. Len(s) : s[i] \in S
      /\ \A x : x \in ToSet(s) <=> \E i \in 1 .. Len(s) : x = s[i]
  BY DEF ToSet
<1>2. f \in Seq(S) /\ \A x \in ToSet(s) \ {key} : \E i \in 1 .. Len(f) : f[i] = x
  <2>1. CASE ~\E i \in 1 .. Len(s) : s[i] = key
    <3>1. f = s
      BY <2>1 DEF RemoveFirst
    <3>2. QED  BY <1>1, <3>1
  <2>2. CASE \E i \in 1 .. Len(s) : s[i] = key
    <3> DEFINE I == {i \in 1 .. Len(s) : s[i] = key}
               m == Min(I)
               a == SubSeq(s, 1, m - 1)
               b == SubSeq(s, m + 1, Len(s))
    <3>1. I # {} /\ I \subseteq Nat
      BY <1>1, <2>2
    <3>2. m \in I
      <4>1. \E x \in I : \A y \in I : x <= y
        BY <3>1, LeastNumber
      <4>2. QED  BY <4>1 DEF Min
    <3>3. f = a \o b
      BY <2>2, <3>1 DEF RemoveFirst, SelectInSeq, RemoveAt
    <3>4. m \in Nat /\ 1 <= m /\ m <= Len(s) /\ s[m] = key
      BY <1>1, <3>2
    <3> HIDE DEF I, m, f
    <3>5. a \in Seq(S) /\ Len(a) = m - 1 /\ \A j \in 1 .. m - 1 : a[j] = s[j]
      BY <1>1, <3>4, SubSeqProperties
    <3>6. b \in Seq(S) /\ Len(b) = Len(s) - m /\ \A j \in 1 .. Len(s) - m : b[j] = s[m + j]
      <4>1. m + 1 \in Int /\ Len(s) \in Int /\ \A i \in m + 1 .. Len(s) : s[i] \in S
        BY <1>1, <3>4
      <4>2. /\ b \in Seq(S) /\ Len(b) = IF m + 1 <= Len(s) THEN Len(s) - (m + 1) + 1 ELSE 0
            /\ \A j \in 1 .. Len(s) - (m + 1) + 1 : b[j] = s[(m + 1) + j - 1]
        BY <4>1, SubSeqProperties
      <4> HIDE DEF b
      <4>3. Len(s) - (m + 1) + 1 = Len(s) - m
        BY <1>1, <3>4
      <4>4. Len(b) = Len(s) - m
        <5>1. (IF m + 1 <= Len(s) THEN Len(s) - (m + 1) + 1 ELSE 0) = Len(s) - m
          <6>1. m \in Nat /\ Len(s) \in Nat /\ m <= Len(s)
            BY <1>1, <3>4
          <6>2. QED  BY <6>1
        <5>2. QED  BY <4>2, <5>1
      <4>5. ASSUME NEW j \in 1 .. Len(s) - m PROVE b[j] = s[m + j]
        <5>1. (m + 1) + j - 1 = m + j
          BY <1>1, <3>4
        <5>2. b[j] = s[(m + 1) + j - 1]
          BY <4>2, <4>3
        <5>3. QED  BY <5>1, <5>2
      <4>6. QED  BY <4>2, <4>4, <4>5
    <3> HIDE DEF a, b
    <3>7. /\ a \o b \in Seq(S) /\ Len(a \o b) = Len(a) + Len(b)
          /\ \A j \in 1 .. Len(a) + Len(b) : (a \o b)[j] = IF j <= Len(a) THEN a[j] ELSE b[j - Len(a)]
      BY <3>5, <3>6, ConcatProperties
    <3>8. Len(f) = Len(s) - 1 /\ f \in Seq(S)
      BY <1>1, <3>3, <3>4, <3>5, <3>6, <3>7
    <3>9. ASSUME NEW x \in ToSet(s) \ {key} PROVE \E i \in 1 .. Len(f) : f[i] = x
      <4>1. PICK i \in 1 .. Len(s) : s[i] = x
        BY <1>1
      <4>2. CASE i < m
        <5>1. i \in 1 .. m - 1 /\ i \in 1 .. Len(s) - 1 /\ i <= m - 1
          BY <1>1, <3>4, <4>2
        <5>2. f[i] = s[i]
          BY <1>1, <3>3, <3>4, <3>5, <3>6, <3>7, <5>1
        <5>3. QED  BY <3>8, <4>1, <5>1, <5>2
      <4>3. CASE i > m
        <5>1. /\ i - m \in 1 .. Len(s) - m /\ i - 1 \in 1 .. Len(s) - 1 /\ ~(i - 1 <= m - 1)
              /\ (i - 1) - (m - 1) = i - m /\ m + (i - m) = i
          BY <1>1, <3>4, <4>3
        <5>2. f[i - 1] = b[i - m]
          <6>1. Len(a) = m - 1 /\ Len(a) + Len(b) = Len(s) - 1
            BY <1>1, <3>4, <3>5, <3>6
          <6>2. (a \o b)[i - 1] = b[(i - 1) - Len(a)]
            BY <3>7, <5>1, <6>1
          <6>3. QED  BY <3>3, <5>1, <6>1, <6>2
        <5>3. b[i - m] = s[i]
          BY <3>6, <5>1
        <5>4. QED  BY <3>8, <4>1, <5>1, <5>2, <5>3
      <4>4. QED  BY <1>1, <3>4, <3>9, <4>1, <4>2, <4>3
    <3>10. QED  BY <3>8, <3>9
  <2>3. QED  BY <2>1, <2>2
<1> HIDE DEF f
<1> DEFINE r == Append(f, key)
<1>3. /\ r \in Seq(S) /\ Len(r) = Len(f) + 1 /\ r[Len(f) + 1] = key
      /\ \A j \in 1 .. Len(f) : r[j] = f[j]
  BY <1>2, AppendProperties
<1> HIDE DEF r
<1>4. Len(f) \in Nat /\ DOMAIN r = 1 .. Len(f) + 1
  BY <1>2, <1>3
<1>5. \A j \in 1 .. Len(f) + 1 : r[j] \in ToSet(r)
  BY <1>4 DEF ToSet
<1>6. key \in ToSet(r)
  BY <1>3, <1>4, <1>5
<1>7. ASSUME NEW x \in ToSet(s) PROVE x \in ToSet(r)
  <2>1. CASE x = key
    BY <1>6, <2>1
  <2>2. CASE x # key
    BY <1>2, <1>3, <1>4, <1>5, <2>2
  <2>3. QED  BY <2>1, <2>2
<1>8. QED  BY <1>3, <1>6, <1>7 DEF r, f

\* A new request at the back of the queue.
LEMMA AppendRequest ==
    ASSUME NEW S, NEW s \in Seq(S), IsInjective(s), NEW x \in S, x \notin ToSet(s)
    PROVE  Append(s, x) \in Seq(S) /\ IsInjective(Append(s, x)) /\ ToSet(Append(s, x)) = ToSet(s) \cup {x}
<1> DEFINE r == Append(s, x)
<1>1. Len(s) \in Nat /\ DOMAIN s = 1 .. Len(s) /\ \A i \in 1 .. Len(s) : s[i] \in ToSet(s)
  BY DEF ToSet
<1>2. r \in Seq(S) /\ Len(r) = Len(s) + 1 /\ r[Len(s) + 1] = x /\ \A i \in 1 .. Len(s) : r[i] = s[i]
  BY AppendProperties
<1> HIDE DEF r
<1>3. DOMAIN r = 1 .. Len(s) + 1 /\ \A i : i \in 1 .. Len(s) + 1 <=> i \in 1 .. Len(s) \/ i = Len(s) + 1
  BY <1>1, <1>2
<1>4. IsInjective(r)
  BY <1>1, <1>2, <1>3 DEF IsInjective
<1>5. \A y : y \in ToSet(r) <=> y \in ToSet(s) \/ y = x
  BY <1>1, <1>2, <1>3 DEF ToSet
<1>6. QED  BY <1>2, <1>4, <1>5 DEF r

\* The request at the front leaves the queue.
LEMMA PopRequest ==
    ASSUME NEW S, NEW s \in Seq(S), IsInjective(s), s # <<>>
    PROVE  /\ Tail(s) \in Seq(S) /\ IsInjective(Tail(s)) /\ Head(s) \in S
           /\ Head(s) \notin ToSet(Tail(s)) /\ ToSet(s) = ToSet(Tail(s)) \cup {Head(s)}
<1> DEFINE r == Tail(s)
<1>1. /\ Len(s) \in Nat /\ Len(s) >= 1 /\ DOMAIN s = 1 .. Len(s) /\ Head(s) = s[1] /\ Head(s) \in S
  BY EmptySeq, HeadTailProperties
<1>2. r \in Seq(S) /\ Len(r) = Len(s) - 1 /\ \A i \in 1 .. Len(r) : r[i] = s[i + 1]
  BY <1>1, HeadTailProperties
<1> HIDE DEF r
<1>3. DOMAIN r = 1 .. Len(s) - 1 /\ \A i \in 1 .. Len(s) - 1 : r[i] = s[i + 1] /\ i + 1 \in 2 .. Len(s)
  BY <1>1, <1>2
<1>4. IsInjective(r)
  BY <1>1, <1>3 DEF IsInjective
<1>5. s[1] \notin ToSet(r)
  BY <1>1, <1>3, SMTT(20) DEF ToSet, IsInjective
<1>6. ASSUME NEW y PROVE y \in ToSet(s) <=> y \in ToSet(r) \/ y = s[1]
  <2>1. y \in ToSet(s) <=> \E i \in 1 .. Len(s) : y = s[i]
    BY <1>1 DEF ToSet
  <2>2. y \in ToSet(r) <=> \E i \in 1 .. Len(s) - 1 : y = s[i + 1]
    BY <1>3 DEF ToSet
  <2>3. \A i \in 1 .. Len(s) : i = 1 \/ (i - 1 \in 1 .. Len(s) - 1 /\ (i - 1) + 1 = i)
    BY <1>1
  <2>4. ASSUME y \in ToSet(s), y # s[1] PROVE y \in ToSet(r)
    <3>1. PICK i \in 1 .. Len(s) : y = s[i] /\ i # 1
      BY <2>1, <2>4
    <3>2. QED  BY <2>2, <2>3, <3>1
  <2>5. \A i \in 1 .. Len(s) - 1 : i + 1 \in 1 .. Len(s)
    BY <1>1
  <2>6. QED  BY <1>1, <2>1, <2>2, <2>4, <2>5
<1>7. QED  BY <1>1, <1>2, <1>4, <1>5, <1>6 DEF r

LEMMA Quotient ==
    ASSUME NEW n \in Nat \ {0}, NEW b \in Nat, NEW o \in 0 .. n - 1
    PROVE  b * n + o \in Nat /\ (b * n + o) \div n = b /\ (b * n + o) % n = o
OBVIOUS

LEMMA PositionParts ==
    ASSUME NEW p \in Positions
    PROVE  p \in Nat /\ p \div BlockSize \in BlockIndexes /\ p % BlockSize \in Offsets
           /\ p = (p \div BlockSize) * BlockSize + (p % BlockSize)
<1>1. PICK b \in BlockIndexes, o \in Offsets : p = b * BlockSize + o
  BY DEF Positions
<1>2. QED  BY <1>1, ConstantsAssumption, Quotient DEF Offsets

LEMMA Distance ==
    ASSUME NEW n \in Nat \ {0}, NEW a \in Nat, NEW b \in Nat, NEW x \in 0 .. n - 1, NEW d \in Int,
           d = (a - b) * n + x
    PROVE  (d \in 0 .. n - 1 <=> a = b) /\ (a = b => d = x)
<1>1. CASE a = b
  BY <1>1
<1>2. CASE a > b
  <2>1. (a - b) * n >= n /\ (a - b) * n \in Int
    BY <1>2
  <2>2. QED  BY <1>2, <2>1
<1>3. CASE a < b
  <2>1. (a - b) * n <= -n /\ (a - b) * n \in Int
    BY <1>3
  <2>2. QED  BY <1>3, <2>1
<1>4. QED  BY <1>1, <1>2, <1>3

LEMMA SameBlock ==
    ASSUME NEW p \in Positions, NEW q \in Positions
    PROVE  /\ p - (q - (q % BlockSize)) \in Offsets <=> p \div BlockSize = q \div BlockSize
           /\ p \div BlockSize = q \div BlockSize => p - (q - (q % BlockSize)) = p % BlockSize
<1> DEFINE a == p \div BlockSize  b == q \div BlockSize  x == p % BlockSize  y == q % BlockSize
           d == p - (q - y)
<1>1. BlockSize \in Nat \ {0} /\ p \in Nat /\ q \in Nat
  BY ConstantsAssumption, PositionParts
<1>2. a \in Nat /\ b \in Nat /\ x \in 0 .. BlockSize - 1 /\ y \in 0 .. BlockSize - 1
  BY ConstantsAssumption, PositionParts DEF Offsets
<1>3. p = a * BlockSize + x /\ q = b * BlockSize + y
  BY PositionParts
<1> HIDE DEF a, b, x, y
<1>4. d \in Int /\ d = (a - b) * BlockSize + x
  BY <1>1, <1>2, <1>3
<1> HIDE DEF d
<1>5. (d \in 0 .. BlockSize - 1 <=> a = b) /\ (a = b => d = x)
  BY <1>1, <1>2, <1>4, Distance
<1>6. QED  BY <1>5 DEF a, b, x, y, d, Offsets

-----------------------------------------------------------------------------
(* Blocks.                                                                 *)

LEMMA IdsInt == \A id \in Ids \cup {NoId} : id \in Int
BY ConstantsAssumption DEF Ids, NoId

LEMMA BlockShape ==
    ASSUME Blocks
    PROVE  \A l \in Layers : DOMAIN blocks[l] \subseteq Ids /\ blocks[l] \in [DOMAIN blocks[l] -> BlockType]
<1>1. SUFFICES ASSUME NEW l \in Layers
               PROVE  DOMAIN blocks[l] \subseteq Ids /\ blocks[l] \in [DOMAIN blocks[l] -> BlockType]
  OBVIOUS
<1>2. PICK D \in SUBSET Ids : blocks[l] \in [D -> BlockType]
  BY DEF Blocks
<1>3. QED  BY <1>2

LEMMA ShapedBlocks ==
    ASSUME blocks' = [l \in Layers |-> blocks'[l]],
           \A l \in Layers : DOMAIN blocks'[l] \subseteq Ids /\ blocks'[l] \in [DOMAIN blocks'[l] -> BlockType],
           DOMAIN files' \subseteq Keys, \A k \in DOMAIN files' : files'[k] \in Contents
    PROVE  Blocks'
<1>1. \A l \in Layers : blocks'[l] \in UNION {[D -> BlockType] : D \in SUBSET Ids}
  OBVIOUS
<1>2. blocks' \in [Layers -> UNION {[D -> BlockType] : D \in SUBSET Ids}]
  BY <1>1
<1>3. QED  BY <1>2 DEF Blocks

\* Blocks that have been evicted.
LEMMA EvictedBlocks ==
    ASSUME Blocks, NEW ks, blocks' = Evicted(ks)
    PROVE  /\ blocks' = [l \in Layers |-> blocks'[l]]
           /\ \A l \in Layers :
                /\ DOMAIN blocks'[l] = DOMAIN blocks[l] /\ blocks'[l] \in [DOMAIN blocks[l] -> BlockType]
                /\ \A id \in DOMAIN blocks[l] :
                     /\ blocks'[l][id].on_disk <=> blocks[l][id].on_disk \/ <<l, id>> \in ks
                     /\ <<l, id>> \notin ks => blocks'[l][id] = blocks[l][id]
<1>1. SUFFICES ASSUME NEW l \in Layers
               PROVE  /\ DOMAIN blocks'[l] = DOMAIN blocks[l] /\ blocks'[l] \in [DOMAIN blocks[l] -> BlockType]
                      /\ \A id \in DOMAIN blocks[l] :
                           /\ blocks'[l][id].on_disk <=> blocks[l][id].on_disk \/ <<l, id>> \in ks
                           /\ <<l, id>> \notin ks => blocks'[l][id] = blocks[l][id]
  BY DEF Evicted
<1> DEFINE B(id) == IF <<l, id>> \in ks THEN [blocks[l][id] EXCEPT !.on_disk = TRUE, !.data = Blank]
                                       ELSE blocks[l][id]
<1>2. blocks'[l] = [id \in DOMAIN blocks[l] |-> B(id)]
  BY DEF Evicted
<1>3. \A id \in DOMAIN blocks[l] : blocks[l][id] \in BlockType
  BY BlockShape
<1>4. Blank \in Contents
  BY DEF Blank, Contents
<1>5. ASSUME NEW id \in DOMAIN blocks[l]
      PROVE  /\ B(id) \in BlockType
             /\ B(id).on_disk <=> blocks[l][id].on_disk \/ <<l, id>> \in ks
             /\ <<l, id>> \notin ks => B(id) = blocks[l][id]
  <2>1. CASE <<l, id>> \in ks
    BY <1>3, <1>4, <2>1 DEF BlockType
  <2>2. CASE <<l, id>> \notin ks
    BY <1>3, <2>2
  <2>3. QED  BY <2>1, <2>2
<1> HIDE DEF B
<1>6. QED  BY <1>2, <1>5

\* A block that has been written to, or loaded.
LEMMA ChangedBlock ==
    ASSUME Blocks, NEW l \in Layers, NEW id \in DOMAIN blocks[l], NEW blk \in BlockType,
           blocks' = [blocks EXCEPT ![l] = [@ EXCEPT ![id] = blk]]
    PROVE  /\ blocks' = [m \in Layers |-> blocks'[m]]
           /\ \A m \in Layers :
                /\ DOMAIN blocks'[m] = DOMAIN blocks[m] /\ blocks'[m] \in [DOMAIN blocks[m] -> BlockType]
                /\ \A i \in DOMAIN blocks[m] : blocks'[m][i] = IF <<m, i>> = <<l, id>> THEN blk ELSE blocks[m][i]
<1>1. DOMAIN blocks = Layers /\ \A m \in Layers : blocks[m] \in [DOMAIN blocks[m] -> BlockType]
  BY BlockShape DEF Blocks
<1>2. \A m \in Layers : blocks'[m] = IF m = l THEN [blocks[l] EXCEPT ![id] = blk] ELSE blocks[m]
  BY <1>1
<1>3. blocks' = [m \in Layers |-> blocks'[m]]
  BY <1>1
<1>4. ASSUME NEW m \in Layers
      PROVE  /\ DOMAIN blocks'[m] = DOMAIN blocks[m] /\ blocks'[m] \in [DOMAIN blocks[m] -> BlockType]
             /\ \A i \in DOMAIN blocks[m] : blocks'[m][i] = IF <<m, i>> = <<l, id>> THEN blk ELSE blocks[m][i]
  <2>1. CASE m = l
    BY <1>1, <1>2, <2>1
  <2>2. CASE m # l
    BY <1>1, <1>2, <2>2
  <2>3. QED  BY <2>1, <2>2
<1>5. QED  BY <1>3, <1>4

\* The eviction loop finds a victim if there is one: every block has a stamp.
LEMMA LruResident ==
    ASSUME Blocks, Stamps, NEW l \in Layers, Resident(l) # {}
    PROVE  LruOf(l) \in Resident(l)
<1> DEFINE is == {i \in 1 .. Len(recency) : recency[i][1] = l /\ recency[i][2] \in Resident(l)}
<1>1. Len(recency) \in Nat /\ DOMAIN recency = 1 .. Len(recency)
  BY DEF Stamps
<1>2. PICK id : id \in Resident(l)
  OBVIOUS
<1>3. <<l, id>> \in ToSet(recency)
  BY <1>2 DEF Resident, Stamps
<1>4. PICK i \in 1 .. Len(recency) : recency[i] = <<l, id>>
  BY <1>1, <1>3 DEF ToSet
<1>5. is # {} /\ is \subseteq Nat
  <2>1. i \in is
    BY <1>2, <1>4
  <2>2. is \subseteq 1 .. Len(recency)
    OBVIOUS
  <2>3. QED  BY <1>1, <2>1, <2>2
<1>6. \E j \in is : \A k \in is : j <= k
  BY <1>5, LeastNumber
<1>7. (CHOOSE j \in is : \A k \in is : j <= k) \in is
  BY <1>6
<1>8. QED  BY <1>7 DEF LruOf

\* What is stored.
LEMMA Same ==
    ASSUME Tables, Blocks, Stamps, UNCHANGED <<table, blocks, files, recency, next_block_id_, written>>
    PROVE  Tables' /\ Blocks' /\ Stamps'
BY DEF Tables, Blocks, Stamps

\* What a step of the worker leaves alone.
LEMMA CallerSame ==
    ASSUME Caller, Fresh, UNCHANGED <<table, next_block_id_, arg>>, job'["caller"] = job["caller"],
           \A l \in Layers : DOMAIN blocks'[l] = DOMAIN blocks[l]
    PROVE  Caller' /\ Fresh'
<1>1. \A label : At("caller", label)' <=> At("caller", label)
  BY DEF At
<1>2. \A label : In("caller", label)' <=> In("caller", label)
  BY DEF In, Evicting, At
<1>3. Key("caller")' = Key("caller") /\ (Appending' <=> Appending)
  BY <1>2 DEF Key, Appending
<1>4. Caller'
  BY <1>1, <1>2, <1>3 DEF Caller, Resolve
<1>5. ASSUME In("caller", "alloc") PROVE job["caller"].layer \in Layers
  <2>1. arg.op = "append" /\ ~At("caller", "idle")
    BY <1>5 DEF Caller, Appending, In, Evicting, At
  <2>2. Key("caller") \in Keys
    BY <2>1 DEF Caller
  <2>3. QED  BY <2>2 DEF Key, Keys
<1>6. Fresh'
  <2>1. In("caller", "alloc")' => ~HasBlock(job["caller"].layer, job["caller"].id)'
    BY <1>2, <1>5 DEF Fresh, HasBlock
  <2>2. QED  BY <2>1 DEF Fresh
<1>7. QED  BY <1>4, <1>6

\* What a step of the caller leaves alone.
LEMMA RequestsSame ==
    ASSUME Requests, UNCHANGED <<async_queue_, async_inflight_>>,
           Busy' <=> Busy, Key("worker")' = Key("worker")
    PROVE  Requests'
BY DEF Requests, Working

-----------------------------------------------------------------------------
(* The invariant of any cache: steps of the worker.                        *)

LEMMA GoToStep ==
    ASSUME job \in [Threads -> JobType], NEW p \in Threads, NEW label \in Labels, GoTo(p, label)
    PROVE  /\ job' \in [Threads -> JobType] /\ \A q \in Threads \ {p} : job'[q] = job[q]
           /\ job'[p].pc = label /\ job'[p].layer = job[p].layer /\ job'[p].id = job[p].id
           /\ job'[p].victim = job[p].victim /\ job'[p].back = job[p].back
BY DEF GoTo, JobType

\* A worker that has a request goes on with it.
LEMMA WorkerGoesOn ==
    ASSUME Inv, NEW label \in {"load", "loaded", "terminated"}, Busy, GoTo("worker", label),
           UNCHANGED <<table, next_block_id_, arg, async_queue_, async_inflight_>>,
           \A l \in Layers : DOMAIN blocks'[l] = DOMAIN blocks[l]
    PROVE  Jobs' /\ Caller' /\ Fresh' /\ Requests'
<1>1. Jobs /\ Caller /\ Fresh /\ Requests /\ job \in [Threads -> JobType]
  BY DEF Inv, Jobs
<1>2. /\ job' \in [Threads -> JobType] /\ job'["caller"] = job["caller"]
      /\ job'["worker"].pc = label /\ Key("worker")' = Key("worker")
  BY <1>1, GoToStep DEF Threads, Labels, Key
<1>3. Busy' /\ Jobs'
  BY <1>1, <1>2 DEF Jobs, Busy, At, Key
<1>4. QED  BY <1>1, <1>2, <1>3, CallerSame, RequestsSame

LEMMA IdleJob == Idle \in JobType /\ Idle.pc = "idle" /\ Idle.victim = NoId
BY DEF Idle, JobType, Labels, NoId

LEMMA WorkerPopInv == ASSUME Inv, WorkerPop PROVE Inv'
<1>1. Tables /\ Blocks /\ Stamps /\ Jobs /\ Caller /\ Fresh /\ Requests
  BY DEF Inv
<1> DEFINE h == Head(async_queue_)
<1>2. /\ At("worker", "idle") /\ async_queue_ # <<>> /\ async_queue_' = Tail(async_queue_)
      /\ job' = [job EXCEPT !["worker"] = [Idle EXCEPT !.pc = "lock", !.layer = h[1], !.id = h[2]]]
      /\ UNCHANGED <<cacheVars, async_inflight_, arg, written>>
  BY DEF WorkerPop
<1>3. /\ Tail(async_queue_) \in Seq(Keys) /\ IsInjective(Tail(async_queue_)) /\ h \in Keys
      /\ h \notin ToSet(Tail(async_queue_)) /\ ToSet(async_queue_) = ToSet(Tail(async_queue_)) \cup {h}
  BY <1>1, <1>2, PopRequest DEF Requests
<1> HIDE DEF h
<1>4. PICK l \in Layers, id \in Ids : h = <<l, id>>
  BY <1>3 DEF Keys
<1> DEFINE j == [Idle EXCEPT !.pc = "lock", !.layer = l, !.id = id]
<1>5. job' = [job EXCEPT !["worker"] = j]
  <2>1. h[1] = l /\ h[2] = id
    BY <1>4
  <2>2. QED  BY <1>2, <2>1, Zenon
<1>6. j \in JobType /\ j.pc = "lock" /\ j.layer = l /\ j.id = id
  <2>1. l \in Int /\ id \in Int
    BY ConstantsAssumption DEF Ids
  <2>2. QED  BY <2>1, IdleJob DEF JobType, Labels
<1> HIDE DEF j
<1>7. job' \in [Threads -> JobType] /\ job'["worker"] = j /\ job'["caller"] = job["caller"]
  BY <1>1, <1>5, <1>6 DEF Jobs, Threads
<1>8. ~Busy /\ Busy' /\ Key("worker")' = h
  BY <1>2, <1>4, <1>6, <1>7 DEF Busy, At, Key
<1>9. Jobs'
  BY <1>1, <1>3, <1>6, <1>7, <1>8 DEF Jobs, At
<1>10. Requests'
  BY <1>1, <1>2, <1>3, <1>8 DEF Requests, Working
<1>11. Tables' /\ Blocks' /\ Stamps' /\ Caller' /\ Fresh'
  BY <1>1, <1>2, <1>7, Same, CallerSame DEF cacheVars
<1>12. QED  BY <1>9, <1>10, <1>11 DEF Inv

LEMMA WorkerLockInv == ASSUME Inv, WorkerLock PROVE Inv'
<1>1. Tables /\ Blocks /\ Stamps /\ UNCHANGED <<cacheVars, asyncVars, arg, written>>
  BY DEF Inv, WorkerLock
<1>2. Busy /\ GoTo("worker", "load")
  BY DEF WorkerLock, Busy, At
<1>3. QED  BY <1>1, <1>2, WorkerGoesOn, Same DEF Inv, cacheVars, asyncVars

LEMMA PureVirtualInv == ASSUME Inv, PureVirtual PROVE Inv'
<1>1. Tables /\ Blocks /\ Stamps /\ Jobs /\ UNCHANGED <<cacheVars, asyncVars, arg, written>>
  BY DEF Inv, PureVirtual
<1>2. Busy /\ GoTo("worker", "terminated")
  BY <1>1 DEF PureVirtual, EvictDue, Jobs, Busy, At
<1>3. QED  BY <1>1, <1>2, WorkerGoesOn, Same DEF Inv, cacheVars, asyncVars

LEMMA WorkerDoneInv == ASSUME Inv, WorkerDone PROVE Inv'
<1>1. Tables /\ Blocks /\ Stamps /\ Jobs /\ Caller /\ Fresh /\ Requests
  BY DEF Inv
<1>2. /\ At("worker", "loaded") /\ async_inflight_' = async_inflight_ \ {Key("worker")}
      /\ job' = [job EXCEPT !["worker"] = Idle] /\ UNCHANGED <<cacheVars, async_queue_, arg, written>>
  BY DEF WorkerDone, Key
<1>3. Idle \in JobType /\ Idle.pc = "idle"
  BY DEF Idle, JobType, Labels, NoId
<1>4. job' \in [Threads -> JobType] /\ job'["worker"] = Idle /\ job'["caller"] = job["caller"]
  BY <1>1, <1>2, <1>3 DEF Jobs, Threads
<1>5. Busy /\ ~Busy'
  BY <1>2, <1>3, <1>4 DEF Busy, At
<1>6. Jobs'
  BY <1>1, <1>3, <1>4, <1>5 DEF Jobs, At
<1>7. Requests'
  BY <1>1, <1>2, <1>5 DEF Requests, Working
<1>8. Tables' /\ Blocks' /\ Stamps' /\ Caller' /\ Fresh'
  BY <1>1, <1>2, <1>4, Same, CallerSame DEF cacheVars
<1>9. QED  BY <1>6, <1>7, <1>8 DEF Inv

LEMMA WorkerExitInv == ASSUME Inv, WorkerExit PROVE Inv'
<1>1. Tables /\ Blocks /\ Stamps /\ Jobs /\ Caller /\ Fresh /\ Requests
  BY DEF Inv
<1>2. At("worker", "idle") /\ GoTo("worker", "exited") /\ UNCHANGED <<cacheVars, asyncVars, arg, written>>
  BY DEF WorkerExit
<1>3. /\ job' \in [Threads -> JobType] /\ job'["caller"] = job["caller"]
      /\ job'["worker"].pc = "exited" /\ Key("worker")' = Key("worker")
  BY <1>1, <1>2, GoToStep DEF Jobs, Threads, Labels, Key
<1>4. ~Busy /\ ~Busy'
  BY <1>2, <1>3 DEF Busy, At
<1>5. Jobs'
  BY <1>1, <1>3, <1>4 DEF Jobs, At
<1>6. QED  BY <1>1, <1>2, <1>3, <1>4, <1>5, Same, CallerSame, RequestsSame DEF Inv, cacheVars, asyncVars

-----------------------------------------------------------------------------
(* Evictions and loads, by either thread.                                  *)

\* A thread moves between evict, load and loaded; its block stays the same.
LEMMA LoadingStep ==
    ASSUME Inv, NEW p \in Threads, NEW j \in JobType, job' = [job EXCEPT ![p] = j],
           j.layer = job[p].layer, j.id = job[p].id,
           \/ job[p].pc \in {"load", "alloc"} /\ j.pc = "evict" /\ j.back = job[p].pc
           \/ job[p].pc = "evict" /\ j.pc = job[p].back
           \/ job[p].pc = "load" /\ j.pc = "loaded",
           UNCHANGED <<table, next_block_id_, arg, async_queue_, async_inflight_>>,
           \A l \in Layers : DOMAIN blocks'[l] = DOMAIN blocks[l]
    PROVE  Jobs' /\ Caller' /\ Fresh' /\ Requests'
<1>1. Jobs /\ Caller /\ Fresh /\ Requests /\ job \in [Threads -> JobType]
  BY DEF Inv, Jobs
<1>2. job' \in [Threads -> JobType] /\ job'[p] = j /\ \A q \in Threads \ {p} : job'[q] = job[q]
  BY <1>1
<1>3. Key("worker")' = Key("worker") /\ Key("caller")' = Key("caller")
  BY <1>2 DEF Key, Threads
<1>4. CASE p = "worker"
  <2>1. job'["caller"] = job["caller"] /\ job'["worker"] = j
    BY <1>2, <1>4 DEF Threads
  <2>2. Busy /\ Busy' /\ Jobs'
    BY <1>1, <1>2, <1>3, <1>4, <2>1 DEF Jobs, Busy, At
  <2>3. QED  BY <1>1, <1>3, <2>1, <2>2, CallerSame, RequestsSame
<1>5. CASE p = "caller"
  <2>1. job'["worker"] = job["worker"] /\ job'["caller"] = j
    BY <1>2, <1>5 DEF Threads
  <2>2. Busy' <=> Busy
    BY <2>1 DEF Busy, At
  <2>3. Jobs'
    BY <1>1, <1>2, <1>3, <1>5, <2>1, <2>2 DEF Jobs, At
  <2>4. Requests'
    BY <1>1, <1>3, <2>2, RequestsSame
  <2>5. /\ In("caller", "alloc")' <=> In("caller", "alloc")
        /\ In("caller", "load")' => In("caller", "load")
        /\ At("caller", "loaded")' => In("caller", "load")
        /\ ~At("caller", "lock")' /\ ~At("caller", "idle")
    BY <1>1, <1>5, <2>1 DEF In, Evicting, At, Jobs
  <2>6. Appending' <=> Appending
    BY <1>1, <1>5, <2>1, <2>5 DEF Appending, At, Jobs
  <2>7. Caller'
    BY <1>1, <1>3, <2>1, <2>5, <2>6 DEF Caller, Resolve, At
  <2>8. In("caller", "alloc") => job["caller"].layer \in Layers
    <3>1. In("caller", "alloc") => arg.op = "append"
      BY <1>1 DEF Caller, Appending
    <3>2. In("caller", "alloc") => Key("caller") \in Keys
      BY <1>1, <2>5, <3>1 DEF Caller
    <3>3. QED  BY <3>2 DEF Key, Keys
  <2>9. Fresh'
    BY <1>1, <1>5, <2>1, <2>5, <2>8 DEF Fresh, HasBlock
  <2>10. QED  BY <2>3, <2>4, <2>7, <2>9
<1>6. QED  BY <1>4, <1>5 DEF Threads

\* A thread that loads or evicts does so in a layer of the cache.
LEMMA LoadingLayer ==
    ASSUME Inv, NEW p \in Threads, job[p].pc \in {"load", "alloc", "evict"}
    PROVE  job[p].layer \in Layers /\ job[p].id \in Ids
<1>1. Key(p) \in Keys
  <2>1. CASE p = "worker"
    BY <2>1 DEF Inv, Jobs, Busy, At
  <2>2. CASE p = "caller"
    <3>1. In("caller", "load") \/ In("caller", "alloc")
      BY <2>2 DEF Inv, Jobs, In, Evicting, At
    <3>2. CASE In("caller", "load")
      BY <2>2, <3>2 DEF Inv, Caller
    <3>3. CASE In("caller", "alloc")
      <4>1. arg.op = "append"
        BY <3>3 DEF Inv, Caller, Appending
      <4>2. QED  BY <2>2, <4>1 DEF Inv, Caller, At
    <3>4. QED  BY <3>1, <3>2, <3>3
  <2>3. QED  BY <2>1, <2>2 DEF Threads
<1>2. QED  BY <1>1 DEF Key, Keys

\* The block that LoadRead commits.
LEMMA LoadedBlock ==
    ASSUME Inv, NEW p \in Threads, LoadRead(p)
    PROVE  /\ blocks' = [m \in Layers |-> blocks'[m]]
           /\ \A m \in Layers :
                /\ DOMAIN blocks'[m] = DOMAIN blocks[m] /\ blocks'[m] \in [DOMAIN blocks[m] -> BlockType]
                /\ \A i \in DOMAIN blocks[m] :
                     /\ blocks'[m][i].on_disk <=> blocks[m][i].on_disk /\ <<m, i>> # Key(p)
                     /\ <<m, i>> # Key(p) => blocks'[m][i] = blocks[m][i]
                     /\ <<m, i>> = Key(p) => blocks'[m][i].data = files[Key(p)]
<1> DEFINE l == job[p].layer
           id == job[p].id
           blk == [blocks[l][id] EXCEPT !.on_disk = FALSE, !.data = files[<<l, id>>]]
<1>1. /\ OnDisk(l, id) /\ <<l, id>> \in DOMAIN files
      /\ blocks' = [blocks EXCEPT ![l][id].on_disk = FALSE, ![l][id].data = files[<<l, id>>]]
  BY DEF LoadRead
<1>2. Blocks /\ l \in Layers /\ id \in DOMAIN blocks[l]
  BY <1>1, LoadingLayer DEF Inv, LoadRead, At, OnDisk, HasBlock
<1>3. blocks[l][id] \in BlockType /\ files[<<l, id>>] \in Contents
  BY <1>1, <1>2, BlockShape DEF Blocks
<1> HIDE DEF l, id
<1>4. blk \in BlockType /\ ~blk.on_disk /\ blk.data = files[<<l, id>>]
  BY <1>3 DEF BlockType
<1>5. blocks' = [blocks EXCEPT ![l] = [@ EXCEPT ![id] = blk]]
  BY <1>1
<1> HIDE DEF blk
<1>6. /\ blocks' = [m \in Layers |-> blocks'[m]]
      /\ \A m \in Layers :
           /\ DOMAIN blocks'[m] = DOMAIN blocks[m] /\ blocks'[m] \in [DOMAIN blocks[m] -> BlockType]
           /\ \A i \in DOMAIN blocks[m] : blocks'[m][i] = IF <<m, i>> = <<l, id>> THEN blk ELSE blocks[m][i]
  BY <1>2, <1>4, <1>5, ChangedBlock
<1>7. QED  BY <1>4, <1>6 DEF Key, l, id

LEMMA EvictWriteInv == ASSUME Inv, NEW p \in Threads, EvictWrite(p) PROVE Inv'
<1> DEFINE l == job[p].layer
           v == LruOf(l)
           j == [job[p] EXCEPT !.pc = "evict", !.victim = v, !.back = job[p].pc]
<1>1. /\ job[p].pc \in {"load", "alloc"} /\ Resident(l) # {}
      /\ files' = WithFile(<<l, v>>, blocks[l][v].data)
      /\ job' = [job EXCEPT ![p].pc = "evict", ![p].victim = v, ![p].back = job[p].pc]
      /\ UNCHANGED <<table, blocks, recency, next_block_id_, arg, async_queue_, async_inflight_, written>>
  BY DEF EvictWrite, EvictDue, At, asyncVars
<1>2. Tables /\ Blocks /\ Stamps /\ job \in [Threads -> JobType] /\ l \in Layers
  BY <1>1, LoadingLayer DEF Inv, Jobs
<1>3. v \in Resident(l)
  BY <1>1, <1>2, LruResident
<1> HIDE DEF v
<1>4. v \in Ids /\ v \in Int /\ v \in DOMAIN blocks[l] /\ blocks[l][v].data \in Contents
  <2>1. v \in DOMAIN blocks[l] /\ v \in Ids /\ blocks[l][v] \in BlockType
    BY <1>2, <1>3, BlockShape DEF Resident
  <2>2. QED  BY <2>1, ConstantsAssumption DEF Ids, BlockType
<1>5. job' = [job EXCEPT ![p] = j] /\ j \in JobType /\ j.layer = job[p].layer /\ j.id = job[p].id
      /\ j.pc = "evict" /\ j.back = job[p].pc
  BY <1>1, <1>2, <1>4 DEF JobType, Labels
<1> HIDE DEF j
<1>6. Jobs' /\ Caller' /\ Fresh' /\ Requests'
  BY <1>1, <1>5, LoadingStep
<1>7. /\ DOMAIN files' = DOMAIN files \cup {<<l, v>>}
      /\ \A k \in DOMAIN files' : files'[k] = IF k = <<l, v>> THEN blocks[l][v].data ELSE files[k]
  BY <1>1 DEF WithFile
<1>8. <<l, v>> \in Keys
  BY <1>2, <1>4 DEF Keys
<1>9. Tables' /\ Blocks' /\ Stamps'
  BY <1>1, <1>2, <1>4, <1>7, <1>8 DEF Tables, Blocks, Stamps
<1>10. QED  BY <1>6, <1>9 DEF Inv

LEMMA EvictDropInv == ASSUME Inv, NEW p \in Threads, EvictDrop(p) PROVE Inv'
<1> DEFINE ks == {<<job[p].layer, job[p].victim>>}
           j == [job[p] EXCEPT !.pc = job[p].back, !.victim = NoId]
<1>1. /\ job[p].pc = "evict" /\ blocks' = Evicted(ks)
      /\ job' = [job EXCEPT ![p].pc = job[p].back, ![p].victim = NoId]
      /\ UNCHANGED <<table, files, recency, next_block_id_, arg, async_queue_, async_inflight_, written>>
  BY DEF EvictDrop, At, asyncVars
<1>2. Tables /\ Blocks /\ Stamps /\ job \in [Threads -> JobType]
  BY DEF Inv, Jobs
<1>3. job' = [job EXCEPT ![p] = j] /\ j \in JobType /\ j.layer = job[p].layer /\ j.id = job[p].id
      /\ j.pc = job[p].back
  <2>1. job' = [job EXCEPT ![p].pc = job[p].back, ![p].victim = NoId] /\ NoId \in Int
    BY <1>1 DEF NoId
  <2>2. j \in JobType /\ j.layer = job[p].layer /\ j.id = job[p].id /\ j.pc = job[p].back
    BY <1>2, <2>1 DEF JobType
  <2>3. job' = [job EXCEPT ![p] = j]
    BY <1>2, <2>1
  <2>4. QED  BY <2>2, <2>3
<1> HIDE DEF j, ks
<1>4. /\ blocks' = [l \in Layers |-> blocks'[l]]
      /\ \A l \in Layers : DOMAIN blocks'[l] = DOMAIN blocks[l] /\ blocks'[l] \in [DOMAIN blocks[l] -> BlockType]
  BY <1>1, <1>2, EvictedBlocks
<1>5. Jobs' /\ Caller' /\ Fresh' /\ Requests'
  BY <1>1, <1>3, <1>4, LoadingStep
<1>6. Blocks'
  <2>1. \A l \in Layers : DOMAIN blocks'[l] \subseteq Ids /\ blocks'[l] \in [DOMAIN blocks'[l] -> BlockType]
    BY <1>2, <1>4, BlockShape
  <2>2. DOMAIN files' \subseteq Keys /\ \A k \in DOMAIN files' : files'[k] \in Contents
    BY <1>1, <1>2 DEF Blocks
  <2>3. QED  BY <1>4, <2>1, <2>2, ShapedBlocks
<1>7. Tables' /\ Stamps'
  BY <1>1, <1>2, <1>4 DEF Tables, Stamps
<1>8. QED  BY <1>5, <1>6, <1>7 DEF Inv

LEMMA LoadEndInv == ASSUME Inv, NEW p \in Threads, LoadGiveUp(p) \/ LoadRead(p) PROVE Inv'
<1> DEFINE j == [job[p] EXCEPT !.pc = "loaded"]
<1>1. /\ job[p].pc = "load" /\ GoTo(p, "loaded")
      /\ UNCHANGED <<table, recency, next_block_id_, arg, async_queue_, async_inflight_, written>>
  BY DEF LoadGiveUp, LoadRead, At, asyncVars, cacheVars
<1>2. Tables /\ Blocks /\ Stamps /\ job \in [Threads -> JobType]
  BY DEF Inv, Jobs
<1>3. job' = [job EXCEPT ![p] = j] /\ j \in JobType /\ j.layer = job[p].layer /\ j.id = job[p].id
      /\ j.pc = "loaded"
  BY <1>1, <1>2 DEF JobType, Labels, GoTo
<1> HIDE DEF j
<1>4. Blocks' /\ \A l \in Layers : DOMAIN blocks'[l] = DOMAIN blocks[l]
  <2>1. CASE LoadGiveUp(p)
    BY <1>2, <2>1 DEF LoadGiveUp, cacheVars, Blocks
  <2>2. CASE LoadRead(p)
    <3>1. /\ blocks' = [m \in Layers |-> blocks'[m]]
          /\ \A m \in Layers : DOMAIN blocks'[m] = DOMAIN blocks[m] /\ blocks'[m] \in [DOMAIN blocks[m] -> BlockType]
      BY <2>2, LoadedBlock
    <3>2. /\ DOMAIN files' \subseteq DOMAIN files
          /\ \A k \in DOMAIN files' : files'[k] = files[k]
      BY <2>2 DEF LoadRead, WithoutFiles
    <3>3. DOMAIN files' \subseteq Keys /\ \A k \in DOMAIN files' : files'[k] \in Contents
      BY <1>2, <3>2 DEF Blocks
    <3>4. \A m \in Layers : DOMAIN blocks'[m] \subseteq Ids /\ blocks'[m] \in [DOMAIN blocks'[m] -> BlockType]
      BY <1>2, <3>1, BlockShape
    <3>5. QED  BY <3>1, <3>3, <3>4, ShapedBlocks
  <2>3. QED  BY <2>1, <2>2
<1>5. Jobs' /\ Caller' /\ Fresh' /\ Requests'
  BY <1>1, <1>3, <1>4, LoadingStep
<1>6. Tables' /\ Stamps'
  BY <1>1, <1>2, <1>4 DEF Tables, Stamps
<1>7. QED  BY <1>4, <1>5, <1>6 DEF Inv

-----------------------------------------------------------------------------
(* Steps of the caller.                                                    *)

LEMMA NoArgType == NoArg \in ArgType /\ NoArg.op = "none"
BY DEF NoArg, ArgType

\* The caller's operation ends.
LEMMA CallerEnds ==
    ASSUME Inv, job' = [job EXCEPT !["caller"] = Idle], arg' = NoArg,
           UNCHANGED <<async_queue_, async_inflight_>>,
           \A l \in Layers : \A id \in DOMAIN blocks'[l] : id < next_block_id_',
           \A l \in Layers, b \in BlockIndexes : table'[l][b] < next_block_id_',
           \A l \in Layers, b, c \in BlockIndexes : table'[l][b] = table'[l][c] /\ table'[l][b] # NoId => b = c
    PROVE  Jobs' /\ Caller' /\ Fresh' /\ Requests' /\ ~Appending' /\ job'["worker"] = job["worker"]
<1>1. Jobs /\ Requests /\ job \in [Threads -> JobType]
  BY DEF Inv, Jobs
<1>2. /\ job' \in [Threads -> JobType] /\ job'["worker"] = job["worker"] /\ job'["caller"] = Idle
      /\ job'["caller"].pc = "idle"
  BY <1>1, IdleJob DEF Threads
<1>3. Key("worker")' = Key("worker") /\ (Busy' <=> Busy)
  BY <1>2 DEF Key, Busy, At
<1>4. Jobs' /\ Requests'
  BY <1>1, <1>2, <1>3, RequestsSame DEF Jobs, At
<1>5. ~In("caller", "alloc")' /\ ~In("caller", "load")' /\ ~Appending'
  BY <1>2 DEF In, Evicting, At, Appending
<1>6. Caller'
  BY <1>2, <1>5, NoArgType DEF Caller, At
<1>7. QED  BY <1>2, <1>4, <1>5, <1>6 DEF Fresh

\* The caller's operation begins, at a place where no block is allocated.
LEMMA CallerBegins ==
    ASSUME Inv, NEW l \in Layers, NEW pos \in Positions, NEW place \in {"ensure", "write", "lock", "loaded"},
           NEW a \in ArgType, arg' = a, a.pos = pos,
           job' = [job EXCEPT !["caller"] = [Idle EXCEPT !.layer = l, !.id = Resolve(l, pos), !.pc = place]],
           HasBlock(l, Resolve(l, pos)),
           \/ place \in {"ensure", "write"} /\ a.op = "append" /\ a.n \in 1 .. BlockSize /\ a.tag \in Tags
           \/ place \in {"lock", "loaded"} /\ a.op = "get_range",
           UNCHANGED <<cacheVars, asyncVars, written>>
    PROVE  Inv'
<1>1. Tables /\ Blocks /\ Stamps /\ Jobs /\ Fresh /\ Requests /\ job \in [Threads -> JobType]
  BY DEF Inv, Jobs
<1> DEFINE id == Resolve(l, pos)
           j == [Idle EXCEPT !.layer = l, !.id = id, !.pc = place]
<1>2. id \in Ids /\ l \in Int /\ id \in Int
  BY <1>1, BlockShape, ConstantsAssumption DEF HasBlock, Ids
<1> HIDE DEF id
<1>3. j \in JobType /\ j.pc = place /\ j.layer = l /\ j.id = id
  BY <1>2, IdleJob DEF JobType, Labels
<1>4. job' = [job EXCEPT !["caller"] = j]
  BY DEF id
<1> HIDE DEF j
<1>5. job' \in [Threads -> JobType] /\ job'["worker"] = job["worker"] /\ job'["caller"] = j
  BY <1>1, <1>3, <1>4 DEF Threads
<1>6. Key("worker")' = Key("worker") /\ (Busy' <=> Busy)
  BY <1>5 DEF Key, Busy, At
<1>7. Jobs' /\ Requests'
  BY <1>1, <1>3, <1>5, <1>6, RequestsSame DEF Jobs, At, asyncVars
<1>8. ~In("caller", "alloc")' /\ ~In("caller", "load")' /\ (Appending' <=> place \in {"ensure", "write"})
  BY <1>3, <1>5 DEF In, Evicting, At, Appending
<1>9. Key("caller")' \in Keys /\ Resolve(l, pos)' = id
  BY <1>2, <1>3, <1>5 DEF Key, Keys, Resolve, cacheVars, id
<1>10. Caller'
  BY <1>3, <1>5, <1>8, <1>9 DEF Caller, At
<1>11. Fresh'
  BY <1>1, <1>8 DEF Fresh, cacheVars
<1>12. QED  BY <1>1, <1>7, <1>10, <1>11, Same DEF Inv, cacheVars

LEMMA AppendKnownInv ==
    ASSUME Inv, NEW l \in Layers, NEW pos \in Positions, NEW n \in 1 .. BlockSize, NEW tag \in Tags,
           AppendKnown(l, pos, n, tag)
    PROVE  Inv'
<1> DEFINE a == [NoArg EXCEPT !.op = "append", !.pos = pos, !.n = n, !.tag = tag]
           place == IF OnDisk(l, Resolve(l, pos)) THEN "ensure" ELSE "write"
<1>1. /\ arg' = a /\ HasBlock(l, Resolve(l, pos)) /\ UNCHANGED <<cacheVars, asyncVars, written>>
      /\ job' = [job EXCEPT !["caller"] = [Idle EXCEPT !.layer = l, !.id = Resolve(l, pos), !.pc = place]]
  BY DEF AppendKnown
<1>2. pos \in Int /\ n \in Int
  BY PositionParts
<1>3. a \in ArgType /\ a.op = "append" /\ a.pos = pos /\ a.n = n /\ a.tag = tag
  BY <1>2, NoArgType DEF ArgType
<1>4. place \in {"ensure", "write"}
  OBVIOUS
<1> HIDE DEF a, place
<1>5. QED  BY <1>1, <1>3, <1>4, CallerBegins

LEMMA GetStartInv == ASSUME Inv, NEW l \in Layers, NEW pos \in Positions, GetStart(l, pos) PROVE Inv'
<1> DEFINE a == [NoArg EXCEPT !.op = "get_range", !.pos = pos]
           place == IF OnDisk(l, Resolve(l, pos)) THEN "lock" ELSE "loaded"
<1>1. /\ arg' = a /\ HasBlock(l, Resolve(l, pos)) /\ UNCHANGED <<cacheVars, asyncVars, written>>
      /\ job' = [job EXCEPT !["caller"] = [Idle EXCEPT !.layer = l, !.id = Resolve(l, pos), !.pc = place]]
  BY DEF GetStart
<1>2. pos \in Int
  BY PositionParts
<1>3. a \in ArgType /\ a.op = "get_range" /\ a.pos = pos
  BY <1>2, NoArgType DEF ArgType
<1>4. place \in {"lock", "loaded"}
  OBVIOUS
<1> HIDE DEF a, place
<1>5. QED  BY <1>1, <1>3, <1>4, CallerBegins

\* The caller goes from place to place with the same block.
LEMMA CallerGoesOn ==
    ASSUME Inv, NEW label \in Labels, GoTo("caller", label), UNCHANGED <<cacheVars, arg, written>>,
           \/ job["caller"].pc \in {"ensure", "wait"} /\ label \in {"wait", "write"}
           \/ At("caller", "lock") /\ label = "load"
    PROVE  /\ Tables' /\ Blocks' /\ Stamps' /\ Jobs' /\ Caller' /\ Fresh'
           /\ job'["worker"] = job["worker"] /\ Key("worker")' = Key("worker") /\ (Busy' <=> Busy)
<1>1. Tables /\ Blocks /\ Stamps /\ Jobs /\ Caller /\ Fresh /\ job \in [Threads -> JobType]
  BY DEF Inv, Jobs
<1>2. /\ job' \in [Threads -> JobType] /\ job'["worker"] = job["worker"] /\ job'["caller"].pc = label
      /\ job'["caller"].layer = job["caller"].layer /\ job'["caller"].id = job["caller"].id
  BY <1>1, GoToStep DEF Threads
<1>3. Key("worker")' = Key("worker") /\ (Busy' <=> Busy) /\ Key("caller")' = Key("caller")
  BY <1>2 DEF Key, Busy, At
<1>4. Jobs'
  BY <1>1, <1>2, <1>3 DEF Jobs, At
<1>5. /\ ~In("caller", "alloc")' /\ (Appending' => Appending) /\ (In("caller", "load")' => At("caller", "lock"))
      /\ ~At("caller", "lock")' /\ ~At("caller", "loaded")' /\ ~At("caller", "idle")
  BY <1>2 DEF In, Evicting, At, Appending
<1>6. Caller'
  BY <1>1, <1>2, <1>3, <1>5 DEF Caller, Resolve, cacheVars
<1>7. Fresh'
  BY <1>1, <1>5 DEF Fresh, cacheVars
<1>8. QED  BY <1>1, <1>2, <1>3, <1>4, <1>6, <1>7, Same DEF cacheVars

\* enqueue_async() with a block of the cache.
LEMMA EnqueueStep ==
    ASSUME Requests, NEW key \in Keys, Enqueue(key), Busy' <=> Busy, Key("worker")' = Key("worker")
    PROVE  Requests'
<1>1. CASE key \in async_inflight_
  BY <1>1, RequestsSame DEF Enqueue
<1>2. CASE key \notin async_inflight_
  <2>1. /\ key \notin ToSet(async_queue_) /\ key \notin Working /\ Working' = Working
        /\ async_queue_' = Append(async_queue_, key) /\ async_inflight_' = async_inflight_ \cup {key}
    BY <1>2 DEF Requests, Enqueue, Working
  <2>2. /\ async_queue_' \in Seq(Keys) /\ IsInjective(async_queue_')
        /\ ToSet(async_queue_') = ToSet(async_queue_) \cup {key}
    BY <2>1, AppendRequest DEF Requests
  <2>3. async_inflight_' = ToSet(async_queue_') \cup Working' /\ ToSet(async_queue_') \cap Working' = {}
    BY <2>1, <2>2 DEF Requests
  <2>4. QED  BY <2>2, <2>3 DEF Requests
<1>3. QED  BY <1>1, <1>2

LEMMA EnsureInv ==
    ASSUME Inv, EnsureResident \/ EnsureEnqueue \/ EnsureWake \/ EnsureTimeout \/ GetLock
    PROVE  Inv'
<1>1. Requests /\ Caller /\ Fresh
  BY DEF Inv
<1>2. CASE EnsureEnqueue
  <2>1. GoTo("caller", "wait") /\ UNCHANGED <<cacheVars, arg, written>> /\ Enqueue(Key("caller")) /\ At("caller", "ensure")
    BY <1>2 DEF EnsureEnqueue, Key
  <2>2. /\ Tables' /\ Blocks' /\ Stamps' /\ Jobs' /\ Caller' /\ Fresh'
        /\ Key("worker")' = Key("worker") /\ (Busy' <=> Busy)
    BY <2>1, CallerGoesOn DEF At, Labels
  <2>3. Key("caller") \in Keys
    BY <1>1, <2>1 DEF Caller, Appending, At
  <2>4. QED  BY <1>1, <2>1, <2>2, <2>3, EnqueueStep DEF Inv
<1>3. CASE EnsureTimeout
  <2>1. job' = [job EXCEPT !["caller"] = Idle] /\ arg' = NoArg /\ UNCHANGED <<cacheVars, asyncVars, written>>
    BY <1>3 DEF EnsureTimeout
  <2>2. Jobs' /\ Caller' /\ Fresh' /\ Requests'
    BY <1>1, <2>1, CallerEnds DEF Fresh, cacheVars, asyncVars
  <2>3. QED  BY <2>1, <2>2, Same DEF Inv, cacheVars
<1>4. CASE EnsureResident \/ EnsureWake \/ GetLock
  <2>1. PICK label \in {"write", "load"} :
          /\ GoTo("caller", label) /\ UNCHANGED <<cacheVars, asyncVars, arg, written>>
          /\ \/ job["caller"].pc \in {"ensure", "wait"} /\ label \in {"wait", "write"}
             \/ At("caller", "lock") /\ label = "load"
    BY <1>4 DEF EnsureResident, EnsureWake, GetLock, At
  <2>2. /\ Tables' /\ Blocks' /\ Stamps' /\ Jobs' /\ Caller' /\ Fresh'
        /\ Key("worker")' = Key("worker") /\ (Busy' <=> Busy)
    BY <2>1, CallerGoesOn DEF Labels
  <2>3. QED  BY <1>1, <2>1, <2>2, RequestsSame DEF Inv, asyncVars
<1>5. QED  BY <1>2, <1>3, <1>4

LEMMA PrefetchInv ==
    ASSUME Inv, NEW l \in Layers, NEW b \in BlockIndexes, Prefetch(l, b)
    PROVE  Inv'
<1>1. /\ Tables /\ Blocks /\ Stamps /\ Jobs /\ Caller /\ Fresh /\ Requests
      /\ table[l][b] # NoId /\ Enqueue(<<l, table[l][b]>>) /\ UNCHANGED <<cacheVars, job, arg, written>>
  BY DEF Inv, Prefetch
<1>2. <<l, table[l][b]>> \in Keys
  BY <1>1 DEF Tables, Keys
<1>3. (Busy' <=> Busy) /\ Key("worker")' = Key("worker") /\ Jobs'
  BY <1>1 DEF Busy, At, Key, Jobs
<1>4. Requests'
  BY <1>1, <1>2, <1>3, EnqueueStep
<1>5. QED  BY <1>1, <1>3, <1>4, Same, CallerSame DEF Inv, cacheVars

\* alloc_block_id(): the slot gets an id that is in no table and names no block.
LEMMA AppendNewInv ==
    ASSUME Inv, NEW l \in Layers, NEW pos \in Positions, NEW n \in 1 .. BlockSize, NEW tag \in Tags,
           AppendNew(l, pos, n, tag)
    PROVE  Inv'
<1> DEFINE a == [NoArg EXCEPT !.op = "append", !.pos = pos, !.n = n, !.tag = tag]
           new == next_block_id_
           s == pos \div BlockSize
           j == [Idle EXCEPT !.pc = "alloc", !.layer = l, !.id = new]
<1>1. /\ arg' = a /\ new < MaxId /\ table' = [table EXCEPT ![l][s] = new] /\ next_block_id_' = new + 1
      /\ job' = [job EXCEPT !["caller"] = j]
      /\ UNCHANGED <<blocks, files, recency, asyncVars, written>>
  BY DEF AppendNew
<1>2. Tables /\ Blocks /\ Stamps /\ Jobs /\ Fresh /\ Requests /\ job \in [Threads -> JobType]
  BY DEF Inv, Jobs
<1>3. pos \in Int /\ n \in Int /\ s \in BlockIndexes /\ l \in Int
  BY PositionParts, ConstantsAssumption
<1>4. new \in Ids /\ new \in Nat /\ new # NoId
  BY <1>1, <1>2, ConstantsAssumption DEF Tables, Ids, NoId
<1>5. a \in ArgType /\ a.op = "append" /\ a.pos = pos /\ a.n = n /\ a.tag = tag
  BY <1>3, NoArgType DEF ArgType
<1> HIDE DEF a, s
<1>6. j \in JobType /\ j.pc = "alloc" /\ j.layer = l /\ j.id = new
  <2>1. new \in Int /\ l \in Int
    BY <1>3, <1>4
  <2> HIDE DEF new
  <2>2. QED  BY <2>1, IdleJob DEF JobType, Labels
<1> HIDE DEF j
<1>7. job' \in [Threads -> JobType] /\ job'["worker"] = job["worker"] /\ job'["caller"] = j
  BY <1>1, <1>2, <1>6 DEF Threads
<1>8. Key("worker")' = Key("worker") /\ (Busy' <=> Busy)
  BY <1>7 DEF Key, Busy, At
<1>9. Jobs' /\ Requests'
  BY <1>1, <1>2, <1>6, <1>7, <1>8, RequestsSame DEF Jobs, At, asyncVars
<1>10. /\ table' \in [Layers -> [BlockIndexes -> Ids \cup {NoId}]]
       /\ \A m \in Layers, b \in BlockIndexes : table'[m][b] = IF m = l /\ b = s THEN new ELSE table[m][b]
  BY <1>1, <1>2, <1>3, <1>4 DEF Tables
<1>11. Tables'
  BY <1>1, <1>2, <1>4, <1>10 DEF Tables
<1>12. Blocks' /\ Stamps'
  BY <1>1, <1>2 DEF Blocks, Stamps
<1>13. Key("caller")' \in Keys /\ Resolve(l, pos)' = new
  BY <1>3, <1>4, <1>6, <1>7, <1>10 DEF Key, Keys, Resolve, s
<1>14. Appending' /\ ~At("caller", "lock")' /\ ~At("caller", "loaded")' /\ ~In("caller", "load")'
  BY <1>6, <1>7 DEF In, Evicting, At, Appending
<1>15. Caller'
  BY <1>1, <1>5, <1>6, <1>7, <1>13, <1>14 DEF Caller
<1>16. Fresh'
  <2>1. \A m \in Layers : \A id \in DOMAIN blocks[m] : id \in Int /\ id < new
    <3>1. \A m \in Layers : \A id \in DOMAIN blocks[m] : id \in Ids
      BY <1>2, BlockShape
    <3>2. QED  BY <1>2, <3>1, IdsInt DEF Fresh
  <2>2. \A m \in Layers, b \in BlockIndexes : table[m][b] \in Int /\ table[m][b] < new
    <3>1. \A m \in Layers, b \in BlockIndexes : table[m][b] \in Ids \cup {NoId}
      BY <1>2 DEF Tables
    <3>2. QED  BY <1>2, <3>1, IdsInt DEF Fresh
  <2>3. \A m \in Layers : \A id \in DOMAIN blocks'[m] : id < next_block_id_'
    BY <1>1, <1>4, <2>1
  <2>4. \A m \in Layers, b \in BlockIndexes : table'[m][b] < next_block_id_'
    BY <1>1, <1>4, <1>10, <2>2
  <2>5. \A m \in Layers, b, c \in BlockIndexes : table'[m][b] = table'[m][c] /\ table'[m][b] # NoId => b = c
    BY <1>2, <1>4, <1>10, <2>2 DEF Fresh
  <2>6. ~HasBlock(job["caller"].layer, job["caller"].id)'
    BY <1>1, <1>4, <1>6, <1>7, <2>1 DEF HasBlock
  <2>7. QED  BY <2>3, <2>4, <2>5, <2>6 DEF Fresh
<1>17. QED  BY <1>9, <1>11, <1>12, <1>15, <1>16 DEF Inv

\* The caller of append() at alloc.
LEMMA AllocFacts ==
    ASSUME Inv, At("caller", "alloc")
    PROVE  /\ job["caller"].layer \in Layers /\ job["caller"].id \in Ids /\ arg.pos \in Positions
           /\ job["caller"].id = Resolve(job["caller"].layer, arg.pos)
           /\ ~HasBlock(job["caller"].layer, job["caller"].id)
<1>1. Caller /\ Fresh /\ In("caller", "alloc") /\ ~At("caller", "idle")
  BY DEF Inv, In, At
<1>2. arg.op = "append"
  BY <1>1 DEF Caller, Appending
<1>3. QED  BY <1>1, <1>2 DEF Caller, Fresh, Key, Keys

LEMMA AllocFailInv == ASSUME Inv, AllocFail PROVE Inv'
<1> DEFINE l == job["caller"].layer
           s == arg.pos \div BlockSize
<1>1. /\ At("caller", "alloc") /\ table' = [table EXCEPT ![l][s] = NoId] /\ arg' = NoArg
      /\ job' = [job EXCEPT !["caller"] = Idle]
      /\ UNCHANGED <<blocks, files, recency, next_block_id_, asyncVars, written>>
  BY DEF AllocFail
<1>2. Tables /\ Blocks /\ Stamps /\ Fresh
  BY DEF Inv
<1>3. l \in Layers /\ s \in BlockIndexes
  BY <1>1, AllocFacts, PositionParts
<1> HIDE DEF l, s
<1>4. /\ table' \in [Layers -> [BlockIndexes -> Ids \cup {NoId}]]
      /\ \A m \in Layers, b \in BlockIndexes : table'[m][b] = IF m = l /\ b = s THEN NoId ELSE table[m][b]
  BY <1>1, <1>2, <1>3 DEF Tables
<1>5. Tables' /\ Blocks' /\ Stamps'
  BY <1>1, <1>2, <1>4 DEF Tables, Blocks, Stamps
<1>6. /\ \A m \in Layers, b \in BlockIndexes : table'[m][b] < next_block_id_'
      /\ \A m \in Layers, b, c \in BlockIndexes : table'[m][b] = table'[m][c] /\ table'[m][b] # NoId => b = c
      /\ \A m \in Layers : \A id \in DOMAIN blocks'[m] : id < next_block_id_'
  BY <1>1, <1>2, <1>4 DEF Fresh, Tables, NoId
<1>7. Jobs' /\ Caller' /\ Fresh' /\ Requests'
  BY <1>1, <1>6, CallerEnds DEF asyncVars
<1>8. QED  BY <1>5, <1>7 DEF Inv

\* The blocks after alloc_block_id().
LEMMA InsertedBlock ==
    ASSUME Inv, AllocInsert
    PROVE  /\ Key("caller") \in Keys /\ blocks' = [m \in Layers |-> blocks'[m]]
           /\ \A m \in Layers :
                /\ DOMAIN blocks'[m] = DOMAIN blocks[m] \cup {i \in {job["caller"].id} : m = job["caller"].layer}
                /\ \A i \in DOMAIN blocks'[m] :
                     /\ blocks'[m][i] \in BlockType
                     /\ blocks'[m][i] = IF <<m, i>> = Key("caller") THEN NewBlock ELSE blocks[m][i]
                /\ blocks'[m] \in [DOMAIN blocks'[m] -> BlockType]
<1> DEFINE l == job["caller"].layer
           id == job["caller"].id
           f == [i \in DOMAIN blocks[l] \cup {id} |-> IF i = id THEN NewBlock ELSE blocks[l][i]]
<1>1. blocks' = [blocks EXCEPT ![l] = f] /\ At("caller", "alloc")
  BY DEF AllocInsert, WithBlock
<1>2. /\ Blocks /\ l \in Layers /\ id \in Ids /\ DOMAIN blocks = Layers
      /\ \A m \in Layers : blocks[m] \in [DOMAIN blocks[m] -> BlockType]
  BY <1>1, AllocFacts, BlockShape DEF Inv, Blocks
<1>3. NewBlock \in BlockType
  BY DEF NewBlock, BlockType, Blank, Contents
<1> HIDE DEF l, id
<1>4. /\ DOMAIN f = DOMAIN blocks[l] \cup {id} /\ f \in [DOMAIN f -> BlockType]
      /\ \A i \in DOMAIN f : f[i] = IF i = id THEN NewBlock ELSE blocks[l][i]
  BY <1>2, <1>3
<1> HIDE DEF f
<1>5. /\ blocks' = [m \in Layers |-> blocks'[m]]
      /\ \A m \in Layers : blocks'[m] = IF m = l THEN f ELSE blocks[m]
  BY <1>1, <1>2
<1>6. ASSUME NEW m \in Layers
      PROVE  /\ DOMAIN blocks'[m] = DOMAIN blocks[m] \cup {i \in {id} : m = l}
             /\ \A i \in DOMAIN blocks'[m] :
                  /\ blocks'[m][i] \in BlockType
                  /\ blocks'[m][i] = IF <<m, i>> = <<l, id>> THEN NewBlock ELSE blocks[m][i]
             /\ blocks'[m] \in [DOMAIN blocks'[m] -> BlockType]
  <2>1. CASE m = l
    BY <1>4, <1>5, <2>1
  <2>2. CASE m # l
    BY <1>2, <1>5, <2>2
  <2>3. QED  BY <2>1, <2>2
<1>7. <<l, id>> \in Keys
  BY <1>2 DEF Keys
<1>8. QED  BY <1>5, <1>6, <1>7 DEF Key, l, id

LEMMA AllocInsertInv == ASSUME Inv, AllocInsert PROVE Inv'
<1>1. /\ At("caller", "alloc") /\ Touch(Key("caller")) /\ GoTo("caller", "write")
      /\ UNCHANGED <<table, files, next_block_id_, asyncVars, arg, written>>
  BY DEF AllocInsert, Key
<1>2. Tables /\ Blocks /\ Stamps /\ Jobs /\ Caller /\ Fresh /\ Requests /\ job \in [Threads -> JobType]
  BY DEF Inv, Jobs
<1> DEFINE l == job["caller"].layer
           id == job["caller"].id
<1>3. /\ Key("caller") \in Keys /\ blocks' = [m \in Layers |-> blocks'[m]]
      /\ \A m \in Layers : DOMAIN blocks'[m] = DOMAIN blocks[m] \cup {i \in {id} : m = l}
      /\ \A m \in Layers : blocks'[m] \in [DOMAIN blocks'[m] -> BlockType]
  BY InsertedBlock
<1>4. l \in Layers /\ id \in Ids /\ id = table[l][arg.pos \div BlockSize] /\ arg.pos \div BlockSize \in BlockIndexes
  BY <1>1, AllocFacts, PositionParts DEF Resolve
<1>5. /\ job' \in [Threads -> JobType] /\ job'["worker"] = job["worker"] /\ job'["caller"].pc = "write"
      /\ job'["caller"].layer = l /\ job'["caller"].id = id
  BY <1>1, <1>2, GoToStep DEF Threads, Labels
<1>6. Key("caller") = <<l, id>>
  BY DEF Key
<1> HIDE DEF l, id
<1>7. Key("worker")' = Key("worker") /\ (Busy' <=> Busy) /\ Key("caller")' = Key("caller")
  BY <1>5, <1>6 DEF Key, Busy, At
<1>8. Jobs' /\ Requests'
  BY <1>1, <1>2, <1>5, <1>7, RequestsSame DEF Jobs, At, asyncVars
<1>9. Blocks'
  <2>1. \A m \in Layers : DOMAIN blocks'[m] \subseteq Ids /\ blocks'[m] \in [DOMAIN blocks'[m] -> BlockType]
    BY <1>2, <1>3, <1>4, BlockShape
  <2>2. DOMAIN files' \subseteq Keys /\ \A k \in DOMAIN files' : files'[k] \in Contents
    BY <1>1, <1>2 DEF Blocks
  <2>3. QED  BY <1>3, <2>1, <2>2, ShapedBlocks
<1>10. Stamps'
  <2>1. recency' \in Seq(Keys) /\ Key("caller") \in ToSet(recency') /\ ToSet(recency) \subseteq ToSet(recency')
    BY <1>1, <1>2, <1>3, TouchCovers DEF Touch, Stamps
  <2>2. QED  BY <1>2, <1>3, <1>6, <2>1 DEF Stamps
<1>11. Tables'
  BY <1>1, <1>2 DEF Tables
<1>12. /\ Appending /\ Appending' /\ ~At("caller", "lock")' /\ ~At("caller", "loaded")'
       /\ ~In("caller", "load")' /\ ~In("caller", "alloc")' /\ ~At("caller", "idle")
  BY <1>1, <1>5 DEF In, Evicting, At, Appending
<1>13. Caller'
  BY <1>1, <1>2, <1>5, <1>7, <1>12 DEF Caller, Resolve, l, id
<1>14. Fresh'
  <2>1. id < next_block_id_
    BY <1>2, <1>4 DEF Fresh
  <2>2. QED  BY <1>1, <1>2, <1>3, <1>12, <2>1 DEF Fresh
<1>15. QED  BY <1>8, <1>9, <1>10, <1>11, <1>13, <1>14 DEF Inv

\* The caller of append() at write.
LEMMA WriteFacts ==
    ASSUME Inv, At("caller", "write")
    PROVE  /\ job["caller"].layer \in Layers /\ job["caller"].id \in Ids /\ arg.pos \in Positions
           /\ job["caller"].id = Resolve(job["caller"].layer, arg.pos)
           /\ arg.n \in 1 .. BlockSize /\ arg.tag \in Tags /\ Appending
<1>1. Caller /\ Appending /\ ~At("caller", "idle")
  BY DEF Inv, At, Appending
<1>2. arg.op = "append" /\ arg.n \in 1 .. BlockSize /\ arg.tag \in Tags
  BY <1>1 DEF Caller
<1>3. QED  BY <1>1, <1>2 DEF Caller, Key, Keys

\* The block that append() writes to.
LEMMA WrittenBlock ==
    ASSUME Inv, AppendWrite
    PROVE  /\ blocks' = [m \in Layers |-> blocks'[m]]
           /\ \A m \in Layers :
                /\ DOMAIN blocks'[m] = DOMAIN blocks[m] /\ blocks'[m] \in [DOMAIN blocks[m] -> BlockType]
                /\ \A i \in DOMAIN blocks[m] :
                     /\ blocks'[m][i].on_disk <=> blocks[m][i].on_disk
                     /\ <<m, i>> # Key("caller") => blocks'[m][i] = blocks[m][i]
                     /\ <<m, i>> = Key("caller") =>
                          \A q \in Offsets :
                             blocks'[m][i].data[q] = IF q \in Copied(arg.pos % BlockSize) THEN arg.tag
                                                                                         ELSE blocks[m][i].data[q]
<1> DEFINE l == job["caller"].layer
           id == job["caller"].id
           C == Copied(arg.pos % BlockSize)
           d == [q \in Offsets |-> IF q \in C THEN arg.tag ELSE blocks[l][id].data[q]]
           blk == [blocks[l][id] EXCEPT !.dirty = TRUE, !.data = d]
<1>1. /\ At("caller", "write") /\ id \in Resident(l)
      /\ blocks' = [blocks EXCEPT ![l][id].dirty = TRUE,
                      ![l][id].data = [q \in Offsets |-> IF q \in C THEN arg.tag ELSE @[q]]]
  BY DEF AppendWrite
<1>2. Blocks /\ l \in Layers /\ id \in DOMAIN blocks[l] /\ arg.tag \in Tags /\ ~blocks[l][id].on_disk
  BY <1>1, WriteFacts DEF Inv, Resident
<1>3. blocks[l][id] \in BlockType
  BY <1>2, BlockShape
<1> HIDE DEF l, id, C
<1>4. d \in Contents /\ \A q \in Offsets : d[q] = IF q \in C THEN arg.tag ELSE blocks[l][id].data[q]
  BY <1>2, <1>3 DEF Contents, BlockType
<1>5. blocks' = [blocks EXCEPT ![l] = [@ EXCEPT ![id] = blk]]
  <2>1. DOMAIN blocks = Layers /\ blocks[l] \in [DOMAIN blocks[l] -> BlockType]
    BY <1>2, BlockShape DEF Blocks
  <2>2. QED  BY <1>1, <1>2, <1>3, <2>1 DEF BlockType
<1> HIDE DEF d
<1>6. blk \in BlockType /\ ~blk.on_disk /\ blk.data = d
  BY <1>2, <1>3, <1>4 DEF BlockType
<1> HIDE DEF blk
<1>7. /\ blocks' = [m \in Layers |-> blocks'[m]]
      /\ \A m \in Layers :
           /\ DOMAIN blocks'[m] = DOMAIN blocks[m] /\ blocks'[m] \in [DOMAIN blocks[m] -> BlockType]
           /\ \A i \in DOMAIN blocks[m] : blocks'[m][i] = IF <<m, i>> = <<l, id>> THEN blk ELSE blocks[m][i]
  BY <1>2, <1>5, <1>6, ChangedBlock
<1>8. ASSUME NEW m \in Layers, NEW i \in DOMAIN blocks[m]
      PROVE  /\ blocks'[m][i].on_disk <=> blocks[m][i].on_disk
             /\ <<m, i>> # <<l, id>> => blocks'[m][i] = blocks[m][i]
             /\ <<m, i>> = <<l, id>> =>
                  \A q \in Offsets : blocks'[m][i].data[q] = IF q \in C THEN arg.tag ELSE blocks[m][i].data[q]
  <2>1. CASE <<m, i>> = <<l, id>>
    BY <1>2, <1>4, <1>6, <1>7, <2>1
  <2>2. CASE <<m, i>> # <<l, id>>
    BY <1>7, <2>2
  <2>3. QED  BY <2>1, <2>2
<1>9. QED  BY <1>7, <1>8 DEF Key, l, id, C

LEMMA AppendWriteInv == ASSUME Inv, AppendWrite PROVE Inv'
<1> DEFINE l == job["caller"].layer
<1>1. /\ At("caller", "write") /\ Touch(Key("caller")) /\ arg' = NoArg
      /\ job' = [job EXCEPT !["caller"] = Idle]
      /\ UNCHANGED <<table, files, next_block_id_, asyncVars>>
  BY DEF AppendWrite, Key
<1>2. Tables /\ Blocks /\ Stamps /\ Fresh
  BY DEF Inv
<1>3. /\ blocks' = [m \in Layers |-> blocks'[m]]
      /\ \A m \in Layers : DOMAIN blocks'[m] = DOMAIN blocks[m] /\ blocks'[m] \in [DOMAIN blocks[m] -> BlockType]
  BY WrittenBlock
<1>4. Blocks'
  <2>1. \A m \in Layers : DOMAIN blocks'[m] \subseteq Ids /\ blocks'[m] \in [DOMAIN blocks'[m] -> BlockType]
    BY <1>2, <1>3, BlockShape
  <2>2. DOMAIN files' \subseteq Keys /\ \A k \in DOMAIN files' : files'[k] \in Contents
    BY <1>1, <1>2 DEF Blocks
  <2>3. QED  BY <1>3, <2>1, <2>2, ShapedBlocks
<1>5. Stamps'
  <2>1. Key("caller") \in Keys
    BY <1>1, WriteFacts DEF Key, Keys
  <2>2. recency' \in Seq(Keys) /\ ToSet(recency) \subseteq ToSet(recency')
    BY <1>1, <1>2, <2>1, TouchCovers DEF Touch, Stamps
  <2>3. QED  BY <1>2, <1>3, <2>2 DEF Stamps
<1>6. Tables'
  <2>1. arg.tag \in Tags /\ l \in Layers
    BY <1>1, WriteFacts
  <2>2. written' \in [Layers -> [Positions -> Tags \cup {0}]]
    <3>1. PICK C : written' = [written EXCEPT ![l] = [p \in Positions |-> IF p \in C THEN arg.tag ELSE @[p]]]
      <4> DEFINE o == arg.pos % BlockSize
                 C == {p \in Positions : p - (arg.pos - o) \in Copied(o)}
      <4>1. written' = [written EXCEPT ![l] = [p \in Positions |-> IF p - (arg.pos - o) \in Copied(o)
                                                                   THEN arg.tag ELSE @[p]]]
        BY DEF AppendWrite
      <4>2. written' = [written EXCEPT ![l] = [p \in Positions |-> IF p \in C THEN arg.tag ELSE @[p]]]
        BY <4>1
      <4>3. QED  BY <4>2
    <3>2. QED  BY <1>2, <2>1, <3>1 DEF Tables
  <2>3. QED  BY <1>1, <1>2, <2>2 DEF Tables
<1>7. Jobs' /\ Caller' /\ Fresh' /\ Requests'
  <2>1. \A m \in Layers : \A id \in DOMAIN blocks'[m] : id < next_block_id_'
    BY <1>1, <1>2, <1>3 DEF Fresh
  <2>2. QED  BY <1>1, <1>2, <2>1, CallerEnds DEF Fresh, asyncVars
<1>8. QED  BY <1>4, <1>5, <1>6, <1>7 DEF Inv

LEMMA AppendDropInv == ASSUME Inv, AppendDrop \/ LoadAllEnd PROVE Inv'
<1>1. /\ job' = [job EXCEPT !["caller"] = Idle] /\ arg' = NoArg /\ UNCHANGED <<cacheVars, asyncVars, written>>
      /\ Tables /\ Blocks /\ Stamps /\ Fresh
  BY DEF Inv, AppendDrop, LoadAllEnd
<1>2. Jobs' /\ Caller' /\ Fresh' /\ Requests'
  BY <1>1, CallerEnds DEF Fresh, cacheVars, asyncVars
<1>3. QED  BY <1>1, <1>2, Same DEF Inv, cacheVars

LEMMA GetCopyInv == ASSUME Inv, GetCopy PROVE Inv'
<1>1. /\ At("caller", "loaded") /\ arg.op = "get_range" /\ (Touch(Key("caller")) \/ UNCHANGED recency)
      /\ job' = [job EXCEPT !["caller"] = Idle] /\ arg' = NoArg
      /\ UNCHANGED <<table, blocks, files, next_block_id_, asyncVars, written>>
  BY DEF GetCopy, Key
<1>2. Tables /\ Blocks /\ Stamps /\ Fresh /\ Caller
  BY DEF Inv
<1>3. Key("caller") \in Keys
  BY <1>1, <1>2 DEF Caller, At
<1>4. recency' \in Seq(Keys) /\ ToSet(recency) \subseteq ToSet(recency')
  BY <1>1, <1>2, <1>3, TouchCovers DEF Touch, Stamps
<1>5. Tables' /\ Blocks' /\ Stamps'
  BY <1>1, <1>2, <1>4 DEF Tables, Blocks, Stamps
<1>6. Jobs' /\ Caller' /\ Fresh' /\ Requests'
  BY <1>1, <1>2, CallerEnds DEF Fresh, asyncVars
<1>7. QED  BY <1>5, <1>6 DEF Inv

-----------------------------------------------------------------------------
(* The whole-cache operations.                                             *)

LEMMA EvictAllInv == ASSUME Inv, NEW ks, ks \subseteq AllResident, EvictAll(ks) PROVE Inv'
<1>1. /\ blocks' = Evicted(ks) /\ UNCHANGED <<table, recency, next_block_id_, asyncVars, job, arg, written>>
      /\ files' = [k \in DOMAIN files \cup ks |-> IF k \in ks THEN blocks[k[1]][k[2]].data ELSE files[k]]
  BY DEF EvictAll
<1>2. Tables /\ Blocks /\ Stamps /\ Jobs /\ Caller /\ Fresh /\ Requests
  BY DEF Inv
<1>3. /\ blocks' = [l \in Layers |-> blocks'[l]]
      /\ \A l \in Layers : DOMAIN blocks'[l] = DOMAIN blocks[l] /\ blocks'[l] \in [DOMAIN blocks[l] -> BlockType]
  BY <1>1, <1>2, EvictedBlocks
<1>4. \A k \in ks : k \in Keys /\ blocks[k[1]][k[2]].data \in Contents
  <2>1. ASSUME NEW k \in ks PROVE k \in Keys /\ blocks[k[1]][k[2]].data \in Contents
    <3>1. k \in Keys /\ k[1] \in Layers /\ k[2] \in DOMAIN blocks[k[1]]
      BY DEF AllResident, Resident, Keys
    <3>2. blocks[k[1]][k[2]] \in BlockType
      BY <1>2, <3>1, BlockShape
    <3>3. QED  BY <3>1, <3>2 DEF BlockType
  <2>2. QED  BY <2>1
<1>5. Blocks'
  <2>1. \A l \in Layers : DOMAIN blocks'[l] \subseteq Ids /\ blocks'[l] \in [DOMAIN blocks'[l] -> BlockType]
    BY <1>2, <1>3, BlockShape
  <2>2. DOMAIN files' \subseteq Keys /\ \A k \in DOMAIN files' : files'[k] \in Contents
    BY <1>1, <1>2, <1>4 DEF Blocks
  <2>3. QED  BY <1>3, <2>1, <2>2, ShapedBlocks
<1>6. Tables' /\ Stamps' /\ Jobs'
  BY <1>1, <1>2, <1>3 DEF Tables, Stamps, Jobs, At, Busy, Key
<1>7. Caller' /\ Fresh'
  BY <1>1, <1>2, <1>3, CallerSame
<1>8. Requests'
  BY <1>1, <1>2, RequestsSame DEF Busy, At, Key, asyncVars
<1>9. QED  BY <1>5, <1>6, <1>7, <1>8 DEF Inv

\* load_from_disk(): the caller is between two blocks, or has one to load.
LEMMA LoadAllStep ==
    ASSUME Inv, NEW a \in ArgType, arg' = a, a.op = "load_from_disk",
           NEW j \in JobType, job' = [job EXCEPT !["caller"] = j],
           j.pc = "loaded" \/ (j.pc = "load" /\ <<j.layer, j.id>> \in Keys),
           UNCHANGED <<cacheVars, asyncVars, written>>
    PROVE  Inv'
<1>1. Tables /\ Blocks /\ Stamps /\ Jobs /\ Fresh /\ Requests /\ job \in [Threads -> JobType]
  BY DEF Inv, Jobs
<1>2. job' \in [Threads -> JobType] /\ job'["worker"] = job["worker"] /\ job'["caller"] = j
  BY <1>1 DEF Threads
<1>3. Key("worker")' = Key("worker") /\ (Busy' <=> Busy) /\ Key("caller")' = <<j.layer, j.id>>
  BY <1>2 DEF Key, Busy, At
<1>4. Jobs' /\ Requests'
  BY <1>1, <1>2, <1>3, RequestsSame DEF Jobs, At, asyncVars
<1>5. /\ ~In("caller", "alloc")' /\ ~Appending' /\ ~At("caller", "lock")'
      /\ In("caller", "load")' => j.pc = "load"
  BY <1>2 DEF In, Evicting, At, Appending
<1>6. Caller'
  BY <1>2, <1>3, <1>5 DEF Caller
<1>7. Fresh'
  BY <1>1, <1>5 DEF Fresh, cacheVars
<1>8. QED  BY <1>1, <1>4, <1>6, <1>7, Same DEF Inv, cacheVars

LEMMA LoadAllStartInv == ASSUME Inv, LoadAllStart PROVE Inv'
<1> DEFINE T == {k \in Keys : HasBlock(k[1], k[2])}
           a == [NoArg EXCEPT !.op = "load_from_disk", !.todo = T]
           j == [Idle EXCEPT !.pc = "loaded"]
<1>1. arg' = a /\ job' = [job EXCEPT !["caller"] = j] /\ UNCHANGED <<cacheVars, asyncVars, written>>
  BY DEF LoadAllStart
<1>2. T \subseteq Keys
  OBVIOUS
<1> HIDE DEF T
<1>3. a \in ArgType /\ a.op = "load_from_disk"
  BY <1>2, NoArgType DEF ArgType
<1>4. j \in JobType /\ j.pc = "loaded"
  BY IdleJob DEF JobType, Labels
<1> HIDE DEF a, j
<1>5. QED  BY <1>1, <1>3, <1>4, LoadAllStep

LEMMA LoadAllNextInv == ASSUME Inv, NEW key \in Keys, LoadAllNext(key) PROVE Inv'
<1> DEFINE a == [arg EXCEPT !.todo = @ \ {key}]
<1>1. /\ At("caller", "loaded") /\ arg.op = "load_from_disk" /\ arg' = a
      /\ UNCHANGED <<cacheVars, asyncVars, written>>
  BY DEF LoadAllNext
<1>2. job \in [Threads -> JobType] /\ arg \in ArgType
  BY DEF Inv, Jobs, Caller
<1>3. a \in ArgType /\ a.op = "load_from_disk"
  BY <1>1, <1>2 DEF ArgType
<1> HIDE DEF a
<1>4. PICK l \in Layers, id \in Ids : key = <<l, id>>
  BY DEF Keys
<1>5. key[1] = l /\ key[2] = id /\ l \in Int /\ id \in Int
  BY <1>4, IdsInt, ConstantsAssumption
<1>6. CASE OnDisk(key[1], key[2])
  <2> DEFINE j == [Idle EXCEPT !.pc = "load", !.layer = l, !.id = id]
  <2>1. job' = [job EXCEPT !["caller"] = [Idle EXCEPT !.pc = "load", !.layer = key[1], !.id = key[2]]]
    BY <1>6 DEF LoadAllNext
  <2>2. job' = [job EXCEPT !["caller"] = j]
    BY <1>5, <2>1, Zenon
  <2>3. j \in JobType /\ j.pc = "load" /\ j.layer = l /\ j.id = id
    BY <1>5, IdleJob DEF JobType, Labels
  <2> HIDE DEF j
  <2>4. <<j.layer, j.id>> \in Keys
    BY <1>4, <2>3
  <2>5. QED  BY <1>1, <1>3, <2>2, <2>3, <2>4, LoadAllStep
<1>7. CASE ~OnDisk(key[1], key[2])
  <2> DEFINE j == job["caller"]
  <2>1. job' = job
    BY <1>7 DEF LoadAllNext
  <2>2. job' = [job EXCEPT !["caller"] = j] /\ j \in JobType /\ j.pc = "loaded"
    BY <1>1, <1>2, <2>1 DEF Threads, At
  <2> HIDE DEF j
  <2>3. QED  BY <1>1, <1>3, <2>2, LoadAllStep
<1>8. QED  BY <1>6, <1>7

\* A layer without blocks.
LEMMA NoBlocks == <<>> \in [{} -> BlockType] /\ DOMAIN <<>> = {}
<1>1. <<>> \in Seq(BlockType) /\ Len(<<>>) = 0
  OBVIOUS
<1>2. <<>> \in [1 .. 0 -> BlockType]
  BY <1>1, LenProperties
<1>3. 1 .. 0 = {}
  OBVIOUS
<1>4. QED  BY <1>2, <1>3

LEMMA ClearInv == ASSUME Inv, Clear PROVE Inv'
<1>1. /\ At("caller", "idle") /\ files' = WithoutFiles(AllOnDisk) /\ blocks' = [l \in Layers |-> <<>>]
      /\ table' = [l \in Layers |-> [b \in BlockIndexes |-> NoId]] /\ recency' = <<>> /\ next_block_id_' = 0
      /\ written' = [l \in Layers |-> [p \in Positions |-> 0]]
      /\ UNCHANGED <<asyncVars, job, arg>>
  BY DEF Clear, CallerFree
<1>2. Blocks /\ Jobs /\ Caller /\ Requests
  BY DEF Inv
<1>3. \A l \in Layers : blocks'[l] = <<>> /\ DOMAIN blocks'[l] = {}
  BY <1>1
<1>4. Blocks'
  <2>1. blocks' = [l \in Layers |-> blocks'[l]]
    BY <1>1
  <2>2. \A l \in Layers : DOMAIN blocks'[l] \subseteq Ids /\ blocks'[l] \in [DOMAIN blocks'[l] -> BlockType]
    BY <1>3, NoBlocks, Zenon
  <2>3. DOMAIN files' \subseteq DOMAIN files /\ \A k \in DOMAIN files' : files'[k] = files[k]
    BY <1>1 DEF WithoutFiles
  <2>4. DOMAIN files' \subseteq Keys /\ \A k \in DOMAIN files' : files'[k] \in Contents
    BY <1>2, <2>3 DEF Blocks
  <2>5. QED  BY <2>1, <2>2, <2>4, ShapedBlocks
<1>5. Tables'
  BY <1>1 DEF Tables
<1>6. Stamps'
  BY <1>1, <1>3 DEF Stamps
<1>7. Jobs'
  BY <1>1, <1>2 DEF Jobs, At, Busy, Key
<1>8. Requests'
  BY <1>1, <1>2, RequestsSame DEF Busy, At, Key, asyncVars
<1>9. At("caller", "idle")' /\ ~In("caller", "alloc")' /\ ~In("caller", "load")' /\ ~Appending'
  BY <1>1 DEF In, Evicting, At, Appending
<1>10. Caller'
  BY <1>1, <1>2, <1>9 DEF Caller, At
<1>11. Fresh'
  <2>1. \A l \in Layers, b \in BlockIndexes : table'[l][b] = -1
    BY <1>1 DEF NoId
  <2>2. \A l \in Layers, b \in BlockIndexes : table'[l][b] < next_block_id_'
    BY <1>1, <2>1
  <2>3. QED  BY <1>3, <1>9, <2>1, <2>2 DEF Fresh, NoId
<1>12. QED  BY <1>4, <1>5, <1>6, <1>7, <1>8, <1>10, <1>11 DEF Inv

LEMMA StutterInv == ASSUME Inv, DestroyDerived \/ Destroy \/ UNCHANGED vars PROVE Inv'
<1>1. /\ UNCHANGED <<cacheVars, async_queue_, async_inflight_, job, arg, written>>
      /\ Tables /\ Blocks /\ Stamps /\ Jobs /\ Caller /\ Fresh /\ Requests
  BY DEF Inv, DestroyDerived, Destroy, vars, asyncVars
<1>2. Tables' /\ Blocks' /\ Stamps'
  BY <1>1, Same DEF cacheVars
<1>3. Jobs'
  BY <1>1 DEF Jobs, At, Busy, Key
<1>4. Caller' /\ Fresh'
  BY <1>1, CallerSame DEF cacheVars
<1>5. Requests'
  BY <1>1, RequestsSame DEF Busy, At, Key
<1>6. QED  BY <1>2, <1>3, <1>4, <1>5 DEF Inv

LEMMA InitInv == Init => Inv
<1>1. SUFFICES ASSUME Init PROVE Inv
  OBVIOUS
<1>2. /\ job \in [Threads -> JobType] /\ job["worker"] = Idle /\ job["caller"] = Idle
      /\ job["worker"].pc = "idle" /\ job["caller"].pc = "idle"
  BY <1>1, IdleJob DEF Init, Threads
<1>3. Jobs /\ ~Busy
  BY <1>2 DEF Jobs, Busy, At
<1>4. ~In("caller", "alloc") /\ ~In("caller", "load") /\ ~Appending
  BY <1>2 DEF In, Evicting, At, Appending
<1>5. Caller
  BY <1>1, <1>2, <1>4, NoArgType DEF Init, Caller, At
<1>6. \A l \in Layers : blocks[l] = <<>> /\ DOMAIN blocks[l] = {}
  BY <1>1 DEF Init
<1>7. Blocks
  <2>1. \A l \in Layers : blocks[l] \in [{} -> BlockType]
    BY <1>6, NoBlocks, Zenon
  <2>2. \A l \in Layers : blocks[l] \in UNION {[D -> BlockType] : D \in SUBSET Ids}
    BY <2>1
  <2>3. blocks \in [Layers -> UNION {[D -> BlockType] : D \in SUBSET Ids}]
    BY <1>1, <2>2 DEF Init
  <2>4. DOMAIN files = {}
    BY <1>1 DEF Init
  <2>5. QED  BY <2>3, <2>4 DEF Blocks
<1>8. Tables
  BY <1>1 DEF Init, Tables
<1>9. Stamps
  BY <1>1, <1>6 DEF Init, Stamps
<1>10. Fresh
  <2>1. \A l \in Layers, b \in BlockIndexes : table[l][b] = -1
    BY <1>1 DEF Init, NoId
  <2>2. next_block_id_ = 0
    BY <1>1 DEF Init
  <2>3. \A l \in Layers, b \in BlockIndexes : table[l][b] < next_block_id_
    BY <2>1, <2>2
  <2>4. QED  BY <1>4, <1>6, <2>1, <2>3 DEF Fresh, NoId
<1>11. Requests
  <2>1. async_queue_ = <<>> /\ async_inflight_ = {}
    BY <1>1 DEF Init
  <2>2. ToSet(<<>>) = {} /\ IsInjective(<<>>) /\ <<>> \in Seq(Keys)
    BY DEF ToSet, IsInjective
  <2>3. QED  BY <1>3, <2>1, <2>2 DEF Requests, Working
<1>12. QED  BY <1>3, <1>5, <1>7, <1>8, <1>9, <1>10, <1>11 DEF Inv

LEMMA NextInv == Inv /\ [Next]_vars => Inv'
<1>1. SUFFICES ASSUME Inv, [Next]_vars PROVE Inv'
  OBVIOUS
<1>2. CASE Worker
  BY <1>1, <1>2, WorkerPopInv, WorkerLockInv, WorkerDoneInv, WorkerExitInv, EvictWriteInv, EvictDropInv,
     PureVirtualInv, LoadEndInv DEF Worker, Threads
<1>3. CASE CallerStart
  <2>1. CASE FlushToDisk \/ UnloadMemory
    <3>1. PICK ks : ks \subseteq AllResident /\ EvictAll(ks)
      BY <2>1 DEF FlushToDisk, UnloadMemory
    <3>2. QED  BY <1>1, <3>1, EvictAllInv
  <2>2. CASE \E l \in Layers, pos \in Positions, n \in 1 .. BlockSize, tag \in Tags :
               AppendKnown(l, pos, n, tag) \/ AppendNew(l, pos, n, tag)
    BY <1>1, <2>2, AppendKnownInv, AppendNewInv
  <2>3. QED  BY <1>1, <1>3, <2>1, <2>2, PrefetchInv, GetStartInv, LoadAllStartInv, ClearInv, StutterInv DEF CallerStart
<1>4. CASE CallerStep
  BY <1>1, <1>4, EvictWriteInv, EvictDropInv, LoadEndInv, AllocFailInv, AllocInsertInv, EnsureInv,
     AppendWriteInv, AppendDropInv, GetCopyInv, LoadAllNextInv, StutterInv DEF CallerStep, Threads
<1>5. CASE EnsureTimeout
  BY <1>1, <1>5, EnsureInv
<1>6. CASE UNCHANGED vars
  BY <1>1, <1>6, StutterInv
<1>7. QED  BY <1>1, <1>2, <1>3, <1>4, <1>5, <1>6 DEF Next

LEMMA Invariance == Spec => []Inv
BY InitInv, NextInv, PTL DEF Spec

-----------------------------------------------------------------------------
(* The requests of every cache.                                            *)

\* No request is in async_queue_ twice.
LEMMA QueuedOnce ==
    ASSUME NEW S, NEW s \in Seq(S), IsInjective(s)
    PROVE  Cardinality(ToSet(s)) = Len(s)
<1>1. Len(s) \in Nat /\ s \in [1 .. Len(s) -> ToSet(s)]
  BY LenProperties DEF ToSet
<1>2. \A i, j \in 1 .. Len(s) : s[i] = s[j] => i = j
  BY <1>1 DEF IsInjective
<1>3. \A x \in ToSet(s) : \E i \in 1 .. Len(s) : s[i] = x
  BY <1>1 DEF ToSet
<1>4. ExistsBijection(1 .. Len(s), ToSet(s))
  BY <1>1, <1>2, <1>3, Zenon DEF ExistsBijection, Bijection, Injection, Surjection
<1>5. QED  BY <1>1, <1>4, FS_CountingElements

\* Whatever the caller does, with prefetches, timeouts and clear(): a request of
\* async_inflight_ is in async_queue_ or in the worker's hands, and once.
THEOREM RequestsTracked == Spec => []InflightTracked
<1>1. Inv => InflightTracked
  <2>1. SUFFICES ASSUME Inv PROVE InflightTracked
    OBVIOUS
  <2>2. Jobs /\ Requests
    BY <2>1 DEF Inv
  <2> DEFINE working == {k \in Keys : ~(At("worker", "idle") \/ At("worker", "exited"))
                                      /\ k = <<job["worker"].layer, job["worker"].id>>}
             queued == {async_queue_[i] : i \in DOMAIN async_queue_}
  <2>3. working = Working
    BY <2>2 DEF Jobs, Working, Busy, Key
  <2>4. queued = ToSet(async_queue_)
    BY DEF ToSet
  <2>5. Cardinality(ToSet(async_queue_)) = Len(async_queue_)
    BY <2>2, QueuedOnce DEF Requests
  <2> HIDE DEF working, queued
  <2>6. /\ async_inflight_ = queued \cup working /\ queued \cap working = {}
        /\ Cardinality(queued) = Len(async_queue_)
    BY <2>2, <2>3, <2>4, <2>5 DEF Requests
  <2>7. QED  BY <2>6 DEF working, queued, InflightTracked
<1>2. QED  BY <1>1, Invariance, PTL

-----------------------------------------------------------------------------
(* The slots of the page tables.                                           *)

LEMMA SlotsMeaning ==
    SlotsFilled <=>
      \A l \in Layers, b \in BlockIndexes : table[l][b] # NoId =>
        HasBlock(l, table[l][b]) \/ (In("caller", "alloc") /\ Key("caller") = <<l, table[l][b]>>)
BY DEF SlotsFilled, In, Evicting, Key

\* A step that writes no slot, frees no block and does not end an allocation.
LEMMA SlotsSame ==
    ASSUME SlotsFilled, UNCHANGED table, \A l \in Layers : DOMAIN blocks'[l] = DOMAIN blocks[l],
           In("caller", "alloc") => In("caller", "alloc")' /\ Key("caller")' = Key("caller")
    PROVE  SlotsFilled'
<1>1. \A l \in Layers, b \in BlockIndexes : table[l][b] # NoId =>
        HasBlock(l, table[l][b]) \/ (In("caller", "alloc") /\ Key("caller") = <<l, table[l][b]>>)
  BY SlotsMeaning
<1>2. \A l \in Layers, b \in BlockIndexes : table'[l][b] # NoId =>
        HasBlock(l, table[l][b])' \/ (In("caller", "alloc")' /\ Key("caller")' = <<l, table'[l][b]>>)
  BY <1>1 DEF HasBlock
<1>3. QED  BY <1>2 DEF SlotsFilled, In, Evicting, At, Key

\* A caller that is in no allocation when it steps.
LEMMA QuietSlots ==
    ASSUME SlotsFilled, UNCHANGED <<table, blocks>>,
           job["caller"].pc \notin {"alloc", "evict"} \/ job'["caller"] = job["caller"]
    PROVE  SlotsFilled'
<1>1. In("caller", "alloc") => In("caller", "alloc")' /\ Key("caller")' = Key("caller")
  BY DEF In, Evicting, At, Key
<1>2. QED  BY <1>1, SlotsSame

\* An eviction, of either thread.
LEMMA EvictionSlots ==
    ASSUME Inv, SlotsFilled, NEW p \in Threads, EvictWrite(p) \/ EvictDrop(p)
    PROVE  SlotsFilled'
<1>1. Blocks /\ job \in [Threads -> JobType]
  BY DEF Inv, Jobs
<1>2. UNCHANGED table /\ \A l \in Layers : DOMAIN blocks'[l] = DOMAIN blocks[l]
  <2>1. CASE EvictWrite(p)
    BY <2>1 DEF EvictWrite
  <2>2. CASE EvictDrop(p)
    BY <1>1, <2>2, EvictedBlocks DEF EvictDrop
  <2>3. QED  BY <2>1, <2>2
<1>3. In("caller", "alloc") => In("caller", "alloc")' /\ Key("caller")' = Key("caller")
  <2>1. CASE EvictWrite(p)
    BY <1>1, <2>1 DEF EvictWrite, EvictDue, In, Evicting, At, Key, JobType, Threads
  <2>2. CASE EvictDrop(p)
    BY <1>1, <2>2 DEF EvictDrop, In, Evicting, At, Key, JobType, Threads
  <2>3. QED  BY <2>1, <2>2
<1>4. QED  BY <1>2, <1>3, SlotsSame

LEMMA WorkerSlots == ASSUME Inv, SlotsFilled, Worker PROVE SlotsFilled'
<1>1. job \in [Threads -> JobType] /\ "worker" \in Threads
  BY DEF Inv, Jobs, Threads
<1>2. CASE WorkerPop \/ WorkerLock \/ WorkerDone \/ WorkerExit \/ PureVirtual \/ LoadGiveUp("worker")
  <2>1. UNCHANGED <<table, blocks>> /\ job'["caller"] = job["caller"]
    BY <1>1, <1>2 DEF WorkerPop, WorkerLock, WorkerDone, WorkerExit, PureVirtual, LoadGiveUp, GoTo, cacheVars, Threads
  <2>2. QED  BY <2>1, QuietSlots
<1>3. CASE LoadRead("worker")
  <2>1. UNCHANGED table /\ job'["caller"] = job["caller"]
    BY <1>1, <1>3 DEF LoadRead, GoTo, Threads
  <2>2. In("caller", "alloc") => In("caller", "alloc")' /\ Key("caller")' = Key("caller")
    BY <2>1 DEF In, Evicting, At, Key
  <2>3. QED  BY <1>1, <1>3, <2>1, <2>2, LoadedBlock, SlotsSame
<1>4. CASE EvictWrite("worker") \/ EvictDrop("worker")
  BY <1>1, <1>4, EvictionSlots
<1>5. QED  BY <1>2, <1>3, <1>4 DEF Worker

LEMMA StartSlots == ASSUME Inv, SlotsFilled, CallerStart PROVE SlotsFilled'
<1>1. CASE \/ \E l \in Layers, pos \in Positions, n \in 1 .. BlockSize, tag \in Tags : AppendKnown(l, pos, n, tag)
           \/ \E l \in Layers, b \in BlockIndexes : Prefetch(l, b)
           \/ \E l \in Layers, pos \in Positions : GetStart(l, pos)
           \/ LoadAllStart \/ DestroyDerived
  <2>1. UNCHANGED <<table, blocks>> /\ job["caller"].pc = "idle"
    BY <1>1 DEF AppendKnown, Prefetch, GetStart, LoadAllStart, DestroyDerived, CallerFree, At, cacheVars
  <2>2. QED  BY <2>1, QuietSlots
<1>2. CASE FlushToDisk \/ UnloadMemory
  <2>1. PICK ks : EvictAll(ks)
    BY <1>2 DEF FlushToDisk, UnloadMemory
  <2>2. UNCHANGED <<table, job>> /\ \A l \in Layers : DOMAIN blocks'[l] = DOMAIN blocks[l]
    BY <2>1, EvictedBlocks DEF EvictAll, Inv
  <2>3. In("caller", "alloc") => In("caller", "alloc")' /\ Key("caller")' = Key("caller")
    BY <2>2 DEF In, Evicting, At, Key
  <2>4. QED  BY <2>2, <2>3, SlotsSame
<1>3. CASE Clear
  BY <1>3 DEF Clear, SlotsFilled
<1>4. CASE \E l \in Layers, pos \in Positions, n \in 1 .. BlockSize, tag \in Tags : AppendNew(l, pos, n, tag)
  <2>1. PICK l \in Layers, pos \in Positions, n \in 1 .. BlockSize, tag \in Tags : AppendNew(l, pos, n, tag)
    BY <1>4
  <2> DEFINE s == pos \div BlockSize
             new == next_block_id_
  <2>2. /\ At("caller", "idle") /\ UNCHANGED blocks /\ table' = [table EXCEPT ![l][s] = new]
        /\ job' = [job EXCEPT !["caller"] = [Idle EXCEPT !.pc = "alloc", !.layer = l, !.id = new]]
    BY <2>1 DEF AppendNew, CallerFree
  <2>3. \A m \in Layers, b \in BlockIndexes : table'[m][b] = IF m = l /\ b = s THEN new ELSE table[m][b]
    BY <2>2 DEF Inv, Tables
  <2>4. \A m \in Layers, b \in BlockIndexes : table[m][b] # NoId => HasBlock(m, table[m][b])
    BY <2>2 DEF SlotsFilled, At
  <2>5. job'["caller"].pc = "alloc" /\ job'["caller"].layer = l /\ job'["caller"].id = new
    BY <2>2, IdleJob DEF Inv, Jobs, Threads, JobType
  <2>6. QED  BY <2>2, <2>3, <2>4, <2>5 DEF SlotsFilled, HasBlock, At
<1>5. QED  BY <1>1, <1>2, <1>3, <1>4 DEF CallerStart

LEMMA StepSlots == ASSUME Inv, SlotsFilled, CallerStep \/ EnsureTimeout PROVE SlotsFilled'
<1>1. job \in [Threads -> JobType] /\ "caller" \in Threads
  BY DEF Inv, Jobs, Threads
<1>2. CASE \/ LoadGiveUp("caller") \/ EnsureResident \/ EnsureEnqueue \/ EnsureWake \/ EnsureTimeout
           \/ AppendDrop \/ GetLock \/ GetCopy \/ (\E key \in Keys : LoadAllNext(key)) \/ LoadAllEnd
  <2>1. UNCHANGED <<table, blocks>> /\ job["caller"].pc \in {"load", "ensure", "wait", "write", "lock", "loaded"}
    BY <1>2 DEF LoadGiveUp, EnsureResident, EnsureEnqueue, EnsureWake, EnsureTimeout, AppendDrop, GetLock,
                GetCopy, LoadAllNext, LoadAllEnd, At, cacheVars
  <2>2. QED  BY <2>1, QuietSlots
<1>3. CASE Destroy
  BY <1>3, QuietSlots DEF Destroy, cacheVars
<1>4. CASE LoadRead("caller") \/ AppendWrite
  <2>1. UNCHANGED table /\ job["caller"].pc \in {"load", "write"}
    BY <1>4 DEF LoadRead, AppendWrite, At
  <2>2. ~In("caller", "alloc")
    BY <2>1 DEF In, Evicting, At
  <2>3. QED  BY <1>1, <1>4, <2>1, <2>2, LoadedBlock, WrittenBlock, SlotsSame
<1>5. CASE EvictWrite("caller") \/ EvictDrop("caller")
  BY <1>1, <1>5, EvictionSlots
<1>6. CASE AllocFail
  <2> DEFINE l == job["caller"].layer
             s == arg.pos \div BlockSize
  <2>1. At("caller", "alloc") /\ UNCHANGED blocks /\ table' = [table EXCEPT ![l][s] = NoId]
    BY <1>6 DEF AllocFail
  <2>2. l \in Layers /\ s \in BlockIndexes /\ job["caller"].id = table[l][s]
    BY <2>1, AllocFacts, PositionParts DEF Resolve
  <2>3. \A m \in Layers, b \in BlockIndexes : table'[m][b] = IF m = l /\ b = s THEN NoId ELSE table[m][b]
    BY <2>1, <2>2 DEF Inv, Tables
  <2>4. \A m \in Layers, b \in BlockIndexes :
          table[m][b] # NoId /\ ~(m = l /\ b = s) => HasBlock(m, table[m][b])
    BY <2>2 DEF SlotsFilled, Inv, Fresh
  <2>5. QED  BY <2>1, <2>3, <2>4 DEF SlotsFilled, HasBlock
<1>7. CASE AllocInsert
  <2>1. UNCHANGED table /\ \A m \in Layers : DOMAIN blocks'[m] =
                             DOMAIN blocks[m] \cup {i \in {job["caller"].id} : m = job["caller"].layer}
    BY <1>7, InsertedBlock DEF AllocInsert
  <2>2. QED  BY <2>1 DEF SlotsFilled, HasBlock
<1>8. QED  BY <1>2, <1>3, <1>4, <1>5, <1>6, <1>7 DEF CallerStep

\* alloc_block_id: a slot of a page table names a block that exists or is being
\* allocated, whatever fails, is cleared or is requested meanwhile.
THEOREM SlotsAreFilled == Spec => []SlotsFilled
<1>1. Init => SlotsFilled
  BY DEF Init, SlotsFilled
<1>2. Inv /\ SlotsFilled /\ [Next]_vars => SlotsFilled'
  <2>1. SUFFICES ASSUME Inv, SlotsFilled, [Next]_vars PROVE SlotsFilled'
    OBVIOUS
  <2>2. CASE UNCHANGED vars
    BY <2>1, <2>2, QuietSlots DEF vars, cacheVars
  <2>3. QED  BY <2>1, <2>2, WorkerSlots, StartSlots, StepSlots DEF Next
<1>3. QED  BY <1>1, <1>2, Invariance, PTL DEF Spec

-----------------------------------------------------------------------------
(* A cache without prefetches and timeouts.                                *)

\* The worker has nothing to do unless the caller waits for it.
LEMMA WorkerRests ==
    ASSUME Exclusive, ~At("caller", "wait")
    PROVE  ~Busy /\ ToSet(async_queue_) = {} /\ ~At("worker", "evict")
BY DEF Exclusive, Busy, At

\* A thread that evicts, loads or writes is the only one that does.
LEMMA Alone ==
    ASSUME Exclusive, NEW p \in Threads, job[p].pc \in {"load", "alloc", "evict", "write"}
    PROVE  \A q \in Threads : q # p => ~At(q, "evict")
<1>1. CASE p = "worker"
  <2>1. Busy
    BY <1>1 DEF Busy, At
  <2>2. QED  BY <1>1, <2>1 DEF Exclusive, At, Threads
<1>2. CASE p = "caller"
  BY <1>2, WorkerRests DEF At, Threads
<1>3. QED  BY <1>1, <1>2 DEF Threads

\* A step of the caller that does not touch the queue.
LEMMA ExclusiveSame ==
    ASSUME Exclusive, ~At("caller", "wait"), job'["worker"] = job["worker"], UNCHANGED async_queue_
    PROVE  Exclusive'
<1>1. ~Busy' /\ ToSet(async_queue_') = {}
  BY WorkerRests DEF Busy, At
<1>2. QED  BY <1>1 DEF Exclusive

\* A step of the worker that keeps its request, and the caller waiting for it.
LEMMA ExclusiveBusy ==
    ASSUME Exclusive, Busy, Key("worker")' = Key("worker"), job'["caller"] = job["caller"], UNCHANGED async_queue_
    PROVE  Exclusive'
<1>1. At("caller", "wait")' /\ Key("caller")' = Key("caller") /\ Key("worker") = Key("caller")
  BY DEF Exclusive, At, Key
<1>2. QED  BY <1>1 DEF Exclusive

\* A step that neither touches a block or a file nor starts or ends an eviction.
LEMMA PlacesSame ==
    ASSUME WrittenOut, Memory, FilesExact, NEW p \in Threads,
           UNCHANGED <<blocks, files, current_memory_used_>>,
           \A q \in Threads : q # p => job'[q] = job[q],
           ~At(p, "evict"), ~At(p, "evict")'
    PROVE  WrittenOut' /\ Memory' /\ FilesExact'
<1>1. \A q \in Threads : (At(q, "evict")' <=> At(q, "evict")) /\ (At(q, "evict") => job'[q] = job[q])
  BY DEF At
<1>2. WrittenOut'
  BY <1>1 DEF WrittenOut, Resident
<1>3. Memory'
  BY DEF Memory, AllResident, Resident
<1>4. Writing' = Writing
  BY <1>1 DEF Writing
<1>5. AllOnDisk' = AllOnDisk
  BY DEF AllOnDisk, OnDisk, HasBlock
<1>6. FilesExact'
  BY <1>4, <1>5 DEF FilesExact, Writing
<1>7. QED  BY <1>2, <1>3, <1>6

\* The same, and the tables do not change either.
LEMMA StoreSame ==
    ASSUME WrittenOut, Memory, FilesExact, Content, NEW p \in Threads,
           UNCHANGED <<table, blocks, files, current_memory_used_, written>>,
           \A q \in Threads : q # p => job'[q] = job[q],
           ~At(p, "evict"), ~At(p, "evict")'
    PROVE  WrittenOut' /\ Memory' /\ FilesExact' /\ Content'
<1>1. WrittenOut' /\ Memory' /\ FilesExact'
  BY PlacesSame
<1>2. Content'
  BY DEF Content, HasBlock, Resolve, Stored
<1>3. QED  BY <1>1, <1>2

\* A step that neither writes nor reads a token, nor starts to append.
LEMMA ReadsSame ==
    ASSUME Reads, UNCHANGED <<written, got>>, Appending' => Appending
    PROVE  Reads'
BY DEF Reads, ReadsLatest

\* The worker takes a request, goes on with it without touching a block, or is done.
LEMMA WorkerStore ==
    ASSUME Inv, CInv,
           WorkerPop \/ WorkerLock \/ WorkerDone \/ WorkerExit \/ PureVirtual \/ LoadGiveUp("worker")
    PROVE  CInv'
<1>1. /\ Jobs /\ Requests /\ Exclusive /\ WrittenOut /\ Memory /\ FilesExact /\ Content /\ Reads
      /\ job \in [Threads -> JobType]
  BY DEF Inv, CInv, Jobs
<1>2. /\ UNCHANGED <<table, blocks, files, current_memory_used_, written>> /\ UNCHANGED <<got, arg>>
      /\ job["worker"].pc \in {"idle", "lock", "loaded", "load"}
  BY <1>1 DEF WorkerPop, WorkerLock, WorkerDone, WorkerExit, PureVirtual, EvictDue, LoadGiveUp, Jobs, At, cacheVars
<1>3. job'["caller"] = job["caller"] /\ job'["worker"].pc \in {"idle", "lock", "loaded", "load", "exited", "terminated"}
  <2>1. CASE WorkerPop
    BY <1>1, <2>1, IdleJob DEF WorkerPop, Threads, JobType
  <2>2. CASE WorkerDone
    BY <1>1, <2>2, IdleJob DEF WorkerDone, Threads
  <2>3. CASE WorkerLock \/ WorkerExit \/ PureVirtual \/ LoadGiveUp("worker")
    BY <1>1, <2>3 DEF WorkerLock, WorkerExit, PureVirtual, LoadGiveUp, GoTo, Threads, JobType
  <2>4. QED  BY <2>1, <2>2, <2>3
<1>4. WrittenOut' /\ Memory' /\ FilesExact' /\ Content'
  <2>1. ~At("worker", "evict") /\ ~At("worker", "evict")' /\ \A q \in Threads : q # "worker" => job'[q] = job[q]
    BY <1>2, <1>3 DEF At, Threads
  <2>2. "worker" \in Threads
    BY DEF Threads
  <2>3. QED  BY <1>1, <1>2, <2>1, <2>2, StoreSame
<1>5. Reads'
  <2>1. Appending' <=> Appending
    BY <1>3 DEF Appending, In, Evicting, At
  <2>2. QED  BY <1>1, <1>2, <2>1, ReadsSame
<1>6. Exclusive'
  <2>1. CASE WorkerPop
    <3> DEFINE h == Head(async_queue_)
    <3>1. async_queue_ # <<>> /\ async_queue_' = Tail(async_queue_)
      BY <2>1 DEF WorkerPop
    <3>2. ToSet(async_queue_) = ToSet(Tail(async_queue_)) \cup {h} /\ h \in Keys
      BY <1>1, <3>1, PopRequest DEF Requests
    <3>3. At("caller", "wait") /\ h = Key("caller") /\ \A k \in ToSet(async_queue_') : k = Key("caller")
      BY <1>1, <3>1, <3>2 DEF Exclusive
    <3>4. Key("worker")' = h
      <4>1. job'["worker"].layer = h[1] /\ job'["worker"].id = h[2]
        BY <1>1, <2>1, IdleJob DEF WorkerPop, Threads, JobType
      <4>2. QED  BY <3>2, <4>1 DEF Key, Keys
    <3> HIDE DEF h
    <3>5. At("caller", "wait")' /\ Key("caller")' = Key("caller")
      BY <1>3, <3>3 DEF At, Key
    <3>6. QED  BY <3>3, <3>4, <3>5 DEF Exclusive
  <2>2. CASE WorkerDone \/ WorkerExit
    <3>1. ~Busy'
      <4>1. CASE WorkerDone
        BY <1>1, <4>1, IdleJob DEF WorkerDone, Busy, At, Threads
      <4>2. CASE WorkerExit
        BY <1>1, <4>2 DEF WorkerExit, GoTo, Busy, At, Threads, JobType
      <4>3. QED  BY <2>2, <4>1, <4>2
    <3>2. async_queue_' = async_queue_ /\ Key("caller")' = Key("caller") /\ (At("caller", "wait")' <=> At("caller", "wait"))
      BY <1>3, <2>2 DEF WorkerDone, WorkerExit, asyncVars, Key, At
    <3>3. QED  BY <1>1, <3>1, <3>2 DEF Exclusive
  <2>3. CASE WorkerLock \/ PureVirtual \/ LoadGiveUp("worker")
    <3>1. Busy /\ async_queue_' = async_queue_
      BY <1>1, <2>3 DEF WorkerLock, PureVirtual, EvictDue, LoadGiveUp, Jobs, Busy, At, asyncVars
    <3>2. Key("worker")' = Key("worker")
      BY <1>1, <2>3 DEF WorkerLock, PureVirtual, LoadGiveUp, GoTo, Key, Threads, JobType
    <3>3. QED  BY <1>1, <1>3, <3>1, <3>2, ExclusiveBusy
  <2>4. QED  BY <2>1, <2>2, <2>3
<1>7. QED  BY <1>4, <1>5, <1>6 DEF CInv

\* The caller starts, goes on with or ends an operation without touching a block.
LEMMA CallerStore ==
    ASSUME CInv, job'["worker"] = job["worker"], ~At("caller", "evict"), ~At("caller", "evict")',
           UNCHANGED <<table, blocks, files, current_memory_used_, written>>, Exclusive', Reads'
    PROVE  CInv'
<1>1. WrittenOut /\ Memory /\ FilesExact /\ Content
  BY DEF CInv
<1>2. "caller" \in Threads /\ \A q \in Threads : q # "caller" => job'[q] = job[q]
  BY DEF Threads
<1>3. WrittenOut' /\ Memory' /\ FilesExact' /\ Content'
  BY <1>1, <1>2, StoreSame
<1>4. QED  BY <1>3 DEF CInv

\* ensure_resident().
LEMMA EnsureStore ==
    ASSUME Inv, CInv, EnsureResident \/ EnsureEnqueue \/ EnsureWake
    PROVE  CInv'
<1>1. Jobs /\ Requests /\ Exclusive /\ Reads /\ job \in [Threads -> JobType]
  BY DEF Inv, CInv, Jobs
<1>2. /\ UNCHANGED <<table, blocks, files, current_memory_used_, written>> /\ got' = got
      /\ job["caller"].pc \in {"ensure", "wait"}
      /\ GoTo("caller", "write") \/ GoTo("caller", "wait")
  BY DEF EnsureResident, EnsureEnqueue, EnsureWake, At, cacheVars
<1>3. /\ job'["worker"] = job["worker"] /\ job'["caller"].pc \in {"write", "wait"}
      /\ Key("caller")' = Key("caller")
  BY <1>1, <1>2 DEF GoTo, Threads, JobType, Key
<1>4. Reads'
  <2>1. Appending
    BY <1>2 DEF Appending
  <2>2. QED  BY <1>1, <1>2, <2>1, ReadsSame
<1>5. Exclusive'
  <2>1. CASE EnsureResident
    <3>1. ~At("caller", "wait") /\ async_queue_' = async_queue_
      BY <2>1 DEF EnsureResident, At, asyncVars
    <3>2. QED  BY <1>1, <1>3, <3>1, ExclusiveSame
  <2>2. CASE EnsureEnqueue
    <3>1. ~At("caller", "wait") /\ Enqueue(Key("caller")) /\ GoTo("caller", "wait")
      BY <2>2 DEF EnsureEnqueue, At, Key
    <3>2. ~Busy /\ ToSet(async_queue_) = {}
      BY <1>1, <3>1, WorkerRests
    <3>3. At("caller", "wait")' /\ ~Busy'
      BY <1>1, <1>3, <3>1, <3>2 DEF GoTo, Threads, At, Busy
    <3>4. Key("caller") \in Keys
      BY <2>2 DEF Inv, Caller, Appending, EnsureEnqueue, At
    <3>5. \A k \in ToSet(async_queue_') : k = Key("caller")
      <4>1. CASE Key("caller") \in async_inflight_
        BY <3>1, <3>2, <4>1 DEF Enqueue
      <4>2. CASE Key("caller") \notin async_inflight_
        <5>1. async_queue_' = Append(async_queue_, Key("caller"))
          BY <3>1, <4>2 DEF Enqueue
        <5>2. ToSet(async_queue_') = ToSet(async_queue_) \cup {Key("caller")}
          BY <1>1, <3>2, <3>4, <5>1, AppendRequest DEF Requests
        <5>3. QED  BY <3>2, <5>2
      <4>3. QED  BY <4>1, <4>2
    <3>6. QED  BY <1>3, <3>3, <3>5 DEF Exclusive
  <2>3. CASE EnsureWake
    <3>1. At("caller", "wait") /\ Key("caller") \notin async_inflight_ /\ async_queue_' = async_queue_
      BY <2>3 DEF EnsureWake, Key, asyncVars
    <3>2. ~Busy /\ ToSet(async_queue_) = {}
      BY <1>1, <3>1 DEF Exclusive, Requests, Working
    <3>3. ~Busy'
      BY <1>3, <3>2 DEF Busy, At
    <3>4. QED  BY <3>1, <3>2, <3>3 DEF Exclusive
  <2>4. QED  BY <2>1, <2>2, <2>3
<1>6. ~At("caller", "evict") /\ ~At("caller", "evict")'
  BY <1>2, <1>3 DEF At
<1>7. QED  BY <1>2, <1>3, <1>4, <1>5, <1>6, CallerStore

\* append() starts on a known block, or drops its tokens; get_range() starts and locks;
\* load_from_disk() goes from block to block.
LEMMA QuietStore ==
    ASSUME Inv, CInv,
           \/ \E l \in Layers, pos \in Positions, n \in 1 .. BlockSize, tag \in Tags : AppendKnown(l, pos, n, tag)
           \/ \E l \in Layers, pos \in Positions : GetStart(l, pos)
           \/ GetLock \/ LoadGiveUp("caller") \/ AppendDrop \/ LoadAllStart \/ LoadAllEnd
           \/ \E key \in Keys : LoadAllNext(key)
    PROVE  CInv'
<1>1. Jobs /\ Exclusive /\ Reads /\ job \in [Threads -> JobType]
  BY DEF Inv, CInv, Jobs
<1>2. /\ UNCHANGED <<table, blocks, files, current_memory_used_, written>> /\ async_queue_' = async_queue_
      /\ job["caller"].pc \in {"idle", "lock", "load", "loaded", "write"}
  BY DEF AppendKnown, GetStart, GetLock, LoadGiveUp, AppendDrop, LoadAllStart, LoadAllEnd, LoadAllNext,
         At, CallerFree, cacheVars, asyncVars
<1>3. /\ job'["worker"] = job["worker"]
      /\ job'["caller"].pc \in {"idle", "lock", "load", "loaded", "ensure", "write"}
      /\ got' = {} \/ (got' = got /\ job'["caller"].pc \in {"idle", "load", "loaded"})
  <2>1. CASE \E l \in Layers, pos \in Positions, n \in 1 .. BlockSize, tag \in Tags : AppendKnown(l, pos, n, tag)
    <3>1. PICK l \in Layers, pos \in Positions, n \in 1 .. BlockSize, tag \in Tags : AppendKnown(l, pos, n, tag)
      BY <2>1
    <3> DEFINE place == IF OnDisk(l, Resolve(l, pos)) THEN "ensure" ELSE "write"
    <3>2. /\ got' = {} /\ place \in {"ensure", "write"}
          /\ job' = [job EXCEPT !["caller"] = [Idle EXCEPT !.layer = l, !.id = Resolve(l, pos), !.pc = place]]
      BY <3>1 DEF AppendKnown
    <3> HIDE DEF place
    <3>3. job'["worker"] = job["worker"] /\ job'["caller"].pc = place
      BY <1>1, <3>2, IdleJob DEF Threads, JobType
    <3>4. QED  BY <3>2, <3>3
  <2>2. CASE \E l \in Layers, pos \in Positions : GetStart(l, pos)
    <3>1. PICK l \in Layers, pos \in Positions : GetStart(l, pos)
      BY <2>2
    <3> DEFINE place == IF OnDisk(l, Resolve(l, pos)) THEN "lock" ELSE "loaded"
    <3>2. /\ got' = {} /\ place \in {"lock", "loaded"}
          /\ job' = [job EXCEPT !["caller"] = [Idle EXCEPT !.layer = l, !.id = Resolve(l, pos), !.pc = place]]
      BY <3>1 DEF GetStart
    <3> HIDE DEF place
    <3>3. job'["worker"] = job["worker"] /\ job'["caller"].pc = place
      BY <1>1, <3>2, IdleJob DEF Threads, JobType
    <3>4. QED  BY <3>2, <3>3
  <2>3. CASE GetLock \/ LoadGiveUp("caller")
    BY <1>1, <2>3 DEF GetLock, LoadGiveUp, GoTo, Threads, JobType
  <2>4. CASE AppendDrop \/ LoadAllEnd
    BY <1>1, <2>4, IdleJob DEF AppendDrop, LoadAllEnd, Threads
  <2>5. CASE LoadAllStart
    BY <1>1, <2>5, IdleJob DEF LoadAllStart, Threads, JobType
  <2>6. CASE \E key \in Keys : LoadAllNext(key)
    <3>1. PICK key \in Keys : LoadAllNext(key)
      BY <2>6
    <3>2. /\ got' = got /\ job["caller"].pc = "loaded"
          /\ \/ job' = job
             \/ job' = [job EXCEPT !["caller"] = [Idle EXCEPT !.pc = "load", !.layer = key[1], !.id = key[2]]]
      BY <3>1 DEF LoadAllNext, At
    <3>3. QED  BY <1>1, <3>2, IdleJob DEF Threads, JobType
  <2>7. QED  BY <2>1, <2>2, <2>3, <2>4, <2>5, <2>6
<1>4. Exclusive'
  <2>1. ~At("caller", "wait")
    BY <1>2 DEF At
  <2>2. QED  BY <1>1, <1>2, <1>3, <2>1, ExclusiveSame
<1>5. Reads'
  <2>1. CASE got' = {}
    BY <2>1 DEF Reads, ReadsLatest
  <2>2. CASE got' = got /\ job'["caller"].pc \in {"idle", "load", "loaded"}
    <3>1. ~Appending'
      BY <2>2 DEF Appending, In, Evicting, At
    <3>2. QED  BY <1>1, <1>2, <2>2, <3>1, ReadsSame
  <2>3. QED  BY <1>3, <2>1, <2>2
<1>6. ~At("caller", "evict") /\ ~At("caller", "evict")'
  BY <1>2, <1>3 DEF At
<1>7. QED  BY <1>2, <1>3, <1>4, <1>5, <1>6, CallerStore

\* get_range() copies a token out.
LEMMA GetCopyStore == ASSUME Inv, CInv, GetCopy PROVE CInv'
<1> DEFINE l == job["caller"].layer
           id == job["caller"].id
<1>1. Caller /\ Exclusive /\ Reads /\ Content /\ job \in [Threads -> JobType]
  BY DEF Inv, CInv, Jobs
<1>2. /\ At("caller", "loaded") /\ arg.op = "get_range" /\ job' = [job EXCEPT !["caller"] = Idle]
      /\ UNCHANGED <<table, blocks, files, current_memory_used_, written>> /\ async_queue_' = async_queue_
      /\ \/ id \in Resident(l) /\ got' = {<<l, arg.pos, blocks[l][id].data[arg.pos % BlockSize]>>}
         \/ got' = got
  BY DEF GetCopy, asyncVars
<1>3. job'["worker"] = job["worker"] /\ job'["caller"].pc = "idle"
  BY <1>1, <1>2, IdleJob DEF Threads
<1>4. ~At("caller", "wait") /\ ~At("caller", "evict") /\ ~At("caller", "evict")' /\ ~Appending'
  BY <1>2, <1>3 DEF At, Appending, In, Evicting
<1>5. Exclusive'
  BY <1>1, <1>2, <1>3, <1>4, ExclusiveSame
<1>6. Reads'
  <2>1. CASE got' = got
    BY <1>1, <1>2, <1>4, <2>1, ReadsSame
  <2>2. CASE id \in Resident(l) /\ got' = {<<l, arg.pos, blocks[l][id].data[arg.pos % BlockSize]>>}
    <3>1. l \in Layers /\ arg.pos \in Positions /\ id = Resolve(l, arg.pos)
      BY <1>1, <1>2 DEF Caller, At, Key, Keys
    <3>2. HasBlock(l, id) /\ ~blocks[l][id].on_disk
      BY <2>2 DEF Resident, HasBlock
    <3>3. blocks[l][id].data[arg.pos % BlockSize] = written[l][arg.pos]
      BY <1>1, <3>1, <3>2 DEF Content, Stored
    <3>4. \A g \in got' : g[3] = written[g[1]][g[2]]
      BY <2>2, <3>3
    <3>5. ReadsLatest'
      BY <1>2, <3>4 DEF ReadsLatest
    <3>6. QED  BY <1>4, <3>5 DEF Reads
  <2>3. QED  BY <1>2, <2>1, <2>2
<1>7. QED  BY <1>2, <1>3, <1>4, <1>5, <1>6, CallerStore

LEMMA StutterStore == ASSUME CInv, DestroyDerived \/ Destroy \/ UNCHANGED vars PROVE CInv'
<1>1. /\ Exclusive /\ WrittenOut /\ Memory /\ FilesExact /\ Content /\ Reads
      /\ UNCHANGED <<table, blocks, files, current_memory_used_, written>> /\ UNCHANGED <<job, got, async_queue_>>
  BY DEF CInv, DestroyDerived, Destroy, vars, asyncVars, cacheVars
<1>2. Exclusive'
  BY <1>1 DEF Exclusive, Busy, At, Key
<1>3. WrittenOut'
  BY <1>1 DEF WrittenOut, At, Resident
<1>4. Memory' /\ FilesExact'
  BY <1>1 DEF Memory, FilesExact, AllResident, AllOnDisk, Resident, OnDisk, HasBlock, At
<1>5. Content'
  BY <1>1 DEF Content, HasBlock, Resolve, Stored
<1>6. Reads'
  BY <1>1 DEF Reads, ReadsLatest, Appending, In, Evicting, At
<1>7. QED  BY <1>2, <1>3, <1>4, <1>5, <1>6 DEF CInv

\* A slot of a page table without a block gets another id without a block.
LEMMA SlotContent ==
    ASSUME Content, UNCHANGED <<blocks, files, written>>, NEW l \in Layers, NEW s \in BlockIndexes,
           ~HasBlock(l, table[l][s]), ~HasBlock(l, table'[l][s]),
           \A m \in Layers, b \in BlockIndexes : m # l \/ b # s => table'[m][b] = table[m][b]
    PROVE  Content'
<1>1. SUFFICES ASSUME NEW m \in Layers, NEW p \in Positions
               PROVE  (IF HasBlock(m, Resolve(m, p)) THEN Stored(m, Resolve(m, p))[p % BlockSize] = written[m][p]
                                                     ELSE written[m][p] = 0)'
  BY DEF Content
<1>2. p \div BlockSize \in BlockIndexes
  BY PositionParts
<1>3. IF HasBlock(m, Resolve(m, p)) THEN Stored(m, Resolve(m, p))[p % BlockSize] = written[m][p]
                                    ELSE written[m][p] = 0
  BY DEF Content
<1>4. CASE m = l /\ p \div BlockSize = s
  BY <1>3, <1>4 DEF HasBlock, Resolve
<1>5. CASE ~(m = l /\ p \div BlockSize = s)
  <2>1. Resolve(m, p)' = Resolve(m, p)
    BY <1>2, <1>5 DEF Resolve
  <2>2. QED  BY <1>3, <2>1 DEF HasBlock, Stored
<1>6. QED  BY <1>4, <1>5

\* alloc_block_id() takes a slot and an id, or rolls the slot back.
LEMMA SlotStore ==
    ASSUME Inv, CInv, NEW l \in Layers, NEW s \in BlockIndexes, NEW id, NEW j \in JobType,
           table' = [table EXCEPT ![l][s] = id], ~HasBlock(l, table[l][s]), ~HasBlock(l, id),
           job' = [job EXCEPT !["caller"] = j], job["caller"].pc \in {"idle", "alloc"}, j.pc \in {"idle", "alloc"},
           UNCHANGED <<blocks, files, current_memory_used_, written, async_queue_>>,
           got' = {} \/ (got' = got /\ j.pc = "idle")
    PROVE  CInv'
<1>1. /\ Tables /\ Exclusive /\ WrittenOut /\ Memory /\ FilesExact /\ Content /\ Reads
      /\ job \in [Threads -> JobType]
  BY DEF Inv, CInv, Jobs
<1>2. /\ job'["worker"] = job["worker"] /\ job'["caller"] = j
      /\ ~At("caller", "wait") /\ ~At("caller", "evict") /\ ~At("caller", "evict")'
      /\ "caller" \in Threads /\ \A q \in Threads : q # "caller" => job'[q] = job[q]
  BY <1>1 DEF Threads, At
<1>3. Exclusive'
  BY <1>1, <1>2, ExclusiveSame
<1>4. WrittenOut' /\ Memory' /\ FilesExact'
  BY <1>1, <1>2, PlacesSame
<1>5. Content'
  <2>1. \A m \in Layers, b \in BlockIndexes : table'[m][b] = IF m = l /\ b = s THEN id ELSE table[m][b]
    BY <1>1 DEF Tables
  <2>2. QED  BY <1>1, <2>1, SlotContent
<1>6. Reads'
  <2>1. CASE got' = {}
    BY <2>1 DEF Reads, ReadsLatest
  <2>2. CASE got' = got /\ j.pc = "idle"
    <3>1. ~Appending'
      BY <1>2, <2>2 DEF Appending, In, Evicting, At
    <3>2. QED  BY <1>1, <2>2, <3>1, ReadsSame
  <2>3. QED  BY <2>1, <2>2
<1>7. QED  BY <1>3, <1>4, <1>5, <1>6 DEF CInv

\* NoId names no block.
LEMMA NoIdBlock == ASSUME Blocks, NEW l \in Layers PROVE ~HasBlock(l, NoId)
<1>1. NoId \notin Ids
  BY ConstantsAssumption DEF Ids, NoId
<1>2. QED  BY <1>1, BlockShape DEF HasBlock

LEMMA AppendNewStore ==
    ASSUME Inv, CInv, NEW l \in Layers, NEW pos \in Positions, NEW n \in 1 .. BlockSize, NEW tag \in Tags,
           AppendNew(l, pos, n, tag)
    PROVE  CInv'
<1> DEFINE new == next_block_id_
           s == pos \div BlockSize
           j == [Idle EXCEPT !.pc = "alloc", !.layer = l, !.id = new]
<1>1. /\ new < MaxId /\ table' = [table EXCEPT ![l][s] = new] /\ table[l][s] = NoId
      /\ job' = [job EXCEPT !["caller"] = j] /\ job["caller"].pc = "idle" /\ got' = {}
      /\ UNCHANGED <<blocks, files, current_memory_used_, written, async_queue_>>
  BY DEF AppendNew, CallerFree, At, Resolve, asyncVars
<1>2. Tables /\ Blocks /\ Fresh
  BY DEF Inv
<1>3. new \in Int /\ l \in Int /\ s \in BlockIndexes
  BY <1>2, PositionParts, ConstantsAssumption DEF Tables
<1>4. ~HasBlock(l, table[l][s])
  BY <1>1, <1>2, NoIdBlock
<1>5. ~HasBlock(l, new)
  BY <1>2, <1>3 DEF Fresh, HasBlock
<1> HIDE DEF s, new
<1>6. j \in JobType /\ j.pc = "alloc"
  BY <1>3, IdleJob DEF JobType, Labels
<1> HIDE DEF j
<1>7. QED  BY <1>1, <1>3, <1>4, <1>5, <1>6, SlotStore

LEMMA AllocFailStore == ASSUME Inv, CInv, AllocFail PROVE CInv'
<1> DEFINE l == job["caller"].layer
           s == arg.pos \div BlockSize
<1>1. /\ At("caller", "alloc") /\ table' = [table EXCEPT ![l][s] = NoId]
      /\ job' = [job EXCEPT !["caller"] = Idle] /\ got' = got
      /\ UNCHANGED <<blocks, files, current_memory_used_, written, async_queue_>>
  BY DEF AllocFail, asyncVars
<1>2. Blocks /\ l \in Layers /\ s \in BlockIndexes /\ ~HasBlock(l, table[l][s])
  BY <1>1, AllocFacts, PositionParts DEF Inv, Resolve
<1>3. ~HasBlock(l, NoId)
  BY <1>2, NoIdBlock
<1>4. job["caller"].pc = "alloc" /\ Idle \in JobType /\ Idle.pc = "idle"
  BY <1>1, IdleJob DEF At
<1> HIDE DEF l, s
<1>5. QED  BY <1>1, <1>2, <1>3, <1>4, SlotStore

-----------------------------------------------------------------------------
(* The blocks in memory, and the files.                                    *)

LEMMA KeySets ==
    ASSUME NEW S, NEW T, S \subseteq Keys, T \subseteq Keys,
           \A l \in Layers, id \in Ids : <<l, id>> \in S <=> <<l, id>> \in T
    PROVE  S = T
BY DEF Keys

LEMMA Places ==
    /\ AllResident \subseteq Keys /\ AllOnDisk \subseteq Keys
    /\ \A l \in Layers, id \in Ids :
         /\ <<l, id>> \in AllResident <=> id \in DOMAIN blocks[l] /\ ~blocks[l][id].on_disk
         /\ <<l, id>> \in AllOnDisk <=> id \in DOMAIN blocks[l] /\ blocks[l][id].on_disk
BY DEF AllResident, AllOnDisk, Resident, OnDisk, HasBlock, Keys

LEMMA NewPlaces ==
    /\ AllResident' \subseteq Keys /\ AllOnDisk' \subseteq Keys
    /\ \A l \in Layers, id \in Ids :
         /\ <<l, id>> \in AllResident' <=> id \in DOMAIN blocks'[l] /\ ~blocks'[l][id].on_disk
         /\ <<l, id>> \in AllOnDisk' <=> id \in DOMAIN blocks'[l] /\ blocks'[l][id].on_disk
BY DEF AllResident, AllOnDisk, Resident, OnDisk, HasBlock, Keys

\* A block more in memory.
LEMMA MemoryMore ==
    ASSUME Memory, NEW k, k \notin AllResident, AllResident' = AllResident \cup {k},
           ~OverBudget, current_memory_used_' = current_memory_used_ + 1
    PROVE  Memory'
<1>1. IsFiniteSet(AllResident) /\ current_memory_used_ = Cardinality(AllResident)
  BY DEF Memory
<1>2. IsFiniteSet(AllResident') /\ Cardinality(AllResident') = Cardinality(AllResident) + 1
  BY <1>1, FS_AddElement
<1>3. Cardinality(AllResident) \in Nat
  BY <1>1, FS_CardinalityType
<1>4. Limit > 0 => current_memory_used_' <= Limit
  BY <1>1, <1>3, ConstantsAssumption DEF OverBudget
<1>5. QED  BY <1>1, <1>2, <1>4 DEF Memory

\* Blocks that leave memory.
LEMMA MemoryFewer ==
    ASSUME Memory, NEW ks, ks \subseteq AllResident, AllResident' = AllResident \ ks,
           current_memory_used_' = MemoryLess(Cardinality(ks))
    PROVE  Memory'
<1>1. IsFiniteSet(AllResident) /\ current_memory_used_ = Cardinality(AllResident)
  BY DEF Memory
<1>2. AllResident \cap ks = ks
  OBVIOUS
<1>3. IsFiniteSet(AllResident') /\ Cardinality(AllResident') = Cardinality(AllResident) - Cardinality(ks)
  BY <1>1, <1>2, FS_Difference
<1>4. IsFiniteSet(ks) /\ Cardinality(ks) <= Cardinality(AllResident)
  BY <1>1, FS_Subset
<1>5. Cardinality(ks) \in Nat /\ Cardinality(AllResident) \in Nat
  BY <1>1, <1>4, FS_CardinalityType
<1>6. current_memory_used_' = current_memory_used_ - Cardinality(ks)
  BY <1>1, <1>4, <1>5 DEF MemoryLess
<1>7. Limit > 0 => current_memory_used_' <= Limit
  <2>1. Limit > 0 => Cardinality(AllResident) <= Limit
    BY <1>1 DEF Memory
  <2>2. QED  BY <1>1, <1>5, <1>6, <2>1, ConstantsAssumption
<1>8. QED  BY <1>1, <1>3, <1>6, <1>7 DEF Memory

\* Contents that move between memory and a file.
LEMMA ContentMoved ==
    ASSUME Content, UNCHANGED <<table, written>>,
           \A l \in Layers : DOMAIN blocks'[l] = DOMAIN blocks[l],
           \A l \in Layers : \A id \in DOMAIN blocks[l] : Stored(l, id)' = Stored(l, id)
    PROVE  Content'
<1>1. SUFFICES ASSUME NEW l \in Layers, NEW p \in Positions
               PROVE  (IF HasBlock(l, Resolve(l, p)) THEN Stored(l, Resolve(l, p))[p % BlockSize] = written[l][p]
                                                     ELSE written[l][p] = 0)'
  BY DEF Content
<1>2. Resolve(l, p)' = Resolve(l, p) /\ (HasBlock(l, Resolve(l, p))' <=> HasBlock(l, Resolve(l, p)))
  BY DEF Resolve, HasBlock
<1>3. IF HasBlock(l, Resolve(l, p)) THEN Stored(l, Resolve(l, p))[p % BlockSize] = written[l][p]
                                    ELSE written[l][p] = 0
  BY DEF Content
<1>4. CASE HasBlock(l, Resolve(l, p))
  <2>1. Stored(l, Resolve(l, p))' = Stored(l, Resolve(l, p))
    BY <1>2, <1>4 DEF HasBlock, Stored
  <2>2. QED  BY <1>2, <1>3, <1>4, <2>1
<1>5. CASE ~HasBlock(l, Resolve(l, p))
  BY <1>2, <1>3, <1>5
<1>6. QED  BY <1>4, <1>5

\* Who is writing a file out.
LEMMA WritingBy ==
    ASSUME NEW p \in Threads, \A q \in Threads : q # p => ~At(q, "evict")
    PROVE  Writing = {k \in {<<job[p].layer, job[p].victim>>} : At(p, "evict")}
BY DEF Writing

LEMMA NowWritingBy ==
    ASSUME NEW p \in Threads, \A q \in Threads : q # p => ~At(q, "evict")'
    PROVE  Writing' = {k \in {<<job'[p].layer, job'[p].victim>>} : At(p, "evict")'}
BY DEF Writing

\* A thread that loads or evicts keeps its block, its operation and, if it is
\* the worker, its waiter.
LEMMA LoadingOwner ==
    ASSUME Inv, Exclusive, Reads, NEW p \in Threads, NEW j \in JobType, job' = [job EXCEPT ![p] = j],
           j.layer = job[p].layer, j.id = job[p].id,
           \/ job[p].pc \in {"load", "alloc"} /\ j.pc = "evict" /\ j.back = job[p].pc
           \/ job[p].pc = "evict" /\ j.pc = job[p].back
           \/ job[p].pc = "load" /\ j.pc = "loaded",
           UNCHANGED <<async_queue_, written, got>>
    PROVE  Exclusive' /\ Reads' /\ job'[p] = j /\ \A q \in Threads : q # p => job'[q] = job[q] /\ ~At(q, "evict")'
<1>1. Jobs /\ job \in [Threads -> JobType]
  BY DEF Inv, Jobs
<1>2. job'[p] = j /\ \A q \in Threads : q # p => job'[q] = job[q]
  BY <1>1
<1>3. \A q \in Threads : q # p => ~At(q, "evict")'
  BY <1>2, Alone DEF At
<1>4. CASE p = "worker"
  <2>1. job'["caller"] = job["caller"] /\ Busy /\ Key("worker")' = Key("worker")
    BY <1>2, <1>4 DEF Threads, Busy, At, Key
  <2>2. Exclusive'
    BY <2>1, ExclusiveBusy
  <2>3. Appending' <=> Appending
    BY <2>1 DEF Appending, In, Evicting, At
  <2>4. QED  BY <1>2, <1>3, <2>2, <2>3, ReadsSame
<1>5. CASE p = "caller"
  <2>1. job'["worker"] = job["worker"] /\ job'["caller"] = j /\ ~At("caller", "wait")
    BY <1>2, <1>5 DEF Threads, At
  <2>2. Exclusive'
    BY <2>1, ExclusiveSame
  <2>3. Appending' => Appending
    BY <1>1, <1>5, <2>1 DEF Appending, In, Evicting, At, Jobs
  <2>4. QED  BY <1>2, <1>3, <2>2, <2>3, ReadsSame
<1>6. QED  BY <1>4, <1>5 DEF Threads

\* The victim's file is written; the victim is still in memory.
LEMMA EvictWriteStore == ASSUME Inv, CInv, NEW p \in Threads, EvictWrite(p) PROVE CInv'
<1> DEFINE l == job[p].layer
           v == LruOf(l)
           j == [job[p] EXCEPT !.pc = "evict", !.victim = v, !.back = job[p].pc]
<1>1. /\ job[p].pc \in {"load", "alloc"} /\ Resident(l) # {}
      /\ files' = WithFile(<<l, v>>, blocks[l][v].data)
      /\ job' = [job EXCEPT ![p].pc = "evict", ![p].victim = v, ![p].back = job[p].pc]
      /\ UNCHANGED <<table, blocks, current_memory_used_>> /\ UNCHANGED <<async_queue_, written, got>>
  BY DEF EvictWrite, EvictDue, At, asyncVars
<1>2. /\ Blocks /\ Stamps /\ job \in [Threads -> JobType] /\ l \in Layers
      /\ Exclusive /\ Memory /\ FilesExact /\ Content /\ Reads
  BY <1>1, LoadingLayer DEF Inv, CInv, Jobs
<1>3. v \in Resident(l)
  BY <1>1, <1>2, LruResident
<1> HIDE DEF v
<1>4. v \in Ids /\ v \in Int /\ v \in DOMAIN blocks[l] /\ ~blocks[l][v].on_disk
  <2>1. v \in DOMAIN blocks[l] /\ v \in Ids /\ ~blocks[l][v].on_disk
    BY <1>2, <1>3, BlockShape DEF Resident
  <2>2. QED  BY <2>1, ConstantsAssumption DEF Ids
<1>5. /\ job' = [job EXCEPT ![p] = j] /\ j \in JobType /\ j.layer = l /\ j.id = job[p].id
      /\ j.pc = "evict" /\ j.back = job[p].pc /\ j.victim = v
  BY <1>1, <1>2, <1>4 DEF JobType, Labels
<1> HIDE DEF j
<1>6. /\ Exclusive' /\ Reads' /\ job'[p] = j
      /\ \A q \in Threads : q # p => job'[q] = job[q] /\ ~At(q, "evict")'
  BY <1>1, <1>2, <1>5, LoadingOwner
<1>7. /\ DOMAIN files' = DOMAIN files \cup {<<l, v>>}
      /\ \A k \in DOMAIN files' : files'[k] = IF k = <<l, v>> THEN blocks[l][v].data ELSE files[k]
  BY <1>1 DEF WithFile
<1>8. At(p, "evict")' /\ ~At(p, "evict")
  BY <1>1, <1>5, <1>6 DEF At
<1>9. Writing = {}
  BY <1>1, <1>2, <1>8, Alone, WritingBy
<1>10. Writing' = {<<l, v>>}
  <2>1. job'[p].layer = l /\ job'[p].victim = v
    BY <1>5, <1>6
  <2>2. Writing' = {k \in {<<job'[p].layer, job'[p].victim>>} : At(p, "evict")'}
    BY <1>6, NowWritingBy
  <2>3. QED  BY <1>8, <2>1, <2>2
<1>11. AllOnDisk' = AllOnDisk /\ AllResident' = AllResident
  BY <1>1 DEF AllOnDisk, OnDisk, HasBlock, AllResident, Resident
<1>12. DOMAIN files = AllOnDisk
  BY <1>2, <1>9 DEF FilesExact, Writing
<1>13. FilesExact'
  <2>1. DOMAIN files' = AllOnDisk' \cup Writing'
    BY <1>7, <1>10, <1>11, <1>12
  <2>2. QED  BY <2>1 DEF FilesExact, Writing
<1>14. Memory'
  BY <1>1, <1>2, <1>11 DEF Memory
<1>15. WrittenOut'
  <2>1. files'[<<l, v>>] = blocks[l][v].data
    BY <1>7
  <2>2. v \in DOMAIN blocks'[l] /\ ~blocks'[l][v].on_disk
    BY <1>1, <1>4
  <2>3. ASSUME NEW q \in Threads, At(q, "evict")' PROVE q = p
    BY <1>6, <2>3
  <2>4. job'[p].layer = l /\ job'[p].victim = v
    BY <1>5, <1>6
  <2>5. QED  BY <1>1, <1>2, <2>1, <2>2, <2>3, <2>4 DEF WrittenOut, Resident
<1>16. Content'
  <2>1. ASSUME NEW m \in Layers, NEW id \in DOMAIN blocks[m] PROVE Stored(m, id)' = Stored(m, id)
    <3>1. CASE blocks[m][id].on_disk
      <4>1. id \in Ids
        BY <1>2, BlockShape
      <4>2. <<m, id>> \in DOMAIN files
        BY <1>12, <3>1, <4>1, Places
      <4>3. <<m, id>> # <<l, v>>
        BY <1>4, <3>1
      <4>4. files'[<<m, id>>] = files[<<m, id>>]
        BY <1>7, <4>2, <4>3
      <4>5. QED  BY <1>1, <3>1, <4>4 DEF Stored
    <3>2. CASE ~blocks[m][id].on_disk
      BY <1>1, <3>2 DEF Stored
    <3>3. QED  BY <3>1, <3>2
  <2>2. QED  BY <1>1, <1>2, <2>1, ContentMoved
<1>17. QED  BY <1>6, <1>13, <1>14, <1>15, <1>16 DEF CInv

\* The victim leaves memory: its contents are in its file.
LEMMA EvictDropStore == ASSUME Inv, CInv, NEW p \in Threads, EvictDrop(p) PROVE CInv'
<1> DEFINE l == job[p].layer
           v == job[p].victim
           ks == {<<l, v>>}
           j == [job[p] EXCEPT !.pc = job[p].back, !.victim = NoId]
<1>1. /\ job[p].pc = "evict" /\ blocks' = Evicted(ks) /\ current_memory_used_' = MemoryLess(1)
      /\ job' = [job EXCEPT ![p].pc = job[p].back, ![p].victim = NoId]
      /\ UNCHANGED <<table, files>> /\ UNCHANGED <<async_queue_, written, got>>
  BY DEF EvictDrop, At, asyncVars
<1>2. /\ Blocks /\ Jobs /\ job \in [Threads -> JobType]
      /\ Exclusive /\ WrittenOut /\ Memory /\ FilesExact /\ Content /\ Reads
  BY DEF Inv, CInv, Jobs
<1>3. /\ job' = [job EXCEPT ![p] = j] /\ j \in JobType /\ j.layer = l /\ j.id = job[p].id
      /\ j.pc = job[p].back
  <2>1. job' = [job EXCEPT ![p].pc = job[p].back, ![p].victim = NoId] /\ NoId \in Int
    BY <1>1 DEF NoId
  <2>2. j \in JobType /\ j.layer = l /\ j.id = job[p].id /\ j.pc = job[p].back
    BY <1>2, <2>1 DEF JobType
  <2>3. job' = [job EXCEPT ![p] = j]
    BY <1>2, <2>1
  <2>4. QED  BY <2>2, <2>3
<1>4. /\ l \in Layers /\ v \in DOMAIN blocks[l] /\ v \in Ids /\ ~blocks[l][v].on_disk
      /\ files[<<l, v>>] = blocks[l][v].data
  BY <1>1, <1>2, BlockShape DEF WrittenOut, Resident, At
<1> HIDE DEF j
<1>5. j.pc # "evict"
  BY <1>1, <1>2, <1>3 DEF Jobs, At, Threads
<1>6. /\ Exclusive' /\ Reads' /\ job'[p] = j
      /\ \A q \in Threads : q # p => job'[q] = job[q] /\ ~At(q, "evict")'
  BY <1>1, <1>2, <1>3, LoadingOwner
<1>7. \A m \in Layers :
        /\ DOMAIN blocks'[m] = DOMAIN blocks[m]
        /\ \A id \in DOMAIN blocks[m] :
             /\ blocks'[m][id].on_disk <=> blocks[m][id].on_disk \/ <<m, id>> \in ks
             /\ <<m, id>> \notin ks => blocks'[m][id] = blocks[m][id]
  BY <1>1, <1>2, EvictedBlocks
<1>8. ~At(p, "evict")' /\ At(p, "evict")
  BY <1>1, <1>5, <1>6 DEF At
<1>9. Writing = {<<l, v>>}
  BY <1>1, <1>2, <1>8, Alone, WritingBy
<1>10. Writing' = {} /\ \A q \in Threads : ~At(q, "evict")'
  BY <1>6, <1>8, NowWritingBy
<1>11. <<l, v>> \in Keys /\ \A m, id : <<m, id>> \in ks <=> m = l /\ id = v
  BY <1>4 DEF Keys
<1> HIDE DEF l, v, ks
<1>12. AllResident' = AllResident \ ks
  <2>1. AllResident \ ks \subseteq Keys /\ AllResident' \subseteq Keys
    BY Places, NewPlaces
  <2>2. \A m \in Layers, id \in Ids : <<m, id>> \in AllResident' <=> <<m, id>> \in AllResident \ ks
    BY <1>7, Places, NewPlaces
  <2>3. QED  BY <2>1, <2>2, KeySets, ZenonT(40)
<1>13. AllOnDisk' = AllOnDisk \cup {<<l, v>>}
  <2>1. AllOnDisk \cup {<<l, v>>} \subseteq Keys /\ AllOnDisk' \subseteq Keys
    BY <1>11, Places, NewPlaces
  <2>2. ASSUME NEW m \in Layers, NEW id \in Ids
        PROVE  <<m, id>> \in AllOnDisk' <=> <<m, id>> \in AllOnDisk \cup {<<l, v>>}
    <3>1. CASE m = l /\ id = v
      <4>1. id \in DOMAIN blocks'[m] /\ blocks'[m][id].on_disk
        BY <1>4, <1>7, <1>11, <3>1
      <4>2. QED  BY <3>1, <4>1, NewPlaces
    <3>2. CASE ~(m = l /\ id = v)
      <4>1. id \in DOMAIN blocks'[m] /\ blocks'[m][id].on_disk <=> id \in DOMAIN blocks[m] /\ blocks[m][id].on_disk
        BY <1>7, <1>11, <3>2
      <4>2. QED  BY <3>2, <4>1, Places, NewPlaces
    <3>3. QED  BY <3>1, <3>2
  <2>3. QED  BY <2>1, <2>2, KeySets, ZenonT(40)
<1>14. FilesExact'
  <2>1. DOMAIN files = AllOnDisk \cup Writing
    BY <1>2 DEF FilesExact, Writing
  <2>2. DOMAIN files' = AllOnDisk' \cup Writing'
    BY <1>1, <1>9, <1>10, <1>13, <2>1
  <2>3. QED  BY <2>2 DEF FilesExact, Writing
<1>15. Memory'
  <2>1. <<l, v>> \in AllResident
    BY <1>4, Places
  <2>2. Cardinality(ks) = 1
    BY FS_Singleton, Zenon DEF ks
  <2>3. QED  BY <1>1, <1>2, <1>12, <2>1, <2>2, MemoryFewer DEF ks
<1>16. WrittenOut'
  BY <1>10 DEF WrittenOut
<1>17. Content'
  <2>1. ASSUME NEW m \in Layers, NEW id \in DOMAIN blocks[m] PROVE Stored(m, id)' = Stored(m, id)
    <3>1. CASE <<m, id>> \in ks
      <4>1. m = l /\ id = v /\ blocks'[m][id].on_disk
        BY <1>7, <1>11, <3>1
      <4>2. QED  BY <1>1, <1>4, <4>1 DEF Stored
    <3>2. CASE <<m, id>> \notin ks
      BY <1>1, <1>7, <3>2 DEF Stored
    <3>3. QED  BY <3>1, <3>2
  <2>2. QED  BY <1>1, <1>2, <1>7, <2>1, ContentMoved
<1>18. QED  BY <1>6, <1>14, <1>15, <1>16, <1>17 DEF CInv

\* A block returns to memory with the contents of its file, which goes.
LEMMA LoadReadStore == ASSUME Inv, CInv, NEW p \in Threads, LoadRead(p) PROVE CInv'
<1> DEFINE l == job[p].layer
           id == job[p].id
           j == [job[p] EXCEPT !.pc = "loaded"]
<1>1. /\ job[p].pc = "load" /\ GoTo(p, "loaded") /\ OnDisk(l, id) /\ ~OverBudget /\ <<l, id>> \in DOMAIN files
      /\ files' = WithoutFiles({<<l, id>>}) /\ current_memory_used_' = current_memory_used_ + 1
      /\ UNCHANGED table /\ UNCHANGED <<async_queue_, written, got>>
  BY DEF LoadRead, At, asyncVars
<1>2. /\ Blocks /\ job \in [Threads -> JobType] /\ l \in Layers /\ id \in Ids
      /\ Exclusive /\ Memory /\ FilesExact /\ Content /\ Reads
  BY <1>1, LoadingLayer DEF Inv, CInv, Jobs
<1>3. job' = [job EXCEPT ![p] = j] /\ j \in JobType /\ j.layer = l /\ j.id = id /\ j.pc = "loaded"
  BY <1>1, <1>2 DEF JobType, Labels, GoTo
<1> HIDE DEF j
<1>4. /\ Exclusive' /\ Reads' /\ job'[p] = j
      /\ \A q \in Threads : q # p => job'[q] = job[q] /\ ~At(q, "evict")'
  BY <1>1, <1>2, <1>3, LoadingOwner
<1>5. \A m \in Layers :
        /\ DOMAIN blocks'[m] = DOMAIN blocks[m]
        /\ \A i \in DOMAIN blocks[m] :
             /\ blocks'[m][i].on_disk <=> blocks[m][i].on_disk /\ <<m, i>> # <<l, id>>
             /\ <<m, i>> # <<l, id>> => blocks'[m][i] = blocks[m][i]
             /\ <<m, i>> = <<l, id>> => blocks'[m][i].data = files[<<l, id>>]
  BY LoadedBlock DEF Key
<1>6. id \in DOMAIN blocks[l] /\ blocks[l][id].on_disk /\ <<l, id>> \in Keys
  BY <1>1, <1>2 DEF OnDisk, HasBlock, Keys
<1>7. /\ DOMAIN files' = DOMAIN files \ {<<l, id>>}
      /\ \A k \in DOMAIN files' : files'[k] = files[k]
  BY <1>1 DEF WithoutFiles
<1>8. ~At(p, "evict")' /\ ~At(p, "evict")
  BY <1>1, <1>3, <1>4 DEF At
<1>9. Writing = {}
  BY <1>1, <1>2, <1>8, Alone, WritingBy
<1>10. Writing' = {} /\ \A q \in Threads : ~At(q, "evict")'
  BY <1>4, <1>8, NowWritingBy
<1> HIDE DEF l, id
<1>11. AllResident' = AllResident \cup {<<l, id>>}
  <2>1. AllResident \cup {<<l, id>>} \subseteq Keys /\ AllResident' \subseteq Keys
    BY <1>6, Places, NewPlaces
  <2>2. ASSUME NEW m \in Layers, NEW i \in Ids
        PROVE  <<m, i>> \in AllResident' <=> <<m, i>> \in AllResident \cup {<<l, id>>}
    <3>1. CASE m = l /\ i = id
      <4>1. i \in DOMAIN blocks'[m] /\ ~blocks'[m][i].on_disk
        BY <1>5, <1>6, <3>1
      <4>2. QED  BY <3>1, <4>1, NewPlaces
    <3>2. CASE ~(m = l /\ i = id)
      <4>1. i \in DOMAIN blocks'[m] /\ ~blocks'[m][i].on_disk <=> i \in DOMAIN blocks[m] /\ ~blocks[m][i].on_disk
        BY <1>5, <3>2
      <4>2. QED  BY <3>2, <4>1, Places, NewPlaces
    <3>3. QED  BY <3>1, <3>2
  <2>3. QED  BY <2>1, <2>2, KeySets, ZenonT(40)
<1>12. AllOnDisk' = AllOnDisk \ {<<l, id>>}
  <2>1. AllOnDisk \ {<<l, id>>} \subseteq Keys /\ AllOnDisk' \subseteq Keys
    BY Places, NewPlaces
  <2>2. \A m \in Layers, i \in Ids : <<m, i>> \in AllOnDisk' <=> <<m, i>> \in AllOnDisk \ {<<l, id>>}
    BY <1>5, Places, NewPlaces
  <2> DEFINE S == AllOnDisk \ {<<l, id>>}
  <2>3. S \subseteq Keys /\ \A m \in Layers, i \in Ids : <<m, i>> \in AllOnDisk' <=> <<m, i>> \in S
    BY <2>1, <2>2
  <2> HIDE DEF S
  <2>4. AllOnDisk' = S
    BY <2>1, <2>3, KeySets
  <2>5. QED  BY <2>4 DEF S
<1>13. DOMAIN files = AllOnDisk
  BY <1>2, <1>9 DEF FilesExact, Writing
<1>14. FilesExact'
  <2>1. DOMAIN files' = AllOnDisk' \cup Writing'
    BY <1>7, <1>10, <1>12, <1>13
  <2>2. QED  BY <2>1 DEF FilesExact, Writing
<1>15. Memory'
  <2>1. <<l, id>> \notin AllResident
    BY <1>2, <1>6, Places
  <2>2. QED  BY <1>1, <1>2, <1>11, <2>1, MemoryMore
<1>16. WrittenOut'
  BY <1>10 DEF WrittenOut
<1>17. Content'
  <2>1. ASSUME NEW m \in Layers, NEW i \in DOMAIN blocks[m] PROVE Stored(m, i)' = Stored(m, i)
    <3>1. CASE <<m, i>> = <<l, id>>
      <4>1. m = l /\ i = id /\ ~blocks'[m][i].on_disk
        BY <1>5, <3>1
      <4>2. QED  BY <1>5, <1>6, <3>1, <4>1 DEF Stored
    <3>2. CASE <<m, i>> # <<l, id>>
      <4>1. blocks'[m][i] = blocks[m][i] /\ i \in Ids
        BY <1>2, <1>5, <3>2, BlockShape
      <4>2. CASE blocks[m][i].on_disk
        <5>1. <<m, i>> \in DOMAIN files'
          BY <1>7, <1>13, <3>2, <4>1, <4>2, Places
        <5>2. QED  BY <1>7, <4>1, <4>2, <5>1 DEF Stored
      <4>3. CASE ~blocks[m][i].on_disk
        BY <4>1, <4>3 DEF Stored
      <4>4. QED  BY <4>2, <4>3
    <3>3. QED  BY <3>1, <3>2
  <2>2. QED  BY <1>1, <1>2, <1>5, <2>1, ContentMoved
<1>18. QED  BY <1>4, <1>14, <1>15, <1>16, <1>17 DEF CInv

\* The caller works while nobody evicts.
LEMMA CallerAlone ==
    ASSUME Exclusive, job["caller"].pc \in {"idle", "alloc", "write"}, job'["worker"] = job["worker"],
           ~At("caller", "evict")', UNCHANGED async_queue_
    PROVE  Exclusive' /\ Writing = {} /\ Writing' = {} /\ WrittenOut'
<1>1. ~At("caller", "wait") /\ ~At("caller", "evict")
  BY DEF At
<1>2. Exclusive' /\ ~At("worker", "evict") /\ ~At("worker", "evict")'
  BY <1>1, ExclusiveSame, WorkerRests DEF At
<1>3. \A q \in Threads : ~At(q, "evict") /\ ~At(q, "evict")'
  BY <1>1, <1>2 DEF Threads
<1>4. Writing = {} /\ Writing' = {}
  BY <1>3 DEF Writing
<1>5. WrittenOut'
  BY <1>3 DEF WrittenOut
<1>6. QED  BY <1>2, <1>4, <1>5

\* alloc_block_id() inserts a blank block where nothing was written.
LEMMA AllocInsertStore == ASSUME Inv, CInv, AllocInsert PROVE CInv'
<1> DEFINE l == job["caller"].layer
           id == job["caller"].id
<1>1. /\ At("caller", "alloc") /\ GoTo("caller", "write") /\ ~OverBudget
      /\ current_memory_used_' = current_memory_used_ + 1
      /\ UNCHANGED <<table, files>> /\ UNCHANGED <<async_queue_, written, got>>
  BY DEF AllocInsert, asyncVars
<1>2. /\ Blocks /\ Exclusive /\ Memory /\ FilesExact /\ Content /\ Reads /\ job \in [Threads -> JobType]
  BY DEF Inv, CInv, Jobs
<1>3. /\ <<l, id>> \in Keys
      /\ \A m \in Layers :
           /\ DOMAIN blocks'[m] = DOMAIN blocks[m] \cup {i \in {id} : m = l}
           /\ \A i \in DOMAIN blocks'[m] : blocks'[m][i] = IF <<m, i>> = <<l, id>> THEN NewBlock ELSE blocks[m][i]
  BY InsertedBlock DEF Key
<1>4. l \in Layers /\ id \in Ids /\ id \notin DOMAIN blocks[l]
  BY <1>1, AllocFacts DEF HasBlock
<1>5. job'["worker"] = job["worker"] /\ job'["caller"].pc = "write"
  BY <1>1, <1>2 DEF GoTo, Threads, JobType
<1>6. Exclusive' /\ Writing = {} /\ Writing' = {} /\ WrittenOut'
  BY <1>1, <1>2, <1>5, CallerAlone DEF At
<1>7. Reads'
  <2>1. Appending
    BY <1>1 DEF Appending, In, At
  <2>2. QED  BY <1>1, <1>2, <2>1, ReadsSame
<1> HIDE DEF l, id
<1>8. ~NewBlock.on_disk /\ NewBlock.data = Blank
  BY DEF NewBlock
<1>9. AllResident' = AllResident \cup {<<l, id>>}
  <2>1. AllResident \cup {<<l, id>>} \subseteq Keys /\ AllResident' \subseteq Keys
    BY <1>3, Places, NewPlaces
  <2>2. ASSUME NEW m \in Layers, NEW i \in Ids
        PROVE  <<m, i>> \in AllResident' <=> <<m, i>> \in AllResident \cup {<<l, id>>}
    <3>1. CASE m = l /\ i = id
      <4>1. i \in DOMAIN blocks'[m] /\ ~blocks'[m][i].on_disk
        BY <1>3, <1>8, <3>1
      <4>2. QED  BY <3>1, <4>1, NewPlaces
    <3>2. CASE ~(m = l /\ i = id)
      <4>1. i \in DOMAIN blocks'[m] /\ ~blocks'[m][i].on_disk <=> i \in DOMAIN blocks[m] /\ ~blocks[m][i].on_disk
        BY <1>3, <3>2
      <4>2. QED  BY <3>2, <4>1, Places, NewPlaces
    <3>3. QED  BY <3>1, <3>2
  <2>3. QED  BY <2>1, <2>2, KeySets, ZenonT(40)
<1>10. AllOnDisk' = AllOnDisk
  <2>1. ASSUME NEW m \in Layers, NEW i \in Ids
        PROVE  <<m, i>> \in AllOnDisk' <=> <<m, i>> \in AllOnDisk
    <3>1. CASE m = l /\ i = id
      <4>1. ~(i \in DOMAIN blocks'[m] /\ blocks'[m][i].on_disk) /\ i \notin DOMAIN blocks[m]
        BY <1>3, <1>4, <1>8, <3>1
      <4>2. QED  BY <4>1, Places, NewPlaces
    <3>2. CASE ~(m = l /\ i = id)
      <4>1. i \in DOMAIN blocks'[m] /\ blocks'[m][i].on_disk <=> i \in DOMAIN blocks[m] /\ blocks[m][i].on_disk
        BY <1>3, <3>2
      <4>2. QED  BY <4>1, Places, NewPlaces
    <3>3. QED  BY <3>1, <3>2
  <2>2. AllOnDisk \subseteq Keys /\ AllOnDisk' \subseteq Keys
    BY Places, NewPlaces
  <2>3. QED  BY <2>1, <2>2, KeySets, ZenonT(40)
<1>11. FilesExact'
  <2>1. DOMAIN files' = AllOnDisk' \cup Writing'
    BY <1>1, <1>2, <1>6, <1>10 DEF FilesExact, Writing
  <2>2. QED  BY <2>1 DEF FilesExact, Writing
<1>12. Memory'
  <2>1. <<l, id>> \notin AllResident
    BY <1>4, Places
  <2>2. QED  BY <1>1, <1>2, <1>9, <2>1, MemoryMore
<1>13. Content'
  <2>1. SUFFICES ASSUME NEW m \in Layers, NEW p \in Positions
                 PROVE  (IF HasBlock(m, Resolve(m, p)) THEN Stored(m, Resolve(m, p))[p % BlockSize] = written[m][p]
                                                       ELSE written[m][p] = 0)'
    BY DEF Content
  <2> DEFINE r == Resolve(m, p)
  <2>2. Resolve(m, p)' = r
    BY <1>1 DEF Resolve
  <2>3. IF HasBlock(m, r) THEN Stored(m, r)[p % BlockSize] = written[m][p] ELSE written[m][p] = 0
    BY <1>2 DEF Content
  <2>4. p % BlockSize \in Offsets
    BY PositionParts
  <2> HIDE DEF r
  <2>5. CASE m = l /\ r = id
    <3>1. r \in DOMAIN blocks'[m] /\ blocks'[m][r] = NewBlock /\ written[m][p] = 0
      BY <1>3, <1>4, <2>3, <2>5 DEF HasBlock
    <3>2. Blank[p % BlockSize] = 0
      BY <2>4 DEF Blank
    <3>3. (IF r \in DOMAIN blocks'[m] THEN blocks'[m][r].data[p % BlockSize] = written'[m][p] ELSE written'[m][p] = 0)
          /\ ~blocks'[m][r].on_disk
      BY <1>1, <1>8, <3>1, <3>2
    <3>4. QED  BY <2>2, <3>1, <3>3 DEF HasBlock, Stored
  <2>6. CASE ~(m = l /\ r = id)
    <3>1. r \in DOMAIN blocks'[m] <=> r \in DOMAIN blocks[m]
      BY <1>3, <2>6
    <3>2. r \in DOMAIN blocks[m] => blocks'[m][r] = blocks[m][r]
      BY <1>3, <2>6
    <3>3. QED  BY <1>1, <2>2, <2>3, <3>1, <3>2 DEF HasBlock, Stored
  <2>7. QED  BY <2>5, <2>6
<1>14. QED  BY <1>6, <1>7, <1>11, <1>12, <1>13 DEF CInv

\* append() writes its tokens to its block, and to no other.
LEMMA AppendWriteStore == ASSUME Inv, CInv, AppendWrite PROVE CInv'
<1> DEFINE l == job["caller"].layer
           id == job["caller"].id
           o == arg.pos % BlockSize
<1>1. /\ At("caller", "write") /\ id \in Resident(l) /\ job' = [job EXCEPT !["caller"] = Idle]
      /\ UNCHANGED <<table, files, current_memory_used_>> /\ UNCHANGED <<async_queue_, got>>
      /\ written' = [written EXCEPT ![l] = [p \in Positions |-> IF p - (arg.pos - o) \in Copied(o)
                                                                THEN arg.tag ELSE @[p]]]
  BY DEF AppendWrite, asyncVars
<1>2. /\ Tables /\ Blocks /\ Fresh /\ Exclusive /\ Memory /\ FilesExact /\ Content /\ Reads
      /\ job \in [Threads -> JobType]
  BY DEF Inv, CInv, Jobs
<1>3. l \in Layers /\ id \in Ids /\ arg.pos \in Positions /\ id = Resolve(l, arg.pos) /\ Appending
  BY <1>1, WriteFacts
<1>4. \A m \in Layers :
        /\ DOMAIN blocks'[m] = DOMAIN blocks[m]
        /\ \A i \in DOMAIN blocks[m] :
             /\ blocks'[m][i].on_disk <=> blocks[m][i].on_disk
             /\ <<m, i>> # <<l, id>> => blocks'[m][i] = blocks[m][i]
             /\ <<m, i>> = <<l, id>> =>
                  \A q \in Offsets : blocks'[m][i].data[q] = IF q \in Copied(o) THEN arg.tag
                                                                               ELSE blocks[m][i].data[q]
  BY WrittenBlock DEF Key
<1>5. id \in DOMAIN blocks[l] /\ ~blocks[l][id].on_disk
  BY <1>1 DEF Resident
<1>6. job'["worker"] = job["worker"] /\ job'["caller"].pc = "idle"
  BY <1>1, <1>2, IdleJob DEF Threads
<1>7. Exclusive' /\ Writing = {} /\ Writing' = {} /\ WrittenOut'
  BY <1>1, <1>2, <1>6, CallerAlone DEF At
<1>8. Reads'
  <2>1. got' = {}
    BY <1>1, <1>2, <1>3 DEF Reads
  <2>2. QED  BY <2>1 DEF Reads, ReadsLatest
<1>9. \A m \in Layers, p \in Positions :
        written'[m][p] = IF m = l /\ p - (arg.pos - o) \in Copied(o) THEN arg.tag ELSE written[m][p]
  <2> DEFINE C == {p \in Positions : p - (arg.pos - o) \in Copied(o)}
  <2>1. written' = [written EXCEPT ![l] = [p \in Positions |-> IF p \in C THEN arg.tag ELSE @[p]]]
    BY <1>1
  <2>2. \A p \in Positions : p \in C <=> p - (arg.pos - o) \in Copied(o)
    OBVIOUS
  <2> HIDE DEF C, l
  <2>3. \A m \in Layers, p \in Positions : written'[m][p] = IF m = l /\ p \in C THEN arg.tag ELSE written[m][p]
    BY <1>2, <1>3, <2>1 DEF Tables
  <2>4. QED  BY <2>2, <2>3
<1>10. /\ \A q \in Copied(o) : q \in Offsets
       /\ id # NoId
  <2>1. NoId \notin Ids
    BY ConstantsAssumption DEF Ids, NoId
  <2>2. QED  BY <1>3, <2>1 DEF Copied
<1> HIDE DEF l, id
<1>11. AllResident' = AllResident /\ AllOnDisk' = AllOnDisk
  <2>1. \A m \in Layers, i \in Ids : /\ <<m, i>> \in AllResident' <=> <<m, i>> \in AllResident
                                     /\ <<m, i>> \in AllOnDisk' <=> <<m, i>> \in AllOnDisk
    BY <1>4, Places, NewPlaces
  <2>2. AllResident \subseteq Keys /\ AllResident' \subseteq Keys /\ AllOnDisk \subseteq Keys /\ AllOnDisk' \subseteq Keys
    BY Places, NewPlaces
  <2>3. QED  BY <2>1, <2>2, KeySets, ZenonT(40)
<1>12. FilesExact' /\ Memory'
  <2>1. DOMAIN files' = AllOnDisk' \cup Writing'
    BY <1>1, <1>2, <1>7, <1>11 DEF FilesExact, Writing
  <2>2. QED  BY <1>1, <1>2, <1>11, <2>1 DEF FilesExact, Writing, Memory
<1>13. Content'
  <2>1. SUFFICES ASSUME NEW m \in Layers, NEW p \in Positions
                 PROVE  (IF HasBlock(m, Resolve(m, p)) THEN Stored(m, Resolve(m, p))[p % BlockSize] = written[m][p]
                                                       ELSE written[m][p] = 0)'
    BY DEF Content
  <2> DEFINE r == Resolve(m, p)
  <2>2. Resolve(m, p)' = r
    BY <1>1 DEF Resolve
  <2>3. IF HasBlock(m, r) THEN Stored(m, r)[p % BlockSize] = written[m][p] ELSE written[m][p] = 0
    BY <1>2 DEF Content
  <2>4. p % BlockSize \in Offsets /\ p \div BlockSize \in BlockIndexes /\ arg.pos \div BlockSize \in BlockIndexes
    BY <1>3, PositionParts
  <2>5. /\ p - (arg.pos - o) \in Offsets <=> p \div BlockSize = arg.pos \div BlockSize
        /\ p \div BlockSize = arg.pos \div BlockSize => p - (arg.pos - o) = p % BlockSize
    BY <1>3, SameBlock
  <2>6. m = l => (r = id <=> p \div BlockSize = arg.pos \div BlockSize)
    BY <1>2, <1>3, <1>10, <2>4 DEF Resolve, Fresh
  <2> HIDE DEF r, o
  <2>7. CASE m = l /\ r = id
    <3>1. written'[m][p] = IF p % BlockSize \in Copied(o) THEN arg.tag ELSE written[m][p]
      BY <1>9, <2>5, <2>6, <2>7
    <3>2. /\ r \in DOMAIN blocks'[m] /\ ~blocks'[m][r].on_disk
          /\ blocks'[m][r].data[p % BlockSize] = IF p % BlockSize \in Copied(o) THEN arg.tag
                                                                     ELSE blocks[m][r].data[p % BlockSize]
      BY <1>3, <1>4, <1>5, <2>4, <2>7
    <3>3. blocks[m][r].data[p % BlockSize] = written[m][p]
      BY <1>5, <2>3, <2>7 DEF HasBlock, Stored
    <3>4. blocks'[m][r].data[p % BlockSize] = written'[m][p]
      BY <3>1, <3>2, <3>3
    <3>5. QED  BY <2>2, <3>2, <3>4 DEF HasBlock, Stored
  <2>8. CASE ~(m = l /\ r = id)
    <3>1. written'[m][p] = written[m][p]
      BY <1>9, <1>10, <2>5, <2>6, <2>8
    <3>2. r \in DOMAIN blocks'[m] <=> r \in DOMAIN blocks[m]
      BY <1>4
    <3>3. r \in DOMAIN blocks[m] => blocks'[m][r] = blocks[m][r]
      BY <1>4, <2>8
    <3>4. QED  BY <1>1, <2>2, <2>3, <3>1, <3>2, <3>3 DEF HasBlock, Stored
  <2>9. QED  BY <2>7, <2>8
<1>14. QED  BY <1>7, <1>8, <1>12, <1>13 DEF CInv

\* flush_to_disk() and unload_memory(): every evicted block has its file.
LEMMA EvictAllStore ==
    ASSUME Inv, CInv, At("caller", "idle"), NEW ks, ks \subseteq AllResident, EvictAll(ks)
    PROVE  CInv'
<1>1. /\ blocks' = Evicted(ks) /\ current_memory_used_' = MemoryLess(Cardinality(ks))
      /\ UNCHANGED table /\ UNCHANGED <<async_queue_, job, written, got>>
      /\ files' = [k \in DOMAIN files \cup ks |-> IF k \in ks THEN blocks[k[1]][k[2]].data ELSE files[k]]
  BY DEF EvictAll, asyncVars
<1>2. Blocks /\ Exclusive /\ Memory /\ FilesExact /\ Content /\ Reads
  BY DEF Inv, CInv
<1>3. \A l \in Layers :
        /\ DOMAIN blocks'[l] = DOMAIN blocks[l] /\ DOMAIN blocks[l] \subseteq Ids
        /\ \A id \in DOMAIN blocks[l] :
             /\ blocks'[l][id].on_disk <=> blocks[l][id].on_disk \/ <<l, id>> \in ks
             /\ <<l, id>> \notin ks => blocks'[l][id] = blocks[l][id]
  BY <1>1, <1>2, EvictedBlocks, BlockShape
<1>4. Exclusive' /\ Writing = {} /\ Writing' = {} /\ WrittenOut'
  BY <1>1, <1>2, CallerAlone DEF At
<1>5. Reads'
  <2>1. Appending' <=> Appending
    BY <1>1 DEF Appending, In, Evicting, At
  <2>2. QED  BY <1>1, <1>2, <2>1, ReadsSame
<1>6. \A l \in Layers, id \in Ids : <<l, id>> \in ks => id \in DOMAIN blocks[l] /\ ~blocks[l][id].on_disk
  BY Places
<1>7. AllResident' = AllResident \ ks
  <2>1. AllResident \ ks \subseteq Keys /\ AllResident' \subseteq Keys
    BY Places, NewPlaces
  <2>2. \A l \in Layers, id \in Ids : <<l, id>> \in AllResident' <=> <<l, id>> \in AllResident \ ks
    BY <1>3, Places, NewPlaces
  <2>3. QED  BY <2>1, <2>2, KeySets, ZenonT(40)
<1>8. AllOnDisk' = AllOnDisk \cup ks
  <2>1. AllOnDisk \cup ks \subseteq Keys /\ AllOnDisk' \subseteq Keys
    BY Places, NewPlaces
  <2>2. ASSUME NEW l \in Layers, NEW id \in Ids PROVE <<l, id>> \in AllOnDisk' <=> <<l, id>> \in AllOnDisk \cup ks
    <3>1. CASE <<l, id>> \in ks
      BY <1>3, <1>6, <3>1, NewPlaces
    <3>2. CASE <<l, id>> \notin ks
      BY <1>3, <3>2, Places, NewPlaces
    <3>3. QED  BY <3>1, <3>2
  <2> DEFINE S == AllOnDisk \cup ks
  <2>3. S \subseteq Keys /\ \A l \in Layers, id \in Ids : <<l, id>> \in AllOnDisk' <=> <<l, id>> \in S
    BY <2>1, <2>2
  <2> HIDE DEF S
  <2>4. AllOnDisk' = S
    BY <2>1, <2>3, KeySets
  <2>5. QED  BY <2>4 DEF S
<1>9. DOMAIN files = AllOnDisk
  BY <1>2, <1>4 DEF FilesExact, Writing
<1>10. DOMAIN files' = DOMAIN files \cup ks
       /\ \A k \in DOMAIN files' : files'[k] = IF k \in ks THEN blocks[k[1]][k[2]].data ELSE files[k]
  BY <1>1
<1>11. FilesExact'
  <2>1. DOMAIN files' = AllOnDisk' \cup Writing'
    BY <1>4, <1>8, <1>9, <1>10
  <2>2. QED  BY <2>1 DEF FilesExact, Writing
<1>12. Memory'
  BY <1>1, <1>2, <1>7, MemoryFewer
<1>13. Content'
  <2>1. ASSUME NEW l \in Layers, NEW id \in DOMAIN blocks[l] PROVE Stored(l, id)' = Stored(l, id)
    <3>1. CASE <<l, id>> \in ks
      <4>1. blocks'[l][id].on_disk /\ ~blocks[l][id].on_disk
        BY <1>3, <1>6, <3>1
      <4>2. files'[<<l, id>>] = blocks[l][id].data
        BY <1>10, <3>1
      <4>3. QED  BY <4>1, <4>2 DEF Stored
    <3>2. CASE <<l, id>> \notin ks
      <4>1. blocks'[l][id] = blocks[l][id] /\ id \in Ids
        BY <1>3, <3>2
      <4>2. CASE blocks[l][id].on_disk
        <5>1. <<l, id>> \in DOMAIN files
          BY <1>9, <4>1, <4>2, Places
        <5>2. files'[<<l, id>>] = files[<<l, id>>]
          BY <1>10, <3>2, <5>1
        <5>3. QED  BY <4>1, <4>2, <5>2 DEF Stored
      <4>3. CASE ~blocks[l][id].on_disk
        BY <4>1, <4>3 DEF Stored
      <4>4. QED  BY <4>2, <4>3
    <3>3. QED  BY <3>1, <3>2
  <2>2. QED  BY <1>1, <1>2, <1>3, <2>1, ContentMoved
<1>14. QED  BY <1>4, <1>5, <1>11, <1>12, <1>13 DEF CInv

\* An empty cache.
LEMMA EmptyStore ==
    ASSUME \A l \in Layers : DOMAIN blocks[l] = {},
           \A l \in Layers, p \in Positions : written[l][p] = 0,
           current_memory_used_ = 0
    PROVE  AllResident = {} /\ AllOnDisk = {} /\ Memory /\ Content
<1>1. AllResident = {} /\ AllOnDisk = {}
  BY Places DEF Keys
<1>2. Memory
  BY <1>1, FS_EmptySet, ConstantsAssumption DEF Memory
<1>3. Content
  BY DEF Content, HasBlock
<1>4. QED  BY <1>1, <1>2, <1>3

LEMMA ClearStore == ASSUME Inv, CInv, Clear PROVE CInv'
<1>1. /\ At("caller", "idle") /\ files' = WithoutFiles(AllOnDisk) /\ blocks' = [l \in Layers |-> <<>>]
      /\ written' = [l \in Layers |-> [p \in Positions |-> 0]] /\ current_memory_used_' = 0
      /\ got' = {} /\ UNCHANGED <<async_queue_, job>>
  BY DEF Clear, CallerFree, asyncVars
<1>2. Exclusive /\ FilesExact
  BY DEF CInv
<1>3. Exclusive' /\ Writing = {} /\ Writing' = {} /\ WrittenOut'
  BY <1>1, <1>2, CallerAlone DEF At
<1>4. /\ \A l \in Layers : DOMAIN blocks'[l] = {}
      /\ \A l \in Layers, p \in Positions : written'[l][p] = 0
  BY <1>1, NoBlocks
<1>5. AllResident' = {} /\ AllOnDisk' = {}
  BY <1>4, NewPlaces DEF Keys
<1>6. Memory'
  BY <1>1, <1>5, FS_EmptySet, ConstantsAssumption DEF Memory
<1>7. Content'
  BY <1>4 DEF Content, HasBlock
<1>8. FilesExact'
  <2>1. DOMAIN files' = {}
    BY <1>1, <1>2, <1>3 DEF WithoutFiles, FilesExact, Writing
  <2>2. QED  BY <1>3, <1>5, <2>1 DEF FilesExact, Writing
<1>9. Reads'
  BY <1>1 DEF Reads, ReadsLatest
<1>10. QED  BY <1>3, <1>6, <1>7, <1>8, <1>9 DEF CInv

LEMMA InitStore == Init => CInv
<1>1. SUFFICES ASSUME Init PROVE CInv
  OBVIOUS
<1>2. job["worker"].pc = "idle" /\ job["caller"].pc = "idle"
  BY <1>1, IdleJob DEF Init, Threads
<1>3. ~Busy /\ \A q \in Threads : ~At(q, "evict")
  BY <1>2 DEF Busy, At, Threads
<1>4. ToSet(async_queue_) = {}
  BY <1>1 DEF Init, ToSet
<1>5. Exclusive /\ WrittenOut
  BY <1>3, <1>4 DEF Exclusive, WrittenOut
<1>6. /\ \A l \in Layers : DOMAIN blocks[l] = {}
      /\ \A l \in Layers, p \in Positions : written[l][p] = 0
      /\ current_memory_used_ = 0
  BY <1>1, NoBlocks DEF Init
<1>7. AllOnDisk = {} /\ Memory /\ Content
  BY <1>6, EmptyStore
<1>8. FilesExact
  <2>1. DOMAIN files = {}
    BY <1>1 DEF Init
  <2>2. QED  BY <1>3, <1>7, <2>1 DEF FilesExact
<1>9. Reads
  BY <1>1 DEF Init, Reads, ReadsLatest
<1>10. QED  BY <1>5, <1>7, <1>8, <1>9 DEF CInv

LEMMA NextStore ==
    ASSUME ~Prefetching, ~Timeouts
    PROVE  Inv /\ CInv /\ [Next]_vars => CInv'
<1>1. SUFFICES ASSUME Inv, CInv, [Next]_vars PROVE CInv'
  OBVIOUS
<1>2. CASE Worker
  BY <1>1, <1>2, WorkerStore, EvictWriteStore, EvictDropStore, LoadReadStore DEF Worker, Threads
<1>3. CASE CallerStart
  <2>1. CASE FlushToDisk \/ UnloadMemory
    <3>1. At("caller", "idle")
      BY <2>1 DEF FlushToDisk, UnloadMemory, CallerFree
    <3>2. PICK ks : ks \subseteq AllResident /\ EvictAll(ks)
      BY <2>1 DEF FlushToDisk, UnloadMemory
    <3>3. QED  BY <1>1, <3>1, <3>2, EvictAllStore
  <2>2. CASE \E l \in Layers, pos \in Positions, n \in 1 .. BlockSize, tag \in Tags :
               AppendKnown(l, pos, n, tag) \/ AppendNew(l, pos, n, tag)
    BY <1>1, <2>2, QuietStore, AppendNewStore
  <2>3. ~\E l \in Layers, b \in BlockIndexes : Prefetch(l, b)
    BY DEF Prefetch
  <2>4. QED  BY <1>1, <1>3, <2>1, <2>2, <2>3, QuietStore, ClearStore, StutterStore DEF CallerStart
<1>4. CASE CallerStep
  BY <1>1, <1>4, EvictWriteStore, EvictDropStore, LoadReadStore, AllocFailStore, AllocInsertStore, EnsureStore,
     AppendWriteStore, QuietStore, GetCopyStore, StutterStore DEF CallerStep, Threads
<1>5. CASE EnsureTimeout
  BY <1>5 DEF EnsureTimeout
<1>6. CASE UNCHANGED vars
  BY <1>1, <1>6, StutterStore
<1>7. QED  BY <1>1, <1>2, <1>3, <1>4, <1>5, <1>6 DEF Next

LEMMA StoreInvariance ==
    ASSUME ~Prefetching, ~Timeouts
    PROVE  Spec => [](Inv /\ CInv)
<1>1. Init => Inv /\ CInv
  BY InitInv, InitStore
<1>2. Inv /\ CInv /\ [Next]_vars => (Inv /\ CInv)'
  BY NextInv, NextStore
<1>3. QED  BY <1>1, <1>2, PTL DEF Spec

-----------------------------------------------------------------------------
(* What a cache without prefetches and timeouts keeps.                     *)

\* append(), eviction, reload, flush, unload and failed I/O: every accepted
\* token is where its page-table entry leads, in memory or in a file.
THEOREM TokensAreKept ==
    ASSUME ~Prefetching, ~Timeouts
    PROVE  Spec => []TokensKept
<1>1. Inv /\ CInv => TokensKept
  <2>1. SUFFICES ASSUME Inv, CInv, NEW l \in Layers, NEW p \in Positions, written[l][p] # 0
                 PROVE  LET id == Resolve(l, p)
                        IN  /\ id # NoId /\ HasBlock(l, id)
                            /\ blocks[l][id].on_disk => <<l, id>> \in DOMAIN files
                            /\ Stored(l, id)[p % BlockSize] = written[l][p]
    BY DEF TokensKept
  <2> DEFINE id == Resolve(l, p)
  <2>2. Blocks /\ Content /\ FilesExact
    BY <2>1 DEF Inv, CInv
  <2>3. HasBlock(l, id) /\ Stored(l, id)[p % BlockSize] = written[l][p]
    BY <2>1, <2>2 DEF Content
  <2>4. id # NoId /\ id \in Ids
    BY <2>2, <2>3, NoIdBlock, BlockShape DEF HasBlock
  <2>5. blocks[l][id].on_disk => <<l, id>> \in DOMAIN files
    BY <2>2, <2>3, <2>4, Places DEF FilesExact, HasBlock
  <2>6. QED  BY <2>3, <2>4, <2>5
<1>2. QED  BY <1>1, StoreInvariance, PTL

\* get_range(): what is copied out is the last token accepted at its position.
THEOREM ReadsAreLatest ==
    ASSUME ~Prefetching, ~Timeouts
    PROVE  Spec => []ReadsLatest
<1>1. CInv => ReadsLatest
  BY DEF CInv, Reads
<1>2. QED  BY <1>1, StoreInvariance, PTL

\* current_memory_used_ counts the blocks in memory, through every eviction,
\* reload, failure and whole-cache operation.
THEOREM MemoryCounted ==
    ASSUME ~Prefetching, ~Timeouts
    PROVE  Spec => []MemoryExact
<1>1. CInv => MemoryExact
  BY DEF CInv, Memory, MemoryExact
<1>2. QED  BY <1>1, StoreInvariance, PTL

\* The memory budget is never exceeded: room is made before a block comes in.
THEOREM BudgetKept ==
    ASSUME ~Prefetching, ~Timeouts
    PROVE  Spec => []WithinBudget
<1>1. CInv => WithinBudget
  BY DEF CInv, Memory, WithinBudget
<1>2. QED  BY <1>1, StoreInvariance, PTL

\* A file exists exactly for the blocks that are on disk or being written out.
THEOREM FilesMatch ==
    ASSUME ~Prefetching, ~Timeouts
    PROVE  Spec => []FilesExact
<1>1. CInv => FilesExact
  BY DEF CInv
<1>2. QED  BY <1>1, StoreInvariance, PTL

=============================================================================
