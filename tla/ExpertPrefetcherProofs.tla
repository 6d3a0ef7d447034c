----------------------- MODULE ExpertPrefetcherProofs -----------------------
(***************************************************************************)
(* The LRU list and the host buffers of ExpertPrefetcher, for any pages,   *)
(* threads and lists, and any max_resident_ above 0.                       *)
(*                                                                         *)
(* A getter that misses holds the mutex while it loads: no other thread    *)
(* makes the page resident meanwhile (Loader), so that its push_back adds  *)
(* no second entry.  The prefetch thread has no such exclusion, and must   *)
(* search the list.  Both may have found host_ptr null: what they are      *)
(* about to allocate for a page counts with what has been (Allocs).        *)
(***************************************************************************)
EXTENDS ExpertPrefetcher, SequenceTheorems, TLAPS

GetterType == [pc : {"idle", "spin", "lock", "malloc", "load"}, page : Pages \cup {NoPage}, waited : BOOLEAN]

Loading == {"malloc", "load"}

\* At most one getter loads, a page that is not resident.
Loader ==
    /\ g \in [Getters -> GetterType]
    /\ \A t \in Getters : g[t].pc # "idle" => g[t].page \in Pages
    /\ \A t \in Getters : g[t].pc \in Loading => g[t].page \notin is_on_device
    /\ \A t, u \in Getters : g[t].pc \in Loading /\ g[u].pc \in Loading => t = u

\* The flag of a page is set while the prefetch thread has it.
Flags == transfer_in_progress = (IF wpc \in {"load", "malloc", "publish"} THEN {req} ELSE {})

\* Who has found the host_ptr of page p null and will allocate its buffer.
WorkerMay(p) == IF wpc = "malloc" /\ req = p THEN 1 ELSE 0
GetterMay(p) == IF \E t \in Getters : g[t].pc = "malloc" /\ g[t].page = p THEN 1 ELSE 0

\* A page without a buffer never had one; one thread of each kind may be about
\* to allocate it.
Allocs ==
    /\ mallocs \in [Pages -> Nat]
    /\ \A p \in Pages : /\ p \notin host_ptr => mallocs[p] = 0
                        /\ mallocs[p] + WorkerMay(p) + GetterMay(p) <= 2

\* lru_list_ as a sequence.
ListOK == lru_list_ \in Seq(is_on_device)

Inv == Loader /\ Flags /\ ListOK /\ LruExact /\ Allocs

-----------------------------------------------------------------------------
(* Sequences.                                                              *)

\* s without the element at place i.
LEMMA RemoveAtShifts ==
    ASSUME NEW S, NEW s \in Seq(S), NEW i \in 1 .. Len(s)
    PROVE  /\ RemoveAt(s, i) \in Seq(S) /\ Len(RemoveAt(s, i)) = Len(s) - 1
           /\ \A j \in 1 .. Len(s) - 1 : RemoveAt(s, i)[j] = IF j < i THEN s[j] ELSE s[j + 1]
<1> DEFINE a == SubSeq(s, 1, i - 1)  b == SubSeq(s, i + 1, Len(s))
<1>1. /\ Len(s) \in Nat /\ i \in Nat /\ i >= 1 /\ i <= Len(s)
      /\ \A j \in 1 .. Len(s) : s[j] \in S
  OBVIOUS
<1>2. a \in Seq(S) /\ Len(a) = i - 1 /\ \A j \in 1 .. i - 1 : a[j] = s[j]
  BY <1>1, SubSeqProperties
<1>3. b \in Seq(S) /\ Len(b) = Len(s) - i /\ \A j \in 1 .. Len(s) - i : b[j] = s[i + j]
  BY <1>1, SubSeqProperties
<1> HIDE DEF a, b
<1>4. /\ a \o b \in Seq(S) /\ Len(a \o b) = Len(a) + Len(b)
      /\ \A j \in 1 .. Len(a) + Len(b) : (a \o b)[j] = IF j <= Len(a) THEN a[j] ELSE b[j - Len(a)]
  BY <1>2, <1>3, ConcatProperties
<1>5. Len(a) + Len(b) = Len(s) - 1
  BY <1>1, <1>2, <1>3
<1>6. \A j \in 1 .. Len(s) - 1 : (a \o b)[j] = IF j < i THEN s[j] ELSE s[j + 1]
  <2>1. SUFFICES ASSUME NEW j \in 1 .. Len(s) - 1
                 PROVE  (a \o b)[j] = IF j < i THEN s[j] ELSE s[j + 1]
    OBVIOUS
  <2>2. (a \o b)[j] = IF j <= i - 1 THEN a[j] ELSE b[j - (i - 1)]
    BY <1>1, <1>2, <1>4, <1>5
  <2>3. CASE j < i
    BY <1>1, <1>2, <2>2, <2>3
  <2>4. CASE ~(j < i)
    <3>1. j - (i - 1) \in 1 .. Len(s) - i /\ i + (j - (i - 1)) = j + 1
      BY <1>1, <2>4
    <3>2. QED  BY <1>1, <1>3, <2>2, <2>4, <3>1
  <2>5. QED  BY <2>3, <2>4
<1>7. QED  BY <1>4, <1>5, <1>6 DEF a, b, RemoveAt

\* The first occurrence of an element that occurs once.
LEMMA RemoveFirstIsRemoveAt ==
    ASSUME NEW S, NEW s \in Seq(S), NEW i \in 1 .. Len(s), IsInjective(s)
    PROVE  RemoveFirst(s, s[i]) = RemoveAt(s, i)
<1> DEFINE p == s[i]  I == {j \in 1 .. Len(s) : s[j] = p}
<1>1. I = {i}
  BY DEF IsInjective
<1>2. Min(I) = i
  BY <1>1 DEF Min
<1>3. QED  BY <1>1, <1>2 DEF RemoveFirst, SelectInSeq

\* erase and push_back permute the list.
LEMMA MoveToBack ==
    ASSUME NEW S, NEW s \in Seq(S), IsInjective(s), NEW p \in ToSet(s)
    PROVE  LET r == Append(RemoveFirst(s, p), p)
           IN  r \in Seq(S) /\ Len(r) = Len(s) /\ IsInjective(r) /\ ToSet(r) = ToSet(s)
<1>1. PICK i \in 1 .. Len(s) : s[i] = p
  BY DEF ToSet
<1> DEFINE a == RemoveFirst(s, p)  r == Append(a, p)  n == Len(s)
<1>2. n \in Nat /\ i \in Nat /\ 1 <= i /\ i <= n
  OBVIOUS
<1>3. DOMAIN s = 1 .. n /\ p \in S
  BY <1>1
<1>4. a = RemoveAt(s, i)
  BY <1>1, RemoveFirstIsRemoveAt
<1> HIDE DEF a
<1>5. /\ a \in Seq(S) /\ Len(a) = n - 1
      /\ \A j \in 1 .. n - 1 : a[j] = IF j < i THEN s[j] ELSE s[j + 1]
  BY <1>4, RemoveAtShifts
<1> HIDE DEF a, n
<1>6. /\ r \in Seq(S) /\ Len(r) = Len(a) + 1 /\ r[Len(a) + 1] = p
      /\ \A j \in 1 .. Len(a) : r[j] = a[j]
  BY <1>3, <1>5, AppendProperties
<1> HIDE DEF r
<1>7. Len(a) + 1 = n
  BY <1>2, <1>5
<1>8. Len(r) = n /\ DOMAIN r = 1 .. n /\ r[n] = p
  BY <1>6, <1>7
\* From which place of s the element at place j of r comes.
<1> DEFINE f == [j \in 1 .. n |-> IF j = n THEN i ELSE IF j < i THEN j ELSE j + 1]
<1>9. \A j \in 1 .. n : f[j] = IF j = n THEN i ELSE IF j < i THEN j ELSE j + 1
  OBVIOUS
<1> HIDE DEF f
<1>10. \A j \in 1 .. n : f[j] \in 1 .. n
  BY <1>2, <1>9
<1>11. ASSUME NEW j \in 1 .. n PROVE r[j] = s[f[j]]
  <2>1. CASE j = n
    BY <1>1, <1>2, <1>8, <1>9, <2>1
  <2>2. CASE j # n
    <3>1. j \in 1 .. n - 1
      BY <1>2, <2>2
    <3>2. r[j] = a[j]
      BY <1>5, <1>6, <3>1
    <3>3. QED  BY <1>5, <1>9, <2>2, <3>1, <3>2
  <2>3. QED  BY <2>1, <2>2
<1>12. \A j, k \in 1 .. n : f[j] = f[k] => j = k
  BY <1>2, <1>9
<1>13. ASSUME NEW k \in 1 .. n PROVE \E j \in 1 .. n : f[j] = k
  <2>1. CASE k = i
    <3>1. n \in 1 .. n /\ f[n] = i
      BY <1>2, <1>9
    <3>2. QED  BY <2>1, <3>1
  <2>2. CASE k < i
    <3>1. f[k] = k
      BY <1>2, <1>9, <2>2
    <3>2. QED  BY <3>1
  <2>3. CASE k > i
    <3>1. k - 1 \in 1 .. n /\ k - 1 # n /\ ~(k - 1 < i) /\ (k - 1) + 1 = k
      BY <1>2, <2>3
    <3>2. f[k - 1] = k
      BY <1>9, <3>1
    <3>3. QED  BY <3>1, <3>2
  <2>4. QED  BY <1>2, <2>1, <2>2, <2>3
<1>14. IsInjective(r)
  BY <1>3, <1>8, <1>10, <1>11, <1>12 DEF IsInjective
<1>15. ToSet(r) = ToSet(s)
  <2>1. \A x : x \in ToSet(r) <=> \E j \in 1 .. n : x = r[j]
    BY <1>8 DEF ToSet
  <2>2. \A x : x \in ToSet(s) <=> \E j \in 1 .. n : x = s[j]
    BY <1>3 DEF ToSet
  <2>3. \A x \in ToSet(r) : x \in ToSet(s)
    BY <1>10, <1>11, <2>1, <2>2
  <2>4. ASSUME NEW x \in ToSet(s) PROVE x \in ToSet(r)
    <3>1. PICK k \in 1 .. n : x = s[k]
      BY <2>2
    <3>2. PICK j \in 1 .. n : f[j] = k
      BY <1>13
    <3>3. QED  BY <1>11, <2>1, <3>1, <3>2
  <2>5. QED  BY <2>3, <2>4
<1>16. QED  BY <1>6, <1>8, <1>14, <1>15 DEF r, a, n

\* A sequence is one over its own elements.
LEMMA SeqOfItsSet == ASSUME NEW S, NEW s \in Seq(S) PROVE s \in Seq(ToSet(s))
<1>1. Len(s) \in Nat /\ DOMAIN s = 1 .. Len(s) /\ s \in [1 .. Len(s) -> S]
  BY LenProperties
<1>2. \A i \in 1 .. Len(s) : s[i] \in ToSet(s)
  BY <1>1 DEF ToSet
<1>3. s \in [1 .. Len(s) -> ToSet(s)]
  BY <1>1, <1>2
<1>4. QED  BY <1>1, <1>3, SeqDef

\* Dropping n elements from the front and adding a new one at the back.
LEMMA DropAndAppend ==
    ASSUME NEW S, NEW s \in Seq(S), IsInjective(s), NEW n \in 0 .. Len(s),
           NEW p \in S, p \notin ToSet(s)
    PROVE  LET r == Append(SubSeq(s, n + 1, Len(s)), p)
           IN  /\ r \in Seq(S) /\ Len(r) = Len(s) - n + 1 /\ IsInjective(r)
               /\ ToSet(r) = (ToSet(s) \cup {p}) \ {s[i] : i \in 1 .. n}
<1> DEFINE a == SubSeq(s, n + 1, Len(s))  r == Append(a, p)  m == Len(s) - n
<1>1. /\ Len(s) \in Nat /\ n \in Nat /\ n <= Len(s) /\ m \in Nat /\ DOMAIN s = 1 .. Len(s)
      /\ \A i \in 1 .. Len(s) : s[i] \in S
  OBVIOUS
<1>2. a \in Seq(S) /\ Len(a) = m /\ \A j \in 1 .. m : a[j] = s[n + j]
  <2>1. /\ n + 1 \in Int /\ Len(s) \in Int /\ \A i \in n + 1 .. Len(s) : s[i] \in S
        /\ Len(s) - (n + 1) + 1 = m
    BY <1>1
  <2>2. /\ a \in Seq(S) /\ Len(a) = IF n + 1 <= Len(s) THEN Len(s) - (n + 1) + 1 ELSE 0
        /\ \A j \in 1 .. Len(s) - (n + 1) + 1 : a[j] = s[n + 1 + j - 1]
    BY <2>1, SubSeqProperties
  <2> HIDE DEF a
  <2>3. Len(a) = m
    <3>1. CASE n + 1 <= Len(s)
      BY <2>1, <2>2, <3>1
    <3>2. CASE ~(n + 1 <= Len(s))
      <4>1. n \in Nat /\ Len(s) \in Nat /\ n <= Len(s)
        BY <1>1
      <4>2. Len(s) = n
        BY <3>2, <4>1
      <4>3. m = 0
        BY <4>1, <4>2
      <4>4. QED  BY <2>2, <3>2, <4>3
    <3>3. QED  BY <3>1, <3>2
  <2>4. ASSUME NEW j \in 1 .. m PROVE a[j] = s[n + j]
    <3>1. n + 1 + j - 1 = n + j
      BY <1>1
    <3>2. QED  BY <2>1, <2>2, <3>1
  <2>5. QED  BY <2>2, <2>3, <2>4
<1> HIDE DEF a
<1>3. r \in Seq(S) /\ Len(r) = m + 1 /\ r[m + 1] = p /\ \A j \in 1 .. m : r[j] = s[n + j]
  BY <1>2, AppendProperties
<1> HIDE DEF r
<1>4. DOMAIN r = 1 .. m + 1
  BY <1>3
<1>5. IsInjective(r)
  <2>1. SUFFICES ASSUME NEW j \in 1 .. m + 1, NEW k \in 1 .. m + 1, r[j] = r[k] PROVE j = k
    BY <1>4 DEF IsInjective
  <2>2. ASSUME NEW l \in 1 .. m PROVE n + l \in 1 .. Len(s) /\ r[l] # p
    <3>1. n + l \in 1 .. Len(s)
      BY <1>1
    <3>2. s[n + l] \in ToSet(s)
      BY <1>1, <3>1 DEF ToSet
    <3>3. QED  BY <1>3, <3>1, <3>2
  <2>3. CASE j \in 1 .. m /\ k \in 1 .. m
    <3>1. s[n + j] = s[n + k] /\ n + j \in DOMAIN s /\ n + k \in DOMAIN s
      BY <1>1, <1>3, <2>1, <2>2, <2>3
    <3>2. n + j = n + k
      BY <3>1 DEF IsInjective
    <3>3. QED  BY <1>1, <3>2
  <2>4. CASE j = m + 1 \/ k = m + 1
    <3>1. j \notin 1 .. m /\ k \notin 1 .. m
      BY <1>3, <2>1, <2>2, <2>4
    <3>2. QED  BY <1>1, <3>1
  <2>5. QED  BY <1>1, <2>3, <2>4
<1>6. ToSet(r) = {s[n + j] : j \in 1 .. m} \cup {p}
  <2>1. ToSet(r) = {r[j] : j \in 1 .. m + 1}
    BY <1>4 DEF ToSet
  <2>2. \A j : j \in 1 .. m + 1 <=> j \in 1 .. m \/ j = m + 1
    BY <1>1
  <2>3. \A x : x \in ToSet(r) <=> x = p \/ \E j \in 1 .. m : x = s[n + j]
    BY <1>3, <2>1, <2>2, SMTT(20)
  <2>4. QED  BY <2>3
<1>7. {s[n + j] : j \in 1 .. m} = ToSet(s) \ {s[i] : i \in 1 .. n}
  <2>1. \A j \in 1 .. m : n + j \in 1 .. Len(s) /\ \A i \in 1 .. n : s[n + j] # s[i]
    BY <1>1 DEF IsInjective
  <2>2. \A i \in 1 .. Len(s) : i \notin 1 .. n => i - n \in 1 .. m /\ n + (i - n) = i
    BY <1>1
  <2>3. \A x : x \in ToSet(s) <=> \E i \in 1 .. Len(s) : x = s[i]
    BY <1>1 DEF ToSet
  <2>4. ASSUME NEW j \in 1 .. m
        PROVE  s[n + j] \in ToSet(s) \ {s[i] : i \in 1 .. n}
    BY <2>1, <2>3
  <2>5. ASSUME NEW x \in ToSet(s) \ {s[i] : i \in 1 .. n}
        PROVE  \E j \in 1 .. m : x = s[n + j]
    <3>1. PICK i \in 1 .. Len(s) : x = s[i] /\ i \notin 1 .. n
      BY <2>3, <2>5
    <3>2. i - n \in 1 .. m /\ n + (i - n) = i
      BY <2>2, <3>1
    <3>3. x = s[n + (i - n)]
      BY <3>1, <3>2
    <3>4. QED  BY <3>2, <3>3
  <2>6. QED  BY <2>4, <2>5
<1>8. p \notin {s[i] : i \in 1 .. n}
  <2>1. \A i \in 1 .. n : i \in 1 .. Len(s)
    BY <1>1
  <2>2. \A i \in 1 .. n : s[i] \in ToSet(s)
    BY <1>1, <2>1 DEF ToSet
  <2>3. QED  BY <2>2
<1>9. QED  BY <1>1, <1>3, <1>5, <1>6, <1>7, <1>8, ZenonT(40) DEF r, a

-----------------------------------------------------------------------------
(* The list.                                                               *)

\* A used page moves to the back.
LEMMA ToBackKeeps ==
    ASSUME ListOK, LruExact, NEW p, ToBack(p)
    PROVE  /\ lru_list_' \in Seq(is_on_device) /\ IsInjective(lru_list_')
           /\ ToSet(lru_list_') = is_on_device /\ Len(lru_list_') <= MaxResident
<1>1. lru_list_ \in Seq(is_on_device) /\ IsInjective(lru_list_)
  BY DEF ListOK, LruExact
<1>2. CASE p \in ToSet(lru_list_)
  <2> DEFINE r == Append(RemoveFirst(lru_list_, p), p)
  <2>1. /\ r \in Seq(is_on_device) /\ Len(r) = Len(lru_list_) /\ IsInjective(r)
        /\ ToSet(r) = ToSet(lru_list_)
    BY <1>1, <1>2, MoveToBack
  <2>2. lru_list_' = r
    BY <1>2 DEF ToBack
  <2>3. QED  BY <2>1, <2>2 DEF LruExact
<1>3. CASE p \notin ToSet(lru_list_)
  BY <1>1, <1>3 DEF ToBack, LruExact
<1>4. QED  BY <1>2, <1>3

\* evict_lru() evicts residents, and makes room for the page pushed back.
LEMMA ArriveKeeps ==
    ASSUME ListOK, LruExact, NEW p, p \notin is_on_device, Arrive(p)
    PROVE  /\ ListOK' /\ LruExact'
           /\ is_on_device' = (is_on_device \cup {p}) \ Victims
<1> DEFINE s == lru_list_  S == is_on_device \cup {p}
           r == Append(SubSeq(s, Excess + 1, Len(s)), p)
<1>1. /\ s \in Seq(is_on_device) /\ IsInjective(s) /\ ToSet(s) = is_on_device
      /\ Len(s) \in Nat /\ Len(s) <= MaxResident /\ MaxResident \in Nat \ {0}
  BY ConstantsAssumption DEF ListOK, LruExact
<1>2. Excess \in 0 .. Len(s) /\ Len(s) - Excess + 1 <= MaxResident
  BY <1>1 DEF Excess
<1>3. s \in Seq(S) /\ p \in S /\ p \notin ToSet(s)
  BY <1>1
<1>4. /\ r \in Seq(S) /\ Len(r) = Len(s) - Excess + 1 /\ IsInjective(r)
      /\ ToSet(r) = (ToSet(s) \cup {p}) \ {s[i] : i \in 1 .. Excess}
  <2> HIDE DEF S, s
  <2>1. QED  BY <1>1, <1>2, <1>3, DropAndAppend, SMTT(20)
<1>5. lru_list_' = r /\ is_on_device' = S \ Victims
  BY DEF Arrive
<1>6. ToSet(r) = S \ Victims
  BY <1>1, <1>4 DEF Victims
<1>7. r \in Seq(ToSet(r))
  BY <1>4, SeqOfItsSet
<1>8. QED  BY <1>2, <1>4, <1>5, <1>6, <1>7 DEF ListOK, LruExact

-----------------------------------------------------------------------------
(* The invariant.                                                          *)

LEMMA InitInv == Init => Inv
<1>1. SUFFICES ASSUME Init PROVE Inv
  OBVIOUS
<1>2. Loader /\ Flags
  BY <1>1 DEF Init, Loader, Loading, Flags, Idle, GetterType
<1>3. ListOK /\ LruExact
  BY <1>1, ConstantsAssumption DEF Init, ListOK, LruExact, IsInjective, ToSet
<1>4. Allocs
  BY <1>1 DEF Init, Idle, Allocs, WorkerMay, GetterMay
<1>5. QED  BY <1>2, <1>3, <1>4 DEF Inv

\* Steps that leave the list and the pages alone.
LEMMA Quiet ==
    ASSUME Inv, UNCHANGED <<is_on_device, lru_list_>>, Loader', Flags', Allocs'
    PROVE  Inv'
BY DEF Inv, ListOK, LruExact

\* Steps that leave the host buffers alone and let nobody in to allocate one.
LEMMA QuietMemory ==
    ASSUME Allocs, UNCHANGED memory,
           wpc' = "malloc" => wpc = "malloc" /\ req' = req,
           \A t \in Getters : g'[t].pc = "malloc" => g[t].pc = "malloc" /\ g'[t].page = g[t].page
    PROVE  Allocs'
<1>1. mallocs' = mallocs /\ host_ptr' = host_ptr
  BY DEF memory
<1>2. ASSUME NEW p \in Pages PROVE mallocs[p] + WorkerMay(p)' + GetterMay(p)' <= 2
  <2>1. /\ mallocs[p] \in Nat /\ mallocs[p] + WorkerMay(p) + GetterMay(p) <= 2
    BY DEF Allocs
  <2>2. WorkerMay(p)' \in {0, 1} /\ WorkerMay(p) \in {0, 1} /\ WorkerMay(p)' <= WorkerMay(p)
    BY DEF WorkerMay
  <2>3. GetterMay(p)' \in {0, 1} /\ GetterMay(p) \in {0, 1} /\ GetterMay(p)' <= GetterMay(p)
    BY DEF GetterMay
  <2>4. QED  BY <2>1, <2>2, <2>3
<1>3. QED  BY <1>1, <1>2 DEF Allocs

LEMMA ScheduleInv == ASSUME Inv, NEW s \in Lists, Schedule(s) PROVE Inv'
<1>1. UNCHANGED <<is_on_device, transfer_in_progress, memory, lru_list_, wpc, req, g>>
  BY DEF Schedule, pages
<1>2. Loader' /\ Flags' /\ Allocs'
  BY <1>1, QuietMemory DEF Inv, Loader, Flags, Allocs
<1>3. QED  BY <1>1, <1>2, Quiet

LEMMA LifeInv == ASSUME Inv, Initialize \/ Destroy PROVE Inv'
<1>1. /\ UNCHANGED <<is_on_device, transfer_in_progress, memory, lru_list_, prefetch_queue_, req, g>>
      /\ wpc' = wpc \/ (wpc = "none" /\ wpc' = "wait")
  BY DEF Initialize, Destroy, pages
<1>2. Loader' /\ Flags'
  BY <1>1 DEF Inv, Loader, Flags
<1>3. Allocs'
  BY <1>1, QuietMemory DEF Inv, Allocs
<1>4. QED  BY <1>1, <1>2, <1>3, Quiet

\* A thread that found no buffer allocates one: what was pending is done.
LEMMA MallocKeeps ==
    ASSUME Allocs, NEW p, Malloc(p),
           \A q \in Pages \ {p} : WorkerMay(q)' <= WorkerMay(q) /\ GetterMay(q)' <= GetterMay(q),
           WorkerMay(p)' + GetterMay(p)' + 1 <= WorkerMay(p) + GetterMay(p)
    PROVE  Allocs'
<1>1. /\ mallocs \in [Pages -> Nat] /\ host_ptr' = host_ptr \cup {p}
      /\ mallocs' = [mallocs EXCEPT ![p] = @ + 1]
  BY DEF Allocs, Malloc
<1>2. /\ mallocs' \in [Pages -> Nat]
      /\ \A q \in Pages : mallocs'[q] = IF q = p THEN mallocs[p] + 1 ELSE mallocs[q]
  <2>1. CASE p \in Pages
    BY <1>1, <2>1
  <2>2. CASE p \notin Pages
    <3>1. mallocs' = mallocs
      BY <1>1, <2>2
    <3>2. QED  BY <1>1, <2>2, <3>1
  <2>3. QED  BY <2>1, <2>2
<1>3. ASSUME NEW q \in Pages
      PROVE  (q \notin host_ptr' => mallocs'[q] = 0) /\ mallocs'[q] + WorkerMay(q)' + GetterMay(q)' <= 2
  <2>1. /\ mallocs[q] \in Nat /\ mallocs[q] + WorkerMay(q) + GetterMay(q) <= 2
        /\ q \notin host_ptr => mallocs[q] = 0
    BY DEF Allocs
  <2>2. /\ WorkerMay(q) \in {0, 1} /\ WorkerMay(q)' \in {0, 1}
        /\ GetterMay(q) \in {0, 1} /\ GetterMay(q)' \in {0, 1}
    BY DEF WorkerMay, GetterMay
  <2>3. CASE q = p
    BY <1>1, <1>2, <2>1, <2>2, <2>3
  <2>4. CASE q # p
    BY <1>1, <1>2, <2>1, <2>2, <2>4
  <2>5. QED  BY <2>3, <2>4
<1>4. QED  BY <1>2, <1>3 DEF Allocs

\* A thread finds no buffer: no other one was allocated, and at most the other
\* kind of thread is about to.
LEMMA FoundNull ==
    ASSUME Allocs, UNCHANGED memory, NEW p, p \notin host_ptr,
           \A q \in Pages \ {p} : WorkerMay(q)' <= WorkerMay(q) /\ GetterMay(q)' <= GetterMay(q)
    PROVE  Allocs'
<1>1. mallocs' = mallocs /\ host_ptr' = host_ptr
  BY DEF memory
<1>2. ASSUME NEW q \in Pages PROVE mallocs[q] + WorkerMay(q)' + GetterMay(q)' <= 2
  <2>1. /\ mallocs[q] \in Nat /\ mallocs[q] + WorkerMay(q) + GetterMay(q) <= 2
        /\ q \notin host_ptr => mallocs[q] = 0
    BY DEF Allocs
  <2>2. /\ WorkerMay(q) \in {0, 1} /\ WorkerMay(q)' \in {0, 1}
        /\ GetterMay(q) \in {0, 1} /\ GetterMay(q)' \in {0, 1}
    BY DEF WorkerMay, GetterMay
  <2>3. CASE q = p
    BY <2>1, <2>2, <2>3
  <2>4. CASE q # p
    BY <2>1, <2>2, <2>4
  <2>5. QED  BY <2>3, <2>4
<1>3. QED  BY <1>1, <1>2 DEF Allocs

LEMMA WorkerInv == ASSUME Inv, Worker PROVE Inv'
<1>1. CASE WorkerTake
  <2>1. /\ UNCHANGED <<is_on_device, memory, lru_list_, g>> /\ prefetch_queue_ # << >>
        /\ req' = Head(prefetch_queue_) /\ prefetch_queue_' = Tail(prefetch_queue_)
        /\ wpc = "wait" /\ wpc' = "load"
        /\ transfer_in_progress' = transfer_in_progress \cup {req'}
    BY <1>1 DEF WorkerTake
  <2>2. Flags' /\ Loader'
    BY <2>1 DEF Inv, Flags, Loader
  <2>4. Allocs'
    BY <2>1, QuietMemory DEF Inv
  <2>5. QED  BY <2>1, <2>2, <2>4, Quiet
<1>2. CASE WorkerExit
  <2>1. /\ UNCHANGED <<is_on_device, transfer_in_progress, memory, lru_list_, prefetch_queue_, req, g>>
        /\ wpc = "wait" /\ wpc' = "exit"
    BY <1>2 DEF WorkerExit, pages
  <2>2. Flags' /\ Loader'
    BY <2>1 DEF Inv, Flags, Loader
  <2>3. Allocs'
    BY <2>1, QuietMemory DEF Inv
  <2>4. QED  BY <2>1, <2>2, <2>3, Quiet
<1>3. CASE WorkerCheck
  <2>1. /\ UNCHANGED <<is_on_device, transfer_in_progress, memory, lru_list_, prefetch_queue_, req, g>>
        /\ wpc = "load" /\ wpc' = IF req \in host_ptr THEN "publish" ELSE "malloc"
    BY <1>3 DEF WorkerCheck, pages
  <2>2. Flags' /\ Loader' /\ Allocs
    BY <2>1 DEF Inv, Flags, Loader, Allocs
  <2>3. CASE req \in host_ptr
    <3>1. Allocs'
      BY <2>1, <2>2, <2>3, QuietMemory
    <3>2. QED  BY <2>1, <2>2, <3>1, Quiet
  <2>4. CASE req \notin host_ptr
    <3>1. \A q \in Pages \ {req} : WorkerMay(q)' <= WorkerMay(q) /\ GetterMay(q)' <= GetterMay(q)
      BY <2>1 DEF WorkerMay, GetterMay
    <3>2. Allocs'
      BY <2>1, <2>2, <2>4, <3>1, FoundNull
    <3>3. QED  BY <2>1, <2>2, <3>2, Quiet
  <2>5. QED  BY <2>3, <2>4
<1>4. CASE WorkerMalloc
  <2>1. /\ UNCHANGED <<is_on_device, transfer_in_progress, lru_list_, prefetch_queue_, req, g>>
        /\ wpc = "malloc" /\ wpc' = "publish" /\ Malloc(req)
    BY <1>4 DEF WorkerMalloc, pages
  <2>2. Flags' /\ Loader' /\ Allocs
    BY <2>1 DEF Inv, Flags, Loader, Allocs
  <2>3. /\ \A q \in Pages \ {req} : WorkerMay(q)' <= WorkerMay(q) /\ GetterMay(q)' <= GetterMay(q)
        /\ WorkerMay(req)' + GetterMay(req)' + 1 <= WorkerMay(req) + GetterMay(req)
    BY <2>1 DEF WorkerMay, GetterMay
  <2>4. Allocs'
    BY <2>1, <2>2, <2>3, MallocKeeps
  <2>5. QED  BY <2>1, <2>2, <2>4, Quiet
<1>5. CASE WorkerPublish
  <2>1. /\ wpc = "publish" /\ wpc' = "wait" /\ Unlocked /\ UNCHANGED <<g, memory, prefetch_queue_>>
        /\ transfer_in_progress' = transfer_in_progress \ {req}
    BY <1>5 DEF WorkerPublish, WorkerPublishOf
  <2>2. Flags' /\ Loader'
    BY <2>1 DEF Inv, Flags, Loader, Loading, Unlocked
  <2>3. Allocs'
    BY <2>1, QuietMemory DEF Inv
  <2>4. CASE req \in ToSet(lru_list_)
    <3>1. ToBack(req) /\ is_on_device' = is_on_device \cup {req}
      BY <1>5, <2>4 DEF WorkerPublish, WorkerPublishOf
    <3>2. is_on_device' = is_on_device
      BY <2>4, <3>1 DEF Inv, LruExact
    <3>3. ListOK' /\ LruExact'
      BY <3>1, <3>2, ToBackKeeps DEF Inv, ListOK, LruExact
    <3>4. QED  BY <2>2, <2>3, <3>3 DEF Inv
  <2>5. CASE req \notin ToSet(lru_list_)
    <3>1. Arrive(req) /\ req \notin is_on_device
      BY <1>5, <2>5 DEF WorkerPublish, WorkerPublishOf, Inv, LruExact
    <3>2. ListOK' /\ LruExact'
      BY <3>1, ArriveKeeps DEF Inv
    <3>3. QED  BY <2>2, <2>3, <3>2 DEF Inv
  <2>6. QED  BY <2>4, <2>5
<1>6. QED  BY <1>1, <1>2, <1>3, <1>4, <1>5 DEF Worker

LEMMA GetterInv ==
    ASSUME Inv, NEW t \in Getters, Getting(t) \/ \E p \in Pages : Get(t, p)
    PROVE  Inv'
<1>0. g \in [Getters -> GetterType] /\ g[t] \in GetterType
  BY DEF Inv, Loader
<1>1. CASE \E p \in Pages : Get(t, p)
  <2>1. PICK p \in Pages : g' = [g EXCEPT ![t] = [pc |-> "spin", page |-> p, waited |-> FALSE]]
    BY <1>1 DEF Get
  <2>2. UNCHANGED <<is_on_device, transfer_in_progress, memory, lru_list_, prefetch_queue_, wpc, req>>
    BY <1>1 DEF Get, pages
  <2>3. Flags' /\ Loader'
    BY <1>0, <2>1, <2>2 DEF Inv, Flags, Loader, Loading, GetterType
  <2>4. Allocs'
    BY <1>0, <2>1, <2>2, QuietMemory DEF Inv, Allocs
  <2>5. QED  BY <2>2, <2>3, <2>4, Quiet
<1>2. CASE Spin(t)
  <2>1. /\ UNCHANGED <<is_on_device, transfer_in_progress, memory, lru_list_, prefetch_queue_, wpc, req>>
        /\ g[t].pc = "spin"
        /\ \/ g' = [g EXCEPT ![t].waited = TRUE]
           \/ g' = [g EXCEPT ![t].pc = "lock"]
    BY <1>0, <1>2 DEF Spin, pages
  <2>2. Flags'
    BY <2>1 DEF Inv, Flags
  <2>3. /\ g' \in [Getters -> GetterType]
        /\ \A u \in Getters : g'[u].page = g[u].page /\ (u # t => g'[u] = g[u])
        /\ g'[t].pc \in {"spin", "lock"}
    <3>1. CASE g' = [g EXCEPT ![t].waited = TRUE]
      BY <1>0, <2>1, <3>1 DEF GetterType
    <3>2. CASE g' = [g EXCEPT ![t].pc = "lock"]
      BY <1>0, <2>1, <3>2 DEF GetterType
    <3>3. QED  BY <2>1, <3>1, <3>2
  <2>4. Loader' /\ Allocs'
    <3>1. Loader'
      BY <2>1, <2>3 DEF Inv, Loader, Loading
    <3>2. Allocs'
      BY <2>1, <2>3, QuietMemory DEF Inv
    <3>3. QED  BY <3>1, <3>2
  <2>5. QED  BY <2>1, <2>2, <2>4, Quiet
<1>3. CASE GetHit(t)
  <2>1. /\ UNCHANGED <<is_on_device, transfer_in_progress, memory, prefetch_queue_, wpc, req>>
        /\ g' = [g EXCEPT ![t] = Idle] /\ ToBack(g[t].page)
    BY <1>3 DEF GetHit, pages
  <2>2. Flags' /\ Loader'
    BY <1>0, <2>1 DEF Inv, Flags, Loader, Loading, GetterType, Idle
  <2>3. Allocs'
    BY <1>0, <2>1, QuietMemory DEF Inv, Allocs, Idle
  <2>4. ListOK' /\ LruExact'
    BY <2>1, ToBackKeeps DEF Inv, ListOK, LruExact
  <2>5. QED  BY <2>2, <2>3, <2>4 DEF Inv
<1>4. CASE GetMiss(t)
  <2> DEFINE p == g[t].page
             pc == IF p \in host_ptr THEN "load" ELSE "malloc"
  <2>1. /\ UNCHANGED <<is_on_device, transfer_in_progress, memory, lru_list_, prefetch_queue_, wpc, req>>
        /\ g[t].pc = "lock" /\ Unlocked /\ p \notin is_on_device
        /\ g' = [g EXCEPT ![t].pc = pc]
    BY <1>4 DEF GetMiss, pages
  <2>2. p \in Pages
    BY <2>1 DEF Inv, Loader
  <2>3. \A u \in Getters : /\ g'[u].page = g[u].page
                           /\ g'[u].pc = IF u = t THEN pc ELSE g[u].pc
    BY <1>0, <2>1 DEF GetterType
  <2>4. Flags'
    BY <2>1 DEF Inv, Flags
  <2>5. Loader'
    <3>1. g' \in [Getters -> GetterType]
      BY <1>0, <2>1 DEF GetterType
    <3>2. QED  BY <2>1, <2>2, <2>3, <3>1 DEF Inv, Loader, Loading, Unlocked
  <2>6. Allocs'
    <3>1. CASE p \in host_ptr
      BY <2>1, <2>3, <3>1, QuietMemory DEF Inv, Allocs
    <3>2. CASE p \notin host_ptr
      <4>1. \A q \in Pages \ {p} : WorkerMay(q)' <= WorkerMay(q) /\ GetterMay(q)' <= GetterMay(q)
        BY <2>1, <2>3 DEF WorkerMay, GetterMay
      <4> HIDE DEF p
      <4>2. QED  BY <2>1, <2>2, <3>2, <4>1, FoundNull DEF Inv, Allocs
    <3>3. QED  BY <3>1, <3>2
  <2>7. QED  BY <2>1, <2>4, <2>5, <2>6, Quiet
<1>5. CASE GetMalloc(t)
  <2>0. PICK p : p = g[t].page
    OBVIOUS
  <2>1. /\ UNCHANGED <<is_on_device, transfer_in_progress, lru_list_, prefetch_queue_, wpc, req>>
        /\ g[t].pc = "malloc" /\ Malloc(p) /\ g' = [g EXCEPT ![t].pc = "load"]
    BY <1>5, <2>0 DEF GetMalloc, pages
  <2>2. p \in Pages
    BY <2>0, <2>1 DEF Inv, Loader
  <2>3. \A u \in Getters : /\ g'[u].page = g[u].page
                           /\ g'[u].pc = IF u = t THEN "load" ELSE g[u].pc
    BY <1>0, <2>1 DEF GetterType
  <2>4. Flags'
    BY <2>1 DEF Inv, Flags
  <2>5. Loader'
    <3>1. g' \in [Getters -> GetterType]
      BY <1>0, <2>1 DEF GetterType
    <3>2. QED  BY <2>1, <2>2, <2>3, <3>1 DEF Inv, Loader, Loading
  <2>6. \A u \in Getters \ {t} : g[u].pc # "malloc"
    BY <2>1 DEF Inv, Loader, Loading
  <2>7. /\ \A q \in Pages \ {p} : WorkerMay(q)' <= WorkerMay(q) /\ GetterMay(q)' <= GetterMay(q)
        /\ WorkerMay(p)' + GetterMay(p)' + 1 <= WorkerMay(p) + GetterMay(p)
    BY <2>0, <2>1, <2>3, <2>6 DEF WorkerMay, GetterMay
  <2>8. Allocs'
    BY <2>1, <2>2, <2>7, MallocKeeps DEF Inv
  <2>9. QED  BY <2>1, <2>4, <2>5, <2>8, Quiet
<1>6. CASE GetLoad(t)
  <2>1. /\ Arrive(g[t].page) /\ g[t].page \notin is_on_device /\ g[t].pc = "load"
        /\ UNCHANGED <<transfer_in_progress, memory, prefetch_queue_, wpc, req>>
        /\ g' = [g EXCEPT ![t] = Idle]
    BY <1>6 DEF GetLoad, Inv, Loader, Loading
  <2>2. ListOK' /\ LruExact'
    BY <2>1, ArriveKeeps DEF Inv
  <2>3. Flags'
    BY <2>1 DEF Inv, Flags
  <2>4. Loader'
    BY <1>0, <2>1 DEF Inv, Loader, Loading, GetterType, Idle
  <2>5. Allocs'
    BY <1>0, <2>1, QuietMemory DEF Inv, Allocs, Idle
  <2>6. QED  BY <2>2, <2>3, <2>4, <2>5 DEF Inv
<1>7. QED  BY <1>1, <1>2, <1>3, <1>4, <1>5, <1>6 DEF Getting

LEMMA StutterInv == ASSUME Inv, UNCHANGED vars PROVE Inv'
<1>1. UNCHANGED <<is_on_device, transfer_in_progress, memory, lru_list_, prefetch_queue_, wpc, req, g>>
  BY DEF vars, pages
<1>2. Loader' /\ Flags' /\ Allocs'
  BY <1>1, QuietMemory DEF Inv, Loader, Flags, Allocs
<1>3. QED  BY <1>1, <1>2, Quiet

LEMMA Invariance == Spec => []Inv
<1>1. Inv /\ [Next]_vars => Inv'
  BY ScheduleInv, LifeInv, WorkerInv, GetterInv, StutterInv DEF Next
<1>2. QED  BY <1>1, InitInv, PTL DEF Spec

-----------------------------------------------------------------------------
(* Theorems.                                                               *)

\* get_expert_weights() and prefetch_thread_func(): the list names every resident
\* page once and no other, and at most max_resident_ of them, whoever loads what.
THEOREM ListExact == Spec => []LruExact
<1>1. Inv => LruExact
  BY DEF Inv
<1>2. QED  BY <1>1, Invariance, PTL

\* load_from_disk(): with any number of threads that get pages, a page's host
\* buffer is allocated once, or twice where a getter and the prefetch thread
\* meet in it, and never again: at most one buffer of a page is lost.
THEOREM LostAtMostOnce == Spec => []LostOnce
<1>1. Inv => LostOnce
  <2>1. ASSUME Inv, NEW p \in Pages PROVE mallocs[p] <= 2
    <3>1. mallocs[p] \in Nat /\ mallocs[p] + WorkerMay(p) + GetterMay(p) <= 2
      BY <2>1 DEF Inv, Allocs
    <3>2. WorkerMay(p) \in {0, 1} /\ GetterMay(p) \in {0, 1}
      BY DEF WorkerMay, GetterMay
    <3>3. QED  BY <3>1, <3>2
  <2>2. QED  BY <2>1 DEF LostOnce
<1>2. QED  BY <1>1, Invariance, PTL

=============================================================================
