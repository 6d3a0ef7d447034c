-------------------------- MODULE ExpertPrefetcher --------------------------
(***************************************************************************)
(* ExpertPrefetcher (src/model/expert_prefetch.cpp): pages of expert       *)
(* weights, at most max_resident_ of them resident in LRU order, loaded by *)
(* a prefetch thread or by the caller that misses them.                    *)
(*                                                                         *)
(* mutex_ guards the list, the queue and is_on_device; the prefetch thread *)
(* fills a page without it, between two critical sections, so that its     *)
(* test of host_ptr and its malloc are steps of their own, and race with   *)
(* those of a getter.  malloc succeeds.  Weights, addresses, the pinning   *)
(* and the device buffer are left out: is_pinned and device_ptr decide     *)
(* nothing but what happens to themselves and which of the two addresses   *)
(* is returned.                                                            *)
(***************************************************************************)
EXTENDS Integers, Sequences, FiniteSets, SequencesExt

CONSTANTS
    Pages,         \* (layer, expert) pairs
    Getters,       \* threads in get_expert_weights()
    MaxResident,   \* max_resident_
    Lists,         \* the lists of pages schedule_prefetch() is called with
    MaxCalls,      \* bound on the calls of schedule_prefetch and get_expert_weights
    NoPage

\* evict_lru() takes the front of an empty list when max_resident_ is 0.
ASSUME ConstantsAssumption ==
    /\ MaxResident \in Nat \ {0} /\ MaxCalls \in Nat
    /\ Lists \subseteq Seq(Pages) /\ NoPage \notin Pages

VARIABLES
    is_on_device,            \* set of pages
    transfer_in_progress,    \* set of pages
    host_ptr, mallocs,       \* set of pages that have a host buffer; how many were allocated
    lru_list_, prefetch_queue_, stop_flag_,
    wpc, req,                \* the prefetch thread and the request it has taken
    g,                       \* g[t]: where getter t is, the page it wants, whether it waited
    hits, misses, evictions, \* stats_
    calls

pages == <<is_on_device, transfer_in_progress>>
memory == <<host_ptr, mallocs>>
stats == <<hits, misses, evictions>>
vars == <<pages, memory, lru_list_, prefetch_queue_, stop_flag_, wpc, req, g, stats, calls>>

-----------------------------------------------------------------------------

\* mutex_ is held across steps only by a getter that loads a page.
\* Mutant: the getter lets go of it for the load.
UnlockedToLoad == TRUE

Unlocked == \A t \in Getters : g[t].pc \notin {"malloc", "load"}

\* evict_lru(): the front of the list goes until there is room for one more.
Excess == IF Len(lru_list_) >= MaxResident THEN Len(lru_list_) - MaxResident + 1 ELSE 0
Victims == {lru_list_[i] : i \in 1 .. Excess}

\* Page p becomes resident: evict_lru(), then push_back.  The host buffers of
\* evicted pages stay.
Arrive(p) ==
    /\ is_on_device' = (is_on_device \cup {p}) \ Victims
    /\ lru_list_' = Append(SubSeq(lru_list_, Excess + 1, Len(lru_list_)), p)
    /\ evictions' = evictions + Excess

\* load_from_disk(): the buffer of page p, when host_ptr was found to be null.
Malloc(p) ==
    /\ host_ptr' = host_ptr \cup {p}
    /\ mallocs' = [mallocs EXCEPT ![p] = @ + 1]

\* Page p was used last: find_if, erase, push_back, if it is in the list.
ToBack(p) ==
    lru_list_' = IF p \in ToSet(lru_list_) THEN Append(RemoveFirst(lru_list_, p), p)
                                           ELSE lru_list_

-----------------------------------------------------------------------------
(* schedule_prefetch(), initialize() and the destructor.                   *)

Schedule(s) ==
    /\ ~stop_flag_ /\ Unlocked /\ calls < MaxCalls
    /\ prefetch_queue_' = prefetch_queue_ \o
         SelectSeq(s, LAMBDA p : p \notin is_on_device /\ p \notin transfer_in_progress)
    /\ calls' = calls + 1
    /\ UNCHANGED <<pages, memory, lru_list_, stop_flag_, wpc, req, g, stats>>

\* The prefetch thread starts; lists may be scheduled before.
Initialize ==
    /\ wpc = "none" /\ ~stop_flag_
    /\ wpc' = "wait"
    /\ UNCHANGED <<pages, memory, lru_list_, prefetch_queue_, stop_flag_, req, g, stats, calls>>

\* No other thread uses the object any more; it joins the prefetch thread.
Destroy ==
    /\ ~stop_flag_ /\ \A t \in Getters : g[t].pc = "idle"
    /\ stop_flag_' = TRUE
    /\ UNCHANGED <<pages, memory, lru_list_, prefetch_queue_, wpc, req, g, stats, calls>>

-----------------------------------------------------------------------------
(* prefetch_thread_func().  Its wait is the guard: the flag and the queue  *)
(* change under mutex_, so that no notification is lost.                   *)

WorkerTake ==
    /\ wpc = "wait" /\ Unlocked /\ prefetch_queue_ # << >>
    /\ req' = Head(prefetch_queue_)
    /\ prefetch_queue_' = Tail(prefetch_queue_)
    /\ transfer_in_progress' = transfer_in_progress \cup {req'}
    /\ wpc' = "load"
    /\ UNCHANGED <<is_on_device, memory, lru_list_, stop_flag_, g, stats, calls>>

\* Mutant: the thread leaves as soon as it sees the flag.
WorkerExitEarly ==
    /\ wpc = "wait" /\ Unlocked /\ stop_flag_
    /\ wpc' = "exit"
    /\ UNCHANGED <<pages, memory, lru_list_, prefetch_queue_, stop_flag_, req, g, stats, calls>>

WorkerExit ==
    /\ wpc = "wait" /\ Unlocked /\ stop_flag_ /\ prefetch_queue_ = << >>
    /\ wpc' = "exit"
    /\ UNCHANGED <<pages, memory, lru_list_, prefetch_queue_, stop_flag_, req, g, stats, calls>>

\* load_from_disk() without the lock: the test of host_ptr, the allocation, and
\* the rest (filling, pinning, uploading) with the critical section after it.
WorkerCheck ==
    /\ wpc = "load"
    /\ wpc' = IF req \in host_ptr THEN "publish" ELSE "malloc"
    /\ UNCHANGED <<pages, memory, lru_list_, prefetch_queue_, stop_flag_, req, g, stats, calls>>

WorkerMalloc ==
    /\ wpc = "malloc"
    /\ Malloc(req)
    /\ wpc' = "publish"
    /\ UNCHANGED <<pages, lru_list_, prefetch_queue_, stop_flag_, req, g, stats, calls>>

\* Mutants: the flag is not cleared; the list is not searched for the page.
WorkerPublishOf(known, flags) ==
    /\ wpc = "publish" /\ Unlocked
    /\ transfer_in_progress' = flags
    /\ IF known
       THEN /\ ToBack(req)
            /\ is_on_device' = is_on_device \cup {req}
            /\ UNCHANGED evictions
       ELSE Arrive(req)
    /\ wpc' = "wait" /\ req' = NoPage
    /\ UNCHANGED <<memory, prefetch_queue_, stop_flag_, g, hits, misses, calls>>
WorkerPublishKeepsFlag ==
    WorkerPublishOf(req \in ToSet(lru_list_), transfer_in_progress)
WorkerPublishUnsearched == WorkerPublishOf(FALSE, transfer_in_progress \ {req})

WorkerPublish == WorkerPublishOf(req \in ToSet(lru_list_), transfer_in_progress \ {req})

-----------------------------------------------------------------------------
(* get_expert_weights().                                                   *)

Get(t, p) ==
    /\ g[t].pc = "idle" /\ ~stop_flag_ /\ Unlocked /\ calls < MaxCalls
    /\ g' = [g EXCEPT ![t] = [pc |-> "spin", page |-> p, waited |-> FALSE]]
    /\ calls' = calls + 1
    /\ UNCHANGED <<pages, memory, lru_list_, prefetch_queue_, stop_flag_, wpc, req, stats>>

\* The spin on transfer_in_progress, without the lock.
Spin(t) ==
    /\ g[t].pc = "spin"
    /\ g' = [g EXCEPT ![t] = IF @.page \in transfer_in_progress THEN [@ EXCEPT !.waited = TRUE]
                                                                ELSE [@ EXCEPT !.pc = "lock"]]
    /\ UNCHANGED <<pages, memory, lru_list_, prefetch_queue_, stop_flag_, wpc, req, stats, calls>>

Idle == [pc |-> "idle", page |-> NoPage, waited |-> FALSE]

\* Under the lock: a hit, counted as a miss after a wait, ...
GetHit(t) ==
    /\ g[t].pc = "lock" /\ Unlocked /\ g[t].page \in is_on_device
    /\ ToBack(g[t].page)
    /\ hits' = hits + (IF g[t].waited THEN 0 ELSE 1)
    /\ misses' = misses + (IF g[t].waited THEN 1 ELSE 0)
    /\ g' = [g EXCEPT ![t] = Idle]
    /\ UNCHANGED <<pages, memory, prefetch_queue_, stop_flag_, wpc, req, evictions, calls>>

\* ... or a miss: the caller loads the page itself, the mutex held.  The first
\* thing it shares with the prefetch thread is the test of host_ptr.
GetMiss(t) ==
    /\ g[t].pc = "lock" /\ Unlocked /\ g[t].page \notin is_on_device
    /\ misses' = misses + 1
    /\ g' = [g EXCEPT ![t].pc = IF g[t].page \in host_ptr THEN "load" ELSE "malloc"]
    /\ UNCHANGED <<pages, memory, lru_list_, prefetch_queue_, stop_flag_, wpc, req, hits, evictions, calls>>

GetMalloc(t) ==
    /\ g[t].pc = "malloc"
    /\ Malloc(g[t].page)
    /\ g' = [g EXCEPT ![t].pc = "load"]
    /\ UNCHANGED <<pages, lru_list_, prefetch_queue_, stop_flag_, wpc, req, stats, calls>>

GetLoad(t) ==
    /\ g[t].pc = "load"
    /\ Arrive(g[t].page)
    /\ g' = [g EXCEPT ![t] = Idle]
    /\ UNCHANGED <<transfer_in_progress, memory, prefetch_queue_, stop_flag_, wpc, req, hits, misses, calls>>

-----------------------------------------------------------------------------

Init ==
    /\ is_on_device = {} /\ transfer_in_progress = {}
    /\ host_ptr = {} /\ mallocs = [p \in Pages |-> 0]
    /\ lru_list_ = << >> /\ prefetch_queue_ = << >> /\ stop_flag_ = FALSE
    /\ wpc = "none" /\ req = NoPage
    /\ g = [t \in Getters |-> Idle]
    /\ hits = 0 /\ misses = 0 /\ evictions = 0 /\ calls = 0

Worker == WorkerTake \/ WorkerExit \/ WorkerCheck \/ WorkerMalloc \/ WorkerPublish
Getting(t) == Spin(t) \/ GetHit(t) \/ GetMiss(t) \/ GetMalloc(t) \/ GetLoad(t)

Next ==
    \/ \E s \in Lists : Schedule(s)
    \/ Initialize \/ Destroy \/ Worker
    \/ \E t \in Getters : Getting(t) \/ \E p \in Pages : Get(t, p)

Spec == Init /\ [][Next]_vars

\* The threads are scheduled.
FairSpec == Spec /\ WF_vars(Worker) /\ \A t \in Getters : WF_vars(Getting(t))

-----------------------------------------------------------------------------
(* Properties.                                                             *)

\* The fields have their types; a page is in transfer exactly while the prefetch
\* thread is between its two critical sections, and one getter at a time loads.
TypeOK ==
    /\ is_on_device \subseteq Pages
    /\ transfer_in_progress = (IF wpc \in {"load", "malloc", "publish"} THEN {req} ELSE {})
    /\ host_ptr \subseteq Pages /\ mallocs \in [Pages -> Nat]
    /\ lru_list_ \in Seq(Pages) /\ prefetch_queue_ \in Seq(Pages) /\ stop_flag_ \in BOOLEAN
    /\ wpc \in {"none", "wait", "load", "malloc", "publish", "exit"}
    /\ req \in (IF wpc \in {"load", "malloc", "publish"} THEN Pages ELSE {NoPage})
    /\ g \in [Getters -> [pc : {"idle", "spin", "lock", "malloc", "load"}, page : Pages \cup {NoPage},
                          waited : BOOLEAN]]
    /\ Cardinality({t \in Getters : g[t].pc \in {"malloc", "load"}}) <= 1
    /\ hits \in Nat /\ misses \in Nat /\ evictions \in Nat /\ calls \in 0 .. MaxCalls

\* lru_list_ names each resident page once, no other, and at most max_resident_
\* of them, although a page may be loaded and published by both sides at once:
\* a page missing from the list is never evicted again, a page named twice
\* is evicted while its second entry says it is there.
LruExact ==
    /\ IsInjective(lru_list_) /\ ToSet(lru_list_) = is_on_device
    /\ Len(lru_list_) <= MaxResident

\* load_from_disk(): `if (!page.host_ptr)` and the malloc after it race between
\* the prefetch thread and a getter, and the buffer that is overwritten is lost.
\* That happens at most once for a page in the life of the object, however often
\* the page is evicted and loaded again, by any number of getters.
LostOnce == \A p \in Pages : mallocs[p] <= 2

\* get_expert_weights() returns: the spin ends, whoever wins the races, once
\* no more requests for the page come (MaxCalls bounds them; the code's spin has
\* no other end).
GetReturns == \A t \in Getters : g[t].pc # "idle" ~> g[t].pc = "idle"

\* The destructor's join returns, and by then everything scheduled is loaded.
StopDrains == stop_flag_ /\ wpc # "none" ~> wpc = "exit" /\ prefetch_queue_ = << >>
=============================================================================
