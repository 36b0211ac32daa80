------------------------------- MODULE Fetcher -------------------------------
(***************************************************************************)
(* The fetchers (execution-client/src/sync/fetcher) and the synchronisers  *)
(* that drive them.  FullSynchronizer has a BlockFetcher download the      *)
(* chain of the peers upwards, BeaconSynchronizer a ReverseBlockFetcher    *)
(* download the skeleton's ancestors downwards.                            *)
(*                                                                         *)
(* A job is a range of block numbers.  It waits in the heap "in", is       *)
(* requested from an idle peer, waits in the heap "out" for the jobs       *)
(* before it, goes through a stream into the writer and is stored.  Peers  *)
(* answer with part of a range, nothing, an error, or too late; they move  *)
(* to another branch between two answers; a store may fail.                *)
(***************************************************************************)
EXTENDS BlockTree, Sequences, FiniteSets, FiniteSetsExt, SequencesExt

CONSTANTS
    Heads,              \* what the peers' chain may come to end in
    Starts,             \* where it may end at first, by synchroniser
    Peers,
    NoPeer,
    MaxPerRequest,      \* maxPerRequest: blocks of a job
    MaxFetcherJobs,     \* maxFetcherJobs: jobs made at once
    MaxFetcherRequests, \* maxFetcherRequests: results under way to the writer
    MaxQueue,           \* maxQueue: how far a job may be ahead of the finished ones
    HighWater,          \* where the stream pushes back
    SafeReorgDistance,  \* safeReorgDistance
    MaxEvents           \* bound: bad answers, errors, moves of the peers

ASSUME FetcherAssumption ==
    /\ Heads \cup Starts["full"] \cup Starts["beacon"] \subseteq Blocks
    /\ NoPeer \notin Peers
    /\ {MaxPerRequest, MaxFetcherJobs, MaxFetcherRequests, HighWater} \subseteq Nat \ {0}
    /\ {MaxQueue, SafeReorgDistance, MaxEvents} \subseteq Nat

VARIABLES
    syncer,  \* the synchroniser of this node: "full" or "beacon"
    target,  \* the head of the chain the peers serve
    td,      \* peer.eth.status.td: what each said of it when it shook hands
    stored,  \* the chain's blocks, or those of the skeleton's first subchain
    head,    \* the chain's head, or the skeleton's
    next,    \* beacon: the block the tail of the subchain asks for
    goal,    \* config.syncTargetHeight
    f,       \* this.fetcher
    loop,    \* _fetch: "none", "awake" (in next) or "asleep" (in wait)
    sync,    \* sync(): "idle", or "waiting" for the fetcher
    peers,   \* "idle", "busy", "resting" until idle again, "gone" out of the pool
    moved,   \* the peers left the branch they served
    events   \* how many of the bounded events happened

vars == <<syncer, target, td, stored, head, next, goal, f, loop, sync, peers, moved, events>>

world == <<syncer, target, td>>

chain == <<stored, head, next>>

Event == events < MaxEvents /\ events' = events + 1

Height == Number[head]

(* The skeleton is linked: its tail's parent is canonical. *)
Linked == next = Genesis

NoFetcher == [none |-> TRUE]

NewFetcher(first, count) ==
    [first |-> first, count |-> count, in |-> {}, requests |-> {}, out |-> {},
     pipe |-> <<>>, writing |-> <<>>, total |-> 0, processed |-> 0, finished |-> 0,
     running |-> FALSE, errored |-> FALSE,
     skipped |-> FALSE,   \* tasks were made while the fetcher did not run
     stepped |-> FALSE]   \* jobs were taken back from the writer

Job(index, first, count) ==
    [index |-> index, first |-> first, count |-> count, part |-> <<>>,
     result |-> <<>>, state |-> "idle", peer |-> NoPeer]

Init ==
    /\ syncer \in {"full", "beacon"}
    /\ target \in Starts[syncer]
    /\ td = [p \in Peers |-> Number[target]]
    /\ stored = IF syncer = "full" THEN {Genesis} ELSE {target}
    /\ head = IF syncer = "full" THEN Genesis ELSE target
    /\ next = Parent(target)
    /\ goal = 0
    /\ f = NoFetcher
    /\ loop = "none"
    /\ sync = "idle"
    /\ peers = [p \in Peers |-> "idle"]
    /\ moved = FALSE
    /\ events = 0

------------------------------------------------------------------------------
(* The queues: operators on a fetcher q.                                    *)

LeastIndex(jobs) == CHOOSE j \in jobs : \A k \in jobs : j.index <= k.index

(* The i-th number of a job's range. *)
Nth(j, i) == IF syncer = "full" THEN j.first + i - 1 ELSE j.first - i + 1

(* enqueue: a copy of the job, which keeps its partial result; a fetcher    *)
(* that does not run drops it.                                              *)
Enqueue(q, js, dequeued) ==
    IF ~q.running THEN q
    ELSE [q EXCEPT
            !.in = @ \cup {[j EXCEPT !.state = "idle", !.peer = NoPeer, !.result = <<>>] : j \in js},
            !.processed = IF dequeued THEN @ - Cardinality(js) ELSE @]

(* Mutation: one job may be overtaken. *)
InTurnNearly(q, j, i) == j.index <= q.processed + i

(* The job may go as the i-th of those dequeued now. *)
InTurn(q, j, i) == j.index < q.processed + i

(* dequeue pushes the jobs that are next in order, one at least, until the  *)
(* stream pushes back.                                                      *)
Dequeue(q) ==
    LET order == SetToSortSeq(q.out, LAMBDA j, k : j.index < k.index)
        n == Max({k \in 0 .. Len(order) : \A i \in 1 .. k :
                    InTurn(q, order[i], i) /\ (i > 1 => Len(q.pipe) + i <= HighWater)})
    IN  [q EXCEPT !.out = @ \ {order[i] : i \in 1 .. n},
                  !.pipe = @ \o SubSeq(order, 1, n),
                  !.processed = @ + n]

(* tasks: the next ranges, maxPerRequest blocks each. *)
TaskCount(count) == Min({MaxFetcherJobs, (count + MaxPerRequest - 1) \div MaxPerRequest})

Tasks(q) ==
    {LET skip == (i - 1) * MaxPerRequest IN
     Job(q.total + i - 1, Nth(q, skip + 1), Min({MaxPerRequest, q.count - skip}))
        : i \in 1 .. TaskCount(q.count)}

(* nextTasks moves first and count on whether or not enqueueTask takes the  *)
(* tasks.                                                                   *)
MakesTasks(q) ==
    q.in = {} /\ q.count > 0 /\ q.processed - q.finished < MaxFetcherRequests

NextTasks(q) ==
    LET pushed == Min({q.count, TaskCount(q.count) * MaxPerRequest})
        taken == q.running /\ ~q.errored
    IN  IF ~MakesTasks(q) THEN q
        ELSE [q EXCEPT !.first = Nth(q, pushed + 1), !.count = @ - pushed,
                       !.in = IF taken THEN Tasks(q) ELSE @,
                       !.total = IF taken THEN @ + TaskCount(q.count) ELSE @,
                       !.skipped = @ \/ ~taken]

(* next *)
MayRequest(q) ==
    /\ q.in # {}
    /\ Len(q.pipe) <= MaxQueue
    /\ LeastIndex(q.in).index <= q.finished + MaxQueue
    /\ q.processed # q.total

Request(q, p) ==
    LET j == LeastIndex(q.in) IN
    [q EXCEPT !.in = @ \ {j}, !.requests = @ \cup {[j EXCEPT !.state = "active", !.peer = p]}]

Stopped(q) == [q EXCEPT !.running = @ /\ ~(q.in = {} /\ q.finished = q.total)]

(* next: the job in front is requested from an idle peer, or a fetcher with *)
(* nothing left stops.                                                      *)
RunNext(q, ps) ==
    \E made \in {NextTasks(r) : r \in {q}}, now \in {ps} :
        LET idle == {p \in Peers : now[p] = "idle"} IN
        \/ /\ MayRequest(made)
           /\ \E p \in idle :
                /\ f' = Request(made, p)
                /\ peers' = [now EXCEPT ![p] = "busy"]
        \/ /\ ~MayRequest(made) \/ idle = {}
           /\ f' = Stopped(made)
           /\ peers' = now

(* The loop of _fetch runs until a next() fails; nothing comes in between. *)
Quiet == loop # "awake"

FetchLoop ==
    /\ loop = "awake"
    /\ IF f.running
       THEN RunNext(f, peers) /\ loop' = IF f'.requests = f.requests THEN "asleep" ELSE "awake"
       ELSE UNCHANGED <<f, peers>> /\ loop' = "asleep"
    /\ UNCHANGED <<world, chain, goal, sync, moved, events>>

(* Requests of a fetcher that is gone still end some time. *)
FreePeers == [p \in Peers |-> IF peers[p] = "busy" THEN "resting" ELSE peers[p]]

(* The fetcher is cleared, destroyed and forgotten. *)
ClearFetcher ==
    /\ f' = NoFetcher
    /\ loop' = "none"
    /\ sync' = "idle"
    /\ peers' = FreePeers

(* The loop looks at running again; when it ends, so does sync(). A round   *)
(* that finds nothing to do changes nothing.                                *)
HasWork ==
    \/ ~f.running \/ NextTasks(f) # f \/ Stopped(f) # f
    \/ MayRequest(f) /\ \E p \in Peers : peers[p] = "idle"

(* Mutation: sync() is not told that the fetcher stopped. *)
FetchWakeUntold ==
    /\ loop = "asleep" /\ HasWork
    /\ loop' = IF f.running THEN "awake" ELSE "none"
    /\ UNCHANGED <<world, chain, goal, f, sync, peers, moved, events>>

FetchWake ==
    /\ loop = "asleep" /\ HasWork
    /\ IF f.running THEN loop' = "awake" /\ UNCHANGED <<f, sync, peers>>
       ELSE IF sync = "waiting" THEN ClearFetcher
       ELSE loop' = "none" /\ UNCHANGED <<f, sync, peers>>
    /\ UNCHANGED <<world, chain, goal, moved, events>>

------------------------------------------------------------------------------
(* Requests: answers, errors, timeouts.                                     *)

Requesting == f # NoFetcher /\ Quiet

Active == {j \in f.requests : j.state = "active"}

(* A peer that was banned meanwhile is not in the pool any more. *)
Release(p, to) == [peers EXCEPT ![p] = IF @ = "gone" THEN @ ELSE to]

Rests == UNCHANGED <<world, chain, goal, loop, sync, moved>>

Answered(q, j) == [q EXCEPT !.requests = @ \ {j}]

Served(j, k) == [i \in 1 .. k |-> Path[target][Nth(j, Len(j.part) + i)]]

Missing(j) == j.count - Len(j.part)

(* Mutation: the partial result stays with a complete one. *)
ProcessKeepsPart(q, j, blocks) ==
    LET result == j.part \o blocks IN
    IF Len(result) = j.count
    THEN Dequeue([q EXCEPT !.out = @ \cup {[j EXCEPT !.result = result, !.part = result]}])
    ELSE Enqueue(q, {[j EXCEPT !.part = result]}, FALSE)

(* process: a complete result goes to out, a partial one is kept, one with  *)
(* too many blocks is dropped.                                              *)
Process(q, j, blocks) ==
    LET result == j.part \o blocks
        kept == IF Len(result) < j.count THEN result ELSE <<>>
    IN  IF Len(result) = j.count
        THEN Dequeue([q EXCEPT !.out = @ \cup {[j EXCEPT !.result = result, !.part = <<>>]}])
        ELSE Enqueue(q, {[j EXCEPT !.part = kept]}, FALSE)

(* success *)
Success(j, k) ==
    LET q == Answered(f, j) IN
    IF j.state # "active" THEN f' = q /\ UNCHANGED peers
    ELSE IF k = 0 THEN RunNext(Enqueue(q, {j}, FALSE), Release(j.peer, "resting"))
    ELSE RunNext(Process(q, j, Served(j, k)), Release(j.peer, "idle"))

(* A peer sends the blocks that are missing, *)
Answer(j) ==
    /\ Requesting /\ j \in f.requests
    /\ Nth(j, j.count) <= Number[target] /\ j.first <= Number[target]
    /\ Success(j, Missing(j))
    /\ Rests /\ UNCHANGED events

(* or fewer, *)
ShortAnswer(j) ==
    /\ Event
    /\ Requesting /\ j \in f.requests
    /\ \E k \in 0 .. Missing(j) - 1 :
        /\ k > 0 => Nth(j, Len(j.part) + 1) <= Number[target]
        /\ k > 0 => Nth(j, Len(j.part) + k) <= Number[target]
        /\ Success(j, k)
    /\ Rests

(* or more. *)
LongAnswer(j) ==
    /\ Event
    /\ Requesting /\ j \in f.requests
    /\ {j.first, Nth(j, j.count + 1)} \subseteq 0 .. Number[target]
    /\ Success(j, Missing(j) + 1)
    /\ Rests

(* The request fails: processStoreError wants the peer banned. *)
Failure(j) ==
    /\ Event
    /\ Requesting /\ j \in f.requests
    /\ LET q == Answered(f, j) IN
        RunNext(IF j.state = "active" THEN Enqueue(q, {j}, FALSE) ELSE q,
                [peers EXCEPT ![j.peer] = "gone"])
    /\ Rests

(* Mutation: an expired job is not put back. *)
ExpireDrops(j) ==
    /\ Event
    /\ Requesting /\ j \in f.requests /\ j.state = "active"
    /\ f' = [f EXCEPT !.requests = (@ \ {j}) \cup {[j EXCEPT !.state = "expired"]}]
    /\ peers' = [peers EXCEPT ![j.peer] = "gone"]
    /\ Rests

(* expire *)
Expire(j) ==
    /\ Event
    /\ Requesting /\ j \in f.requests /\ j.state = "active"
    /\ f' = Enqueue([f EXCEPT !.requests = (@ \ {j}) \cup {[j EXCEPT !.state = "expired"]}],
                    {j}, FALSE)
    /\ peers' = [peers EXCEPT ![j.peer] = "gone"]
    /\ Rests

(* The wait is over; a banned peer is found again by discovery, and shakes  *)
(* hands anew.                                                              *)
PeerBack(p) ==
    /\ Quiet /\ peers[p] \in {"resting", "gone"}
    /\ f # NoFetcher => \A j \in Active : j.peer # p
    /\ peers' = [peers EXCEPT ![p] = "idle"]
    /\ td' = IF peers[p] = "gone" THEN [td EXCEPT ![p] = Number[target]] ELSE td
    /\ UNCHANGED <<syncer, target, chain, goal, f, loop, sync, moved, events>>

------------------------------------------------------------------------------
(* The writer.                                                              *)

(* The stream hands over what it buffered, and asks for more. *)
WriteBegin ==
    /\ Requesting /\ ~f.errored
    /\ f.writing = <<>> /\ f.pipe # <<>>
    /\ \E k \in 1 .. Len(f.pipe) :
        f' = [f EXCEPT !.writing = SubSeq(f.pipe, 1, k),
                       !.pipe = SubSeq(f.pipe, k + 1, Len(f.pipe))]
    /\ UNCHANGED <<world, chain, goal, loop, sync, peers, moved, events>>

(* _read *)
ReadMore ==
    /\ Requesting
    /\ Len(f.pipe) < HighWater
    /\ Dequeue(f) # f
    /\ f' = Dequeue(f)
    /\ UNCHANGED <<world, chain, goal, loop, sync, peers, moved, events>>

Results(js) == FlattenSeq([i \in 1 .. Len(js) |-> js[i].result])

(* The longest prefix of bs of which every block passes Ok. *)
Prefix(bs, Ok(_)) ==
    LET k == Max({n \in 0 .. Len(bs) : \A i \in 1 .. n : Ok(i)}) IN SubSeq(bs, 1, k)

(* Chain.putBlocks: every block needs its parent. *)
PutBlocks(bs) ==
    Prefix(bs, LAMBDA i : Parent(bs[i]) \in stored \cup {bs[m] : m \in 1 .. i - 1})

(* The heaviest block leads. *)
HeadAfter(bs) ==
    LET best == Max({Number[b] : b \in Range(bs) \cup {head}}) IN
    IF Number[head] = best THEN head
    ELSE bs[Min({i \in DOMAIN bs : Number[bs[i]] = best})]

(* FullSynchronizer: a chain update after a job takes the new height for    *)
(* the target and, when the head is recent, ends the sync; a head that does *)
(* not change is recent for a minute (MaxEvents). A missing parent is not   *)
(* the error that processStoreError forgives. The singletons here and below *)
(* only name a value.                                                       *)
StoreFull ==
    \E bs \in {Results(f.writing)} : \E put \in {PutBlocks(bs)} :
        LET updates == Len(put) >= f.writing[1].count
        IN  /\ stored' = stored \cup Range(put)
            /\ head' = HeadAfter(put)
            /\ goal' = IF updates THEN Number[head'] ELSE goal
            /\ \/ /\ f' = IF put = bs
                         THEN [f EXCEPT !.writing = <<>>, !.finished = @ + Len(f.writing)]
                         ELSE [f EXCEPT !.writing = <<>>, !.in = {}, !.running = FALSE,
                                        !.errored = TRUE]
                  /\ UNCHANGED <<loop, sync, peers, events>>
               \/ /\ updates
                  /\ IF head' = head THEN Event ELSE UNCHANGED events
                  /\ ClearFetcher
            /\ UNCHANGED next

(* Skeleton.putBlocks: down from the tail, until the chain is linked. *)
PutOne(s, b) ==
    IF s.res # "ok" \/ Number[b] > Number[s.next] THEN s
    ELSE IF b # s.next THEN [s EXCEPT !.res = "mismatch"]
    ELSE [next |-> Parent(b), put |-> s.put \cup {b},
          res |-> IF Parent(b) = Genesis THEN "linked" ELSE "ok"]

PutJob(s, j) ==
    IF s.res # "ok" THEN s
    ELSE IF s.next = Genesis THEN [s EXCEPT !.res = "already"]
    ELSE LET t == FoldLeft(PutOne, s, j.result) IN
         [t EXCEPT !.res = IF @ = "linked" THEN "ok" ELSE @]

(* Mutation: the jobs that failed are still counted as processed. *)
StepBackCounted(q) ==
    [Enqueue(q, Range(q.writing), FALSE) EXCEPT !.writing = <<>>, !.stepped = TRUE]

(* Jobs that did not fit are put back, *)
StepBack(q) ==
    [Enqueue(q, Range(q.writing), TRUE) EXCEPT !.writing = <<>>, !.stepped = TRUE]

(* and the peer of the first one is banned. *)
StoreBeacon ==
    \E s \in {FoldLeft(PutJob, [next |-> next, put |-> {}, res |-> "ok"], f.writing)} :
    /\ next' = s.next
    /\ stored' = stored \cup s.put
    /\ \/ /\ s.res = "ok"
          /\ f' = [f EXCEPT !.writing = <<>>, !.finished = @ + Len(f.writing)]
          /\ UNCHANGED peers
       \/ /\ s.res = "mismatch"
          /\ RunNext(StepBack(f), [peers EXCEPT ![f.writing[1].peer] = "gone"])
       \/ /\ s.res = "already"
          /\ f' = [f EXCEPT !.writing = <<>>, !.in = {}, !.running = FALSE, !.errored = TRUE]
          /\ UNCHANGED peers
    /\ UNCHANGED <<head, goal, loop, sync, events>>

WriteEnd ==
    /\ Requesting /\ f.writing # <<>>
    /\ IF syncer = "full" THEN StoreFull ELSE StoreBeacon
    /\ UNCHANGED <<world, moved>>

------------------------------------------------------------------------------
(* The synchronisers.                                                       *)

Fetching == f # NoFetcher /\ ~f.errored

(* fetch: the loop is started unless one is still there. *)
StartFetch(q) ==
    IF loop = "none" \/ f = NoFetcher \/ f.errored
    THEN f' = NextTasks([q EXCEPT !.running = TRUE]) /\ loop' = "awake"
    ELSE f' = q /\ UNCHANGED loop

(* sync, as long as there is a peer to sync with, which says its height is  *)
(* n.                                                                       *)
SyncRound(n) ==
    /\ \E p \in Peers : peers[p] # "gone"
    /\ goal' = Max({goal, n})
    /\ sync' = "waiting"
    /\ peers' = IF Fetching THEN peers ELSE FreePeers
    /\ UNCHANGED <<world, chain, moved, events>>

(* FullSynchronizer.best: no peer is asked unless one was as heavy as the   *)
(* chain now is when it shook hands.                                        *)
BestTd == Max({0} \cup {td[p] : p \in {r \in Peers : peers[r] # "gone"}})

(* FullSynchronizer.syncWithPeer: from a safe distance behind the head up   *)
(* to latest(), which goes from the head of the handshake to the present    *)
(* one.                                                                     *)
SyncFull(n) ==
    LET first == IF Height >= SafeReorgDistance THEN Height - SafeReorgDistance + 1 ELSE 1
    IN  /\ syncer = "full" /\ sync = "idle" /\ Quiet
        /\ BestTd >= Height
        /\ n \in BestTd .. Number[target]
        /\ StartFetch(IF ~Fetching THEN NewFetcher(first, n - first + 1)
                      ELSE [f EXCEPT !.count = Max({@, n - f.first + 1})])
        /\ SyncRound(n)

(* BeaconSynchronizer.syncWithPeer: from the tail down to the chain. *)
SyncBeacon ==
    /\ syncer = "beacon" /\ sync = "idle" /\ Quiet
    /\ ~Linked
    /\ StartFetch(IF ~Fetching THEN NewFetcher(Number[next], Number[next]) ELSE f)
    /\ SyncRound(Number[target])

(* enqueueByNumberList, of one number. *)
EnqueueByNumberList(n) ==
    LET raised == [f EXCEPT !.count = Max({@, n - f.first + 1})]
        job == Job(f.total, n, 1)
        queued == [raised EXCEPT !.in = @ \cup {job}, !.total = @ + 1]
    IN  IF n <= f.first
        THEN IF f.running THEN f' = queued /\ UNCHANGED loop ELSE StartFetch(queued)
        ELSE f' = NextTasks(raised) /\ UNCHANGED loop

(* handleNewBlockHashes, when a peer announces its head. *)
HandleNewBlockHashes ==
    LET n == Number[target] IN
    /\ syncer = "full" /\ Quiet
    /\ n > goal
    /\ goal' = n
    /\ IF Fetching THEN EnqueueByNumberList(n)
       ELSE IF n > Height
       THEN StartFetch(NewFetcher(Height + 1, n - Height))
       ELSE UNCHANGED <<f, loop>>
    /\ peers' = IF Fetching THEN peers ELSE FreePeers
    /\ UNCHANGED <<world, chain, sync, moved, events>>

(* handleNewBlock, of a child of the head. *)
HandleNewBlock ==
    /\ syncer = "full" /\ Quiet
    /\ target # Genesis /\ Parent(target) = head
    /\ stored' = stored \cup {target}
    /\ head' = target
    /\ goal' = Number[target]
    /\ UNCHANGED <<f, loop, sync, peers>> \/ ClearFetcher
    /\ UNCHANGED <<world, next, moved, events>>

(* The consensus client announces the head of the peers' chain: it extends  *)
(* the skeleton, or tears the fetcher down.                                 *)
BeaconSetHead ==
    /\ syncer = "beacon" /\ Quiet
    /\ target \notin stored
    /\ head' = target
    /\ IF Parent(target) = head
       THEN /\ stored' = stored \cup {target}
            /\ UNCHANGED <<next, f, loop, sync, peers>>
       ELSE /\ stored' = {target}
            /\ next' = Parent(target)
            /\ ClearFetcher
    /\ UNCHANGED <<world, goal, moved, events>>

(* The peers' chain grows or changes its branch. *)
PeersMove(b) ==
    /\ Event
    /\ Quiet
    /\ b # target /\ Number[b] >= Number[target]
    /\ target' = b
    /\ moved' = (moved \/ ~IsAncestor(target, b))
    /\ UNCHANGED <<syncer, td, chain, goal, f, loop, sync, peers>>

Next ==
    \/ FetchLoop \/ FetchWake
    \/ f # NoFetcher /\ \E j \in f.requests :
            Answer(j) \/ ShortAnswer(j) \/ LongAnswer(j) \/ Failure(j) \/ Expire(j)
    \/ \E p \in Peers : PeerBack(p)
    \/ WriteBegin \/ ReadMore \/ WriteEnd
    \/ SyncBeacon \/ \E n \in {Number[b] : b \in Blocks} : SyncFull(n)
    \/ HandleNewBlockHashes \/ HandleNewBlock \/ BeaconSetHead
    \/ \E b \in Heads : PeersMove(b)

Progress ==
    \/ FetchLoop \/ FetchWake
    \/ f # NoFetcher /\ \E j \in Active : Answer(j)
    \/ \E p \in Peers : PeerBack(p)
    \/ WriteBegin \/ ReadMore \/ WriteEnd
    \/ SyncBeacon \/ \E n \in {Number[b] : b \in Blocks} : SyncFull(n)

(* The event loop does not stop while there is a timer, a stream or an      *)
(* answer to go on with, latest() comes to the peers' head, and the         *)
(* consensus client announces its head.                                     *)
Spec ==
    /\ Init
    /\ [][Next]_vars
    /\ WF_vars(Progress)
    /\ SF_vars(SyncFull(Number[target]))
    /\ SF_vars(BeaconSetHead)

------------------------------------------------------------------------------
(* Properties.                                                              *)

Queued == f.in \cup Active \cup f.out \cup Range(f.pipe) \cup Range(f.writing)

(* The variables have their types; no counter goes below zero, every job    *)
(* was made, and no job that still waits has all of its blocks.             *)
TypeOK ==
    /\ syncer \in {"full", "beacon"}
    /\ {target, head, next} \cup stored \subseteq Blocks
    /\ td \in [Peers -> Nat]
    /\ goal \in Nat
    /\ loop \in {"none", "awake", "asleep"}
    /\ sync \in {"idle", "waiting"}
    /\ peers \in [Peers -> {"idle", "busy", "resting", "gone"}]
    /\ moved \in BOOLEAN
    /\ events \in 0 .. MaxEvents
    /\ f # NoFetcher =>
        /\ {f.count, f.total, f.processed, f.finished} \subseteq Nat
        /\ \A j \in Queued : j.index < f.total /\ Len(j.part) < j.count

(* Every job is in one place, and the counters follow: a job that expired,  *)
(* failed, came back in part or was taken back from the writer is neither   *)
(* lost nor there twice, and no late answer counts.                         *)
JobsAccounted ==
    Fetching /\ f.running =>
        /\ f.processed = f.finished + Len(f.pipe) + Len(f.writing)
        /\ f.total = f.processed + Cardinality(f.in) + Cardinality(Active) + Cardinality(f.out)
        /\ Cardinality({j.index : j \in Queued}) = f.total - f.finished

(* Results reach the writer in the order of their jobs, whatever was late,  *)
(* short or asked for again, until a store fails; and no store fails, nor   *)
(* is a peer banned for it, while the peers stay on their branch.           *)
StreamInOrder ==
    f # NoFetcher =>
        /\ f.errored \/ f.stepped => moved
        /\ ~f.stepped /\ ~f.errored =>
            LET stream == f.writing \o f.pipe IN
            \A i \in 1 .. Len(stream) : stream[i].index = f.finished + i - 1

Covers(j, n) == \E i \in 1 .. j.count : Nth(j, i) = n

(* No number is forgotten: what is not stored is still in a job or ahead of *)
(* the jobs, unless tasks were made for a fetcher that was not running.     *)
NoneForgotten ==
    Fetching /\ ~f.skipped =>
        IF syncer = "full"
        THEN \A n \in 1 .. f.first - 1 :
                (\E b \in stored : Number[b] = n) \/ \E j \in Queued : Covers(j, n)
        ELSE \A n \in f.first + 1 .. Number[next] : \E j \in Queued : Covers(j, n)

(* The chain outgrew what every peer in the pool said when it shook hands.  *)
Outweighed == \A p \in Peers : peers[p] # "gone" => td[p] < Height

(* The node catches up with the chain its peers serve: short, lost and late *)
(* answers, failed stores, reorgs of the peers and restarts of the fetcher  *)
(* notwithstanding. Full sync is held up when the chain is heavier than     *)
(* every peer was at its handshake: best() then finds nobody, whatever the  *)
(* peers have now, until one announces a block or connects anew.            *)
CatchesUp ==
    <>[](IF syncer = "full" THEN Height >= Number[target] \/ Outweighed
         ELSE target \in stored /\ Linked)

==============================================================================
