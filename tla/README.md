# A TLA+ development for the MIT 6.824 labs

The repository implements the labs of MIT 6.824 in Go: MapReduce (`src/mr`), Raft
(`src/raft`), a key/value service on Raft (`src/kvraft`), a shard controller
(`src/shardctrler`) and a sharded key/value service (`src/shardkv`), all over the simulated
network `src/labrpc`. Paths below are relative to the repository's root, which holds its Go
packages under `src/`.

The development models all of these, the network with the harness that kills and restarts
servers under it, and the linearizability checker `src/porcupine` that the tests rely on.
The models are checked with TLC on small instances. Of Raft, MapReduce, the key/value
service and the network, main safety properties are proved with TLAPS for every number of
servers, workers, clients and calls.

## Inventory

| Part | State | Operations | Interacts with |
| --- | --- | --- | --- |
| Raft log (`raft/log.go`) | entries, index of the first one; entry 0 is a placeholder for the snapshot's last entry | `append`, `place`, `slice`, `cutOffHead`, `cutOffTail` | every other part of Raft |
| Leader election (`raft/leader_election.go`) | term, vote, role | election timeout, `RequestVote`, `countVotes`, `becomeLeader`, `stepDown` | persister, network |
| Replication (`raft/log_replication.go`) | `nextIndex`, `matchIndex`, `commitIndex` | `Start`, heartbeats, `AppendEntries`, `InstallSnapshot`, their replies, `leaderCommit`, `followerCommit` | log, applier |
| Applier (`raft/applier.go`) | `lastApplied`, what is being sent on `applyCh` | pick, send, done | the service |
| Compaction and persistence (`raft/log_compaction.go`, `raft/persister.go`) | snapshot, its index and term, the saved state | `Snapshot`, `persist`, `persistSate`, `readPersist` | the service, restarts |
| Network and harness (`labrpc/labrpc.go`, the `config.go` files) | ends and their connections, servers by name, persisters | `Call`, `processReq`, `AddServer`, `DeleteServer`, `Enable`; `StartServer`, `ShutdownServer` | all RPCs |
| Key/value service (`kvraft`) | store, last sequence number of every client, waiting handlers | `Get`, `PutAppend`, applier, snapshot; the client's retries | Raft |
| Shard controller (`shardctrler`) | the list of configurations | `Join`, `Leave`, `Move`, `Query`; balancing | Raft |
| Sharded service (`shardkv`) | configuration, shards held, shards in transit | configuration poll, `GetShards`, `PutShards`, `DeleteShards`, client operations | Raft, controller, other groups |
| Linearizability checker (`porcupine`, `models/kv.go`) | a linked list of events, a cache, a stack of calls | `checkParallel`, `checkSingle`, `lift`, `unlift` | the tests of the services |
| MapReduce (`mr`) | task states, counters, waiting workers | `FetchTask`, the finish calls, timeouts | workers |

What is hard about Raft here, and what has to hold:

- Messages are lost, delayed and reordered. Committed entries stay, logs agree, and what a
  leader believes about a follower (`matchIndex`, `nextIndex`) is true.
- `AppendEntries` of a leader of the *same* term makes a candidate step down and forget its
  vote. There must still be at most one leader in a term.
- `leaderCommit` also commits entries of older terms, once every server holds them.
- The applier sends without the lock, while the log is cut and snapshots are installed.
- A follower that installs a snapshot keeps the entries behind it.
- A crash may fall between two saves of one handler. `lastApplied` starts at 0 again.

About the services:

- A clerk repeats a request at other servers, so an operation gets into the log more than
  once, also long after its call has returned. It takes effect once, and at a time when the
  call was under way.
- A handler sleeps until its operation is applied. The entry may be overwritten, and the
  operation may be done by a snapshot instead. Handlers are woken and calls return.
- Replicas walk through Go maps in different orders and have to make the same configuration.
- Shards move between groups while clients write. No shard has two owners, none loses a
  write or gets it twice, and groups that wait for each other's shards get them.
- A killed server goes on running. Nobody may hear of what it does.

## Modules

| Module | Models |
| --- | --- |
| `RaftLog` | `raft/log.go` as operators on records `[index0, entries]` |
| `Raft` | the servers and the network; its properties |
| `ReplicatedLog` | abstract: one growing sequence that every service consumes from its start; implemented by `Raft`, and what the services assume of it |
| `MCRaft` | the instance for TLC: view, symmetry, start states |
| `RaftInvariant`, `RaftProofs` | the inductive invariant of `Raft`, and the TLAPS proofs |
| `MapReduce` | coordinator, workers and the coordinator's main; their properties |
| `MapReduceProofs` | the TLAPS proofs about `MapReduce` |
| `ReplicatedService` | what `kvraft` and `shardctrler` have in common: clerk, handlers, applier, snapshots |
| `KVRaft`, `MCKVRaft` | the key/value service: its store, what it promises, its instance |
| `KVRaftStore`, `KVRaftProofs` | lemmas about stores and logs, and the TLAPS proofs about `KVRaft` |
| `ShardConfig` | `shardctrler/common.go`: the balancing algorithm as operators on configurations |
| `ShardCtrler`, `MCShardCtrler` | the shard controller and its instance |
| `ShardKV`, `MCShardKV` | replica groups, their pollers and clerks; instances |
| `Labrpc`, `MCLabrpc`, `LabrpcProofs` | a call's way through the network, the harness, the TLAPS proofs |
| `Porcupine`, `MCPorcupine` | the linearizability checker, and the histories it is run on |

### Raft

One action is one critical section of `rf.mu`. Variables are named after the fields of the
`Raft` struct. The code's goroutines show up as follows.

- `leaderElection` is split where it releases the lock: `StartElection` (up to the sending
  of the requests), `CountVote` (one reply read by `countVotes`) and `FinishElection` (the
  check after `countVotes` and `becomeLeader`). `ballots[s][t]` holds the votes counted by
  the goroutine of server `s` for term `t`; several such goroutines may be alive.
- `leaderHeartbeats` is `Heartbeat`; the code that runs when a reply arrives is
  `AppendEntriesReply` and `InstallSnapshotReply`. A reply carries the fields of the request
  that the caller still has on its stack.
- `applier` is `ApplierPick`, `ApplierSend`, `ApplierDone`. The service is `applied`: the
  entries its state is the result of. `Snapshot` is called by the service.
- A handler is one action with its saves. `Restart` is a crash between critical sections,
  `RestartInHandler` one after `stepDown` saved the new term and before the handler's own
  save. Those are all the points at which the persister and the handler disagree.

Abstractions:

- Timers and their resets are left out: an election may start, and a heartbeat be sent, at
  any time. `leaderId`, `killed` and logging are left out. A killed server is one that takes
  no more steps.
- `net` is a bag. What will be lost is lost when it is sent, so a sender chooses which of
  its messages arrive, and every message in flight may be delayed for ever. `labrpc` never
  duplicates a message and gives every call at most one reply.
- The entries of a request are those of the log when it is sent. In the code they alias the
  log's array until `labrpc` has encoded them, which is after the lock is released.
- A reply nobody waits for any more (`Awaited`) is dropped when it is sent.
- Snapshots are the sequence of entries they stand for.
- `voted`, `elected` and `committed` are history variables. No action reads them, except
  that `committed` is compared with itself to record the longest committed log.
- `commitIndex` moves only when a follower's reply arrives, as in the code; so a cluster of
  one server never commits.

### MapReduce

One action is one critical section of `c.Mutex`: `FetchTask` up to its return or its next
`Cond.Wait`, `TaskFinished` for both finish calls, `Recover` for both timeout goroutines.
`timers` counts the live timeout goroutines of a task. A worker writes or reads one file per
step. `main` of `mrcoordinator` calls `Done` without the lock, so `Poll` looks at one task
per step. Task states are read as they are; a stale read would only delay the poll, since
finished tasks stay finished.

A worker may crash at any time. The coordinator does not notice: it goes on with a call it
has received, and may give a dead worker a task. Files are known by name only. Their
contents are left out, because a task done twice writes the same ones, and `os.Rename` makes
each appear at once. Calls are lost only with a process, as coordinator and workers talk
over a socket of one machine. After the coordinator exits, calls fail and the workers stop.

### Key/value service

`ReplicatedService` takes the service as constants (`InitState`, `Apply`, `Answer`), which
`KVRaft` and `ShardCtrler` define. Raft is the environment: `chosen` and `lastApplied` are the
agreed log and how much of it a server has consumed. `Commit`, `Deliver`, `DeliverSnap` and
`Restart` change them as `Choose`, `Deliver` and `Crash` of `ReplicatedLog` do, and `Raft` is
checked to implement `ReplicatedLog`. That the environment allows all that Raft does is by
inspection, not checked: an entry is agreed on at any time, and a server consumes one entry,
jumps ahead to the index of a snapshot that some server took, or starts over. Jumps to other
indices, which `ReplicatedLog` allows, do not occur in Raft, whose snapshots come from the
services.

- `Begin` is a call of the clerk. Its rounds are not steps: from its call on a request may
  arrive at any server any number of times (`Arriving`).
- `operate` is `OperateDone` when the operation is done already, and otherwise
  `OperateStart`, whose entry is agreed on or overwritten. Its handler is in `waiting`.
  `Read` is a woken handler that reads the store after others may have changed it.
- The applier is `Deliver` and `DeliverSnap`, each with `updateSeqNum`'s broadcast, and with
  the snapshot that a long log makes it take. `RaftStateSizes` stands for the size in bytes:
  any number of entries the server may hold.
- `Restart` is `Kill` and `StartKVServer`: all but the snapshot is lost.

The time until a request arrives stands for the delays of agreement and of the reply as
well. Handlers of a call that has returned are dropped, since nobody listens to them. A
string is the sequence of writes it consists of. A clerk is used by one goroutine, as in the
tests.

### Shard controller

`ShardConfig` has the operators of `shardctrler/common.go`: `ResetShards`, `JoinGroups`,
`RemoveGroups`, `MoveShard`. Go's order of iteration through a map is the parameter `order`,
and each server may use another one at each step. `ShardCtrler` is the service around them,
without snapshots, as in the code.

### Sharded service

Each group has an agreed log. The servers in `Poller` take themselves for leaders and run
`pollConfig`. `changeConfig` and `migration` are split where they wait: `ChangeConfig` sends
the `GetShards` requests; `ReadShards` and `GotShards` are the two reads of the handler,
between which the applier may go on; `PutNext`, `ShardsPut`, `ShardsDeleted`,
`AnnounceConfig` and `ConfigSet` follow. `migration` holds what a poller waits for. The
applier's switch is `ApplyOp`, with `PutShards`, `DeleteShards`, `SetConfig` and the
operations of clients. `nextConfig` is not replicated, as in the code, although
`DeleteShards` reads it.

A shard has one key. The controller is the sequence of configurations `Configs`, of which
`latest` is the last so far; `MCShardKV` asserts that `ShardConfig` makes just these. The
time `Query` takes is left out.

### Network and harness

`Labrpc` follows one request at a time: `readEndnameInfo`, delay or drop, the handler in its
own goroutine, the wait in which `isServerDead` is asked, the check after the reply, the
drop or delay of the reply. `StartServer` and `ShutdownServer` are three steps each, as
their locks are released in between. An instance of a server has the persister it was
started with, also after it was killed. The handlers are those of a service that saves
before it answers.

### Linearizability checker

`Porcupine` is `checkSingle` for each key, one loop iteration per step (`Take`, `Skip`,
`Backtrack`, `Finish`), over the doubly linked list `next` and `prev`; and `checkParallel`,
which receives results (`Receive`), may time out, and drains the channel when it needs all
results. The key/value model is that of `models/kv.go`. The bit set `linearized` is a set,
and the cache is a set of pairs instead of a hash table.

## What TLC checks

All runs of Raft have three servers, one of which never times out, and one command value.

| Run | Starts from | Bounds | Shows |
| --- | --- | --- | --- |
| `RaftElection` | `Init` | terms 1-2, 3 messages in flight, 1 crash | types, `ElectionSafety`, `NothingUnsaved` |
| `RaftReplication` | `Figure8` | terms up to 4, 2 entries, 2 messages | log matching, agreement on what is committed, leader completeness, soundness of `matchIndex` and `nextIndex`, leaders only append, `commitIndex` only grows |
| `RaftSnapshot` | `Succession` | term 2, 2 entries, 1 message, 1 crash, two appliers that also take snapshots | saves, the log covers what was applied, the assertion on requests that overlap a snapshot, order of delivery, no lost wake-up, and that `Raft` implements `ReplicatedLog` |
| `RaftVoteTwice` | `Init` | term 1 | *violated*: a server votes once per term |
| `RaftSnapshotHead` | `TwoLeaders` | term 2, 2 entries | *violated*: an installed snapshot replaces the head of the log |

The other runs start from `Init`, unless it is said otherwise.

| Run | Bounds | Shows |
| --- | --- | --- |
| `MapReduce` | 2 workers, 2 map and 2 reduce tasks; any number of timeouts, every worker may crash | no missing input, complete output, no lost wake-up, one timeout per task, finished for good, and that the job ends |
| `KVRaft` | 2 servers, a client that writes and one that reads, 2 operations, 1 repeated entry, 1 restart, snapshots after 2 entries | `ExactlyOnce`, `OnePlace`, `NoSleeperLeft`, `Linearizable`, `CallsReturn` |
| `ShardCtrler` | 2 servers, 1 restart, 10 shards, 4 groups, 4 operations, two orders of iteration | `Balanced`, `NoExchange`, `MovedForCause`, `ReplicasAgree` |
| `ShardKV` | starts from `MovedOnce`: a group of 2 servers and one of 1, 3 configurations, 1 client with 2 operations, 1 restart, snapshots after every entry | `OneOwner`, `ReplicasAgree`, `WritesKept`, `ConfigsAdopted` |
| `ShardKVLeaders` | a group of 1 and one of 2 servers, both of which poll, 3 configurations, no client | *violated*: `OneOwner` |
| `Labrpc` | 1 server with 3 instances, a client's call and a peer's | `PositiveReplyKept`, `DeadServerAnswered` |
| `Porcupine` | histories at times 1-3 of two writes and a get of one key, or of an early write, two gets and a get of a second key | `VerdictRight`, `ListRestored` |

`TwoLeaders`, `Succession` and `Figure8` are states of `MCRaft` that `Init` reaches by a
legal sequence of steps. Starting there spends the small bounds on what follows: rival
leaders with conflicting logs, a successor whose predecessor holds an uncommitted tail, and
the situation of Figure 8 of the Raft paper, in which an old entry is replicated by a newer
leader. Two terms are enough for votes of an old election to meet a newer one. Term 4 lets
the server with the conflicting log win after the old entry was replicated. Two entries
allow a conflict behind a matching one, and a snapshot in front of a live entry. With three
messages in flight all requests of an election and a rival's meet; with one, requests are
still delayed past restarts and later elections. `RaftView` leaves out of the fingerprint
only what no later step reads. The candidates are symmetric in the runs that start from
`Init`.

The runs of Raft assume no fairness and check no liveness. They set `CHECK_DEADLOCK FALSE`
because the bounds stop the system.

`MapReduce` needs no bounds, and two workers are enough for a late worker and the one that
replaced it. It does stop when the job is over. `JobEnds` is checked under weak fairness of
the timeouts, of `main`, and of the steps and calls of every worker that is alive:
goroutines and processes are scheduled, a task takes finitely long, and timers fire. Nothing
is assumed of dead workers' calls. The property is conditional on one worker that never
crashes.

Bounds and fairness of the others:

- `KVRaft`. Two operations and one repeat put a write into the log twice with a read around
  it, before or behind a snapshot, on a server that restarts. The proofs below cover every
  value of the bounds. `CallsReturn` assumes that appliers run, and that a call under way
  asks every server again and again until one is a leader whose entry is agreed on. The
  clerk's loop gives the first half of that, and a Raft cluster with a majority alive is
  expected to give the second.
- `ShardCtrler`. Four operations reach more groups than two, fewer groups after a leave, no
  group at all, a rejoin, and one or two Moves that take a shard from its group and leave
  the configuration uneven before the joins and leaves that follow. Ten shards are the
  code's own number.
- `ShardKV`. `MovedOnce` is a state that `Init` reaches: a shard has come from the group of
  two servers to the other one, which has just asked for the old data to be deleted. The run
  then has the third configuration give the shard back, while that request is still under
  way, a client appends once more or reads, and the replica that does not poll restarts and
  installs snapshots. So the `DeleteShards` is applied by servers with different
  `nextConfig`, their data of the shard differ for a time, and `ReplicasAgree` and
  `WritesKept` are about what they serve afterwards. No group changes its leader, and each
  request is agreed on once in a group (`MaxRepeats = 0`); therefore no liveness of client
  calls is claimed. `ConfigsAdopted` assumes that appliers run on the servers that poll, and
  that the pollers run and have their requests agreed on in the end. Groups wait for each
  other one way at a time here; that they never wait both ways is `NoExchange` of
  `ShardCtrler`.
- `Labrpc`. Three instances let a request outlive two of its server's. `DeadServerAnswered`
  assumes that the goroutines of the network run. Handlers and the harness may wait for
  ever.
- `Porcupine`. Three operations on a key are enough for a cached state to be met again, for
  calls at equal times, and for lifts that are undone in another place of the list. It does
  not stop: `Returned` is its last step, so deadlock is checked.

`CHECK_DEADLOCK FALSE` is set in the others because clients and the harness may stop.

What the three violated properties mean:

- **A second vote in a term.** `AppendEntries` (`src/raft/log_replication.go:71`) calls
  `stepDown` on a candidate of the same term, and `stepDown` clears `votedFor`
  (`src/raft/raft.go:162`). `assignments/Lab2_note.md:73` says the saved term and vote
  prevent a second vote. It does no harm: the server forgets only a vote for itself, and it
  does so only when the term already has a leader; `RaftProofs` proves election safety for
  the code as it is.
- **The head kept by `InstallSnapshot`.** With a log longer than the snapshot the follower
  keeps its own entry at the snapshot's last index (`src/raft/log_replication.go:158`), also
  when it is of another term. The comment on `LastIncludedIndex` (line 37) says the snapshot
  replaces all entries up to it. The follower then refuses the requests that follow the
  snapshot, because the head of its log is of another term.
- **Two owners of a shard.** `putShards` (`src/shardkv/server.go:209`) looks at no
  configuration number. Two servers of a group that are leaders one after the other both
  fetch a shard. When the second is done, the group may give the shard away again in the
  next configuration, and only then apply the `PutShards` of the first: it takes the shard
  back, with old data, while another group serves it. `assignments/Lab4_note.md:62` says
  that configuration versions keep a shard with one group at any time, and line 73 that a
  new leader may repeat a migration. With one poller per group (`ShardKV`) the property
  holds.

`assignments/Lab2_note.md:19` says that only entries of the current term are committed.
`leaderCommit` (`src/raft/log_replication.go:309`) also commits older ones that all servers
hold. `RaftReplication` checks that this is safe (`LeaderCompleteness`, `CommittedAgree`).

## What is proved

### Raft

`RaftInvariant` defines the invariant and proves which kinds of steps keep it. `RaftProofs`
proves, for every finite set of servers and every value of the bounds:

- `ElectionSafetyTheorem`: `Spec => []ElectionSafety`;
- `DurabilityTheorem`: `Spec => []NothingUnsaved`;
- `Invariance`: `Spec => []Inv`, the inductive invariant behind both.

The assumptions are `ServerAssumption` (servers are finite in number, and `Nil` is none of
them), `BoundAssumption` and `ScopeAssumption`, all of `Raft`.

`ElectionSafety` is not inductive. In textbook Raft it follows from "one vote per server and
term", which this code breaks. `Inv` has instead:

- `ElectionTypeOK`, the types of the variables elections read;
- `OwnVoteOK`: a candidate or leader stands by the vote it gave itself;
- `VoteKnown`: no vote is for a term the voter has not reached, and a vote of its current
  term is in `votedFor`, unless it is the forgotten vote of a former candidate for itself;
- `SecondVote`: a server that has cast two votes in a term cast one of them for itself, has
  not won that term, and is a follower if it is still in it, so it never will;
- `BallotsCast`, `MessagesOK`: every counted vote, and every vote in flight, was cast;
- `ElectedOK`: a majority of cast votes stands behind every election that was won;
- `SaveInv`: saved and live state are equal.

Two winners of a term have a voter in common (`MajoritiesMeet`). That voter cast two votes,
so it is one of the two winners, and `SecondVote` rules out that it won. `SaveInv` is part
of the invariant because a restart puts the saved term and vote in the place of the live
ones. There is one lemma per action. Most actions only leave the election state alone, take
a step down or drop messages, and their lemmas cite `QuietStep`, `StepDownStep` and
`MessagesStay`.

### MapReduce

`MapReduceProofs` proves `NoMissingInput`, `OutputComplete`, `OneTimeout` and
`FinishedForGood`, for any set of workers, any number of map tasks and at least one reduce
task (`TaskAssumption`; `main` asks for ten). The invariant `Inv` says that the flags
`mapTasksDone` and `done` are right (`FlagsRight`), that map tasks leave their files in
order and before they are finished (`MapFiles`), that reduce tasks are worked on only after
all map tasks are finished (`ReduceFiles`), and that what the poll has passed is finished
(`PollRight`). `MapFiles` has to speak of workers as well as of tasks, because a task may be
finished by a worker it was taken from.

### Key/value service

`KVRaftProofs` proves, for any number of servers, clients, keys, operations, repeats,
snapshots and restarts:

- `ExactlyOnceTheorem`: every store is the one the applied prefix of the log stands for;
- `LinearizableTheorem`: a call that returns has a place in the log that it got while it was
  under way, and a Get answers with the value at that place or at a later one;
- `NoSleeperLeftTheorem`: no handler sleeps when its operation is done;
- `OnePlaceTheorem`: a server's sequence numbers, and a snapshot's index, data and numbers,
  belong to one place of the log;
- `Invariance`, the inductive invariant behind them.

The assumptions are `ServiceAssumption` and, as a hypothesis of each theorem, `IsKVService`:
the constants of `ReplicatedService` are the operators of `KVRaft`, which is what the
configuration of the run sets.

The applier compares numbers (`lastSeqNum >= seq`), while `ExactlyOnce` speaks of the first
place of an operation in the log. The two agree because the operations of a client get into
the log in order: a clerk goes on only when its last operation is there (`Returned`), so
every operation has its predecessors in front of its first place (`InOrder`); hence the
sequence numbers of a server are the largest among its entries (`SeqNumsRight`), and an
operation that is not done is not among them. `StoresRight` says the same of snapshots,
since a restart or a lagging server puts a snapshot in the place of a store. `ReadersRight`
is about handlers between being woken and reading.

`KVRaftStore` has the data half: how `ValueAt`, which picks the live writes of a key by
their rank, changes with one more entry. The induction over the rank is stated for a set of
numbers (`NatSetInduction`) and rests on the well-foundedness of `<`.

### Network

`LabrpcProofs` proves `PositiveReplyKept` for any servers, calls and restarts, from
`LabrpcAssumption`. The invariant says that every instance has a persister of its own
(`OwnPersister`), that nobody uses the copy a server is about to start with (`FreshCopy`),
that the newest instance saves to the persister its successor's is copied from as long as it
has its name (`NewestSaves`), and that a reply that was checked is kept (`CheckedKept`). The
order in `ShutdownServer`, `DeleteServer` before the copy, is what `CheckedKept` needs.

### Only model-checked

- Raft: everything about logs, commitment, snapshots and the applier, the full `TypeOK`, and
  the refinement of `ReplicatedLog`.
- MapReduce: wake-ups.
- The shard controller, the sharded service and the linearizability checker.
- All liveness (`JobEnds`, `CallsReturn`, `ConfigsAdopted`, `DeadServerAnswered`), since the
  prover does not handle fairness.

## Known limits of the models

- The entries of an `AppendEntries` request alias the log's array
  (`src/raft/log_replication.go:275`) until they are encoded, and `place` overwrites that
  array. The model takes the entries when the request is sent.
- Raft's liveness is not checked: an election may fail for ever without timing assumptions.
  The stall of a follower with a kept head is described above, not checked.
- `ShardKV` does not cover in one run: a change of leader with a client (the owner of a
  shard is then not unique, see above), and a poller that restarts and repeats old
  migrations.
- `getShards` (`src/shardkv/server.go:231`) returns the live maps of the store, which are
  encoded later without the lock. The model reads the data at once. For a reply that is
  awaited this is the same: the group does not serve the shard by then, and `putShards`,
  `deleteShards` and `setStore` make new maps. A handler so late that nobody awaits its
  reply may encode a map of a shard that has come back and is being written to, a data race
  that the model leaves out.
- In `ShardKV` a Get of a key without a value never returns to its client, because only `OK`
  ends the clerk's loop (`src/shardkv/client.go:108`), although the comment at line 91
  promises an empty string. The model has the code's behaviour; no property is about it.
- A first `Join` without groups makes `ResetShards` loop for ever
  (`src/shardctrler/common.go:105`). The inputs leave it out, as well as a `Move` to a group
  that has not joined.
- After a `Move` the code need not restore the balance. `Balanced` says that a join or leave
  makes an uneven configuration no worse, and keeps an even one even.
- Requests of one clerk in parallel are not modelled; no clerk of the repository sends them.
- An empty history makes `checkParallel` wait for its timeout. The histories have at least
  three operations.

## Not modelled

- `labgob`: a wrapper of the encoder, without protocol state.
- `mrapps` and `main`: applications and entry points. The loop of `mrcoordinator` is in
  `MapReduce`.
- The tests themselves, their statistics, and the debugging helpers. Of the harnesses, what
  starts, kills, connects and disconnects servers is in `Labrpc`.
- `labrpc`'s dispatch by reflection, its statistics and its byte counts.
- `porcupine`'s pictures of histories (`visualization.go`, `longest`), and its event-based
  interface.
