# Verification of libc7xx

libc7xx is a C++ library for Linux programs: threads and the objects that synchronise them,
message passing inside a process and between processes, child processes and signals, an event
monitor on epoll, a log ring in a mapped file, state machines, lazy sequences, sorting, growing
arrays, JSON, files, formatting and strings. This directory holds TLA+ models of the parts in which
several threads, processes or callbacks meet and of the algorithms worth a reference definition,
the TLC configurations that check them, and proofs checked by TLAPS.

Paths below are relative to the repository's `src/`.

## 1. The system

### Parts, their state, and what makes them correct

| part | source | state | operations | what is hard | correct means |
|---|---|---|---|---|---|
| queues | `c7thread/_queue.hpp`, `queue.hpp`, `jobque.hpp` | status, items, count or weight of uncommitted jobs, limit | put, get, commit, close, abort, reset, set_limit, wait_finished, wait_progress, sync_finish | one condition variable for four kinds of waiting; the last commit races close | FIFO, each job in one place, closed exactly when all is committed, nobody sleeps in vain |
| data-parallel rounds | `c7thread/datapara.hpp` | four buffers, a mask with a start and a paused bit per thread | start_round, put, end_round, end; loops of the main threads and of the post thread | two pipeline stages that swap buffers without a lock | nobody works on a buffer another swaps; items processed once, in order; a round ends when all is done |
| condition variable | `c7thread/condvar.cpp` | who is parked | wait (timed), notify_all | spurious wake-ups, a timeout that meets a notify | basis of the following |
| mask, event, counter, rendezvous | `c7thread/mask.cpp`, `event.cpp`, `counter.cpp`, `rendezvous.cpp` | a word, a flag, a number, a round | on/off and seven waits; set/clear/wait; up/down/wait; wait/abort/reset | a wait that takes what others wait for; a fast thread in the next round | what is given once is taken once; N meet in a round |
| message box | `c7thread/msgbox.hpp` | trays with a reference count | reserve, copy and drop of a key, put, wait, close | the tray goes away under a waiting thread | a tray lives with its keys, no message is lost |
| pools | `c7mpool.hpp` | chunks, free list in the items, number lent | get, dup, return, end of the pool | items and pool end in any order; one word is link and owner | an item is free or lent once; the strategy outlives both |
| pipes and channels | `c7threadcom.hpp` | one element and a status; two buffers between two pipes; two pipes and a counter | put, get, flush, close, abort; attach, detach | unlocked buffers, timeouts half way, close with elements on the way | a buffer is in one hand, in order, closed means drained; the last to leave goes after everything it was given |
| threads, groups | `c7thread/thread.cpp`, `group.cpp` | run and exit status; number of unfinished threads | start, join, reuse; add, start, wait | callbacks that throw, a `pthread_create` that fails | join means over, finalize once, a group runs as a whole or not at all |
| sorting | `c7sort.hpp` | the array | msort, qsort, rsort, hsort, dsort, by one thread or by several | threads without a lock on one array, from both ends of one pair of runs | sorted, nothing lost, each range in one hand |
| signals | `c7signal.cpp` | user mask, kept signals | block, unblock, setmask, the signal thread | the thread holds a signal while the mask changes | a signal is handled once, in the end |
| child processes | `c7proc.cpp` | state of each proc, the list of running ones | start, manage, kill, wait, the SIGCHLD handler | the child ends at any step of its registration | on_finish after on_start, once; every exit is seen; kill hits its own child |
| pipelines | `c7pipeline.cpp`, `c7nseq/command.hpp` | the descriptors of the parent and of each child; a thread that sends | build and exec, send, read, wait | every copy of a write end delays the end of file; programs, pipes and forks fail | descriptors closed once, what is read is what was sent or an exception, the end comes |
| event monitor | `c7event/monitor.cpp`, `timer.cpp`, `submit.cpp` | table of providers, epoll set, lock | manage, change_fd, change_event, change_provider, suspend, resume, unmanage, loop, submit | callbacks and other threads change what the loop iterates over; descriptor numbers come back | table, epoll set and descriptors agree; work is done once |
| event services | `c7event/acceptor*`, `connector*`, `receiver*`, `port*`, `shared_port*` | attached services, their ports, retries | on_event, on_message, retry, close | a service closes ports, its own or another's, in a callback | attach, messages, detach in this order, of the service that owns the descriptor |
| event extensions | `c7event/ext/*` | flags, callbacks, interests, installed services | assign, update, dispatch, install, subscribe, forward | weakly held owners, changes while a message is on its way | a message is heard by who installed or subscribed, flags are taken once |
| event messages | `c7event/msgbuf*`, `c7fd.cpp`, `c7utils/storage*` | buffers and parts | send, send to a group, recv, move, copy | partial writes and reads, a buffer that is reused, ports that fail | messages come whole and in order, kept ones stay intact |
| log ring | `c7mlog/*` | mapped ring with reserved records | put, clear, read from another process | lock-free reservation, overwritten records, writers that die | what is read as a record was put as one; the newest are read; parts merged by time |
| state machines | `c7fsm.cpp`, `c7event/ext/fsm.cpp` | current states, enabled partial events | transit, step, loop, commit | order of partial events, several current states | each event applied once, in order, combined when complete |
| threads of sequences | `c7nseq/thread.hpp` | two buffers in two lists | output, next, shutdown from either side | either side ends first | each item once, in order, both sides return |
| sequences | `c7nseq/*` | iterators | begin, ++, jumps, end, *, sinks; base64, URL encoding, generators | boundaries, empty input, walking from the back | the reference definition, and never outside of what is below |
| growing arrays | `c7rawbuf*`, `c7mm*` | memory, size, capacity, file | push, insert, resize, reserve, move, switch to a file | allocation, mapping and reading fail half way | the array holds what was put |
| JSON | `c7json.hpp`, `c7json/*` | a text, a tree of proxies | lexer, load, dump, clear | escapes, digits, times, keys that are values, members that nobody knows | load takes what is a value of its type and nothing else; what was dumped is what is loaded |
| files | `c7file.cpp` | names, inodes, who has one open | rewrite, write, read | a kill between two system calls, a full disk, callers that meet in one directory | whoever looks finds one version, whole; the last one is at the path or in the backup |
| text and data | format, string, args, path, dconf | values | pure functions | boundaries | not modelled |

### How they interact

Everything in `c7thread` that waits is built on `condvar`: a method locks it at its first line
and only `wait` gives the mutex away. `datapara` is made of threads and one `mask`, whose bits
are the only order between the stages. `thread` has delegates (`on_start`, `finalize`,
`on_finish`) which `group` hooks itself into. `fpipe` and `channel` are two `pipe1` each, and
a channel has a `counter` of its users. `proc` gets SIGCHLD from the signal thread, whose handler
walks the list of procs while other threads start new ones: the module `Proc` therefore holds the signal
thread too, as `ThreadGroup` holds the threads and `EventServices` extends `EventMonitor`. The pipelines fork their
own children and close descriptors in them by number. `submit`, `flagsync` and the fsm provider
bring work of other threads into the event loop by one pattern, a queue and an eventfd
(`EventQueue`, which the three modules extend). `mlog` uses nothing but the file. A document is
dumped to a path by `c7file::rewrite` with a backup and loaded by its `read`; the text and the file are
two modules, for neither looks into the other.

## 2. How the modules are written

One module per class. Its VARIABLES are the members of the class plus, per thread, the call
the thread is in; variables marked *history* record what a property needs, and no guard but
that of a bound reads them. What a method does between two releases of the mutex is one action;
its guard is the method's conditions and early returns. A call that may wait is split into *call*,
*park* and *return*: a parked thread is in `parked` (`waiting` in JobQueue), `notify_all` empties
the set, a spurious wake-up removes one member, and a timed wait may expire, after which the call
returns ETIMEDOUT whatever the object has become by then, as `pthread_cond_timedwait` does.
Code that runs without a lock (`datapara`, `fpipe`, `proc::impl::start`, the signal thread, the
log ring, the merging threads of a sort) is cut at every access to shared state.

| module | models | actions correspond to |
|---|---|---|
| `JobQueue` | `queue_base` and its four classes; `Kind` chooses | put, get, commit, close, abort, reset, set_limit, wait_finished, wait_progress, sync_finish |
| `JobService` | what a closed jobque promises | the abstract specification: accept, complete, close |
| `DataPara` | the driver, its main threads and its post thread | each call of `sync_mask_`, each swap and resize of a buffer, each user function |
| `CondVar` | the monitor | extended by the modules of the objects that wait |
| `ThreadMask`, `ThreadEvent`, `ThreadCounter`, `Rendezvous` | the sync objects | their methods |
| `Monitors` | the four of them and a channel, one at a time | the theorems about each, section 4 |
| `MsgBox` | msgbox, tray and tray_key | reserve, copies and drops, put, wait, close |
| `MPool` | mpool, its pointers, both strategies | get, alloc, wait, dup, return, end of the pool |
| `Pipe1`, `Pipe1Use` | pipe1; threads that use one | put, get, close, abort |
| `FPipe`, `Channel` | fpipe; channel: both on top of pipe1 | put, flush, get, close, abort; send, answer, receive, detach |
| `ThreadGroup` | thread; group on top of it | start, the body with its delegates, join, reuse; add, start, wait and the hooks |
| `SortThreads` | the sorts of one thread, as operators; those of several, as tasks | what a thread does alone is one step; the two merging threads go item by item |
| `Proc` | the signal thread; proc on top of it | block, unblock, setmask, the loop; start step by step, kill, wait, waitprocs, the child; `program` says which procs are managed, which may fail, and whether SIGCHLD is masked at times |
| `Pipeline` | pipeline and nseq/command | each pipe, fork and close; the programs, the sender, the reader |
| `EventMonitor`, `EventServices` | the monitor; acceptor, connector, timer, receiver, attached services | each call under the monitor's lock is a step, a thread is the list of calls it has to make |
| `EventQueue`, `Submit`, `FlagSync`, `FsmDriver` | queue and eventfd; their three users | put, write, read, take; make_and_manage; assign, update; transit, step |
| `ServiceCalls` | delegate, dispatcher, forwarder | the way of one message, installs and subscriptions beside it |
| `MsgStream` | multipart_msgbuf over fd | write and read of what the socket takes and has, keep by move or copy, the lock of a port |
| `DoubleBuffer` | nseq/thread | output, put, get, both shutdowns, join |
| `MLog` | the writers and the reader of the log | reserve, each word of a record, clear, attach; `load` reads the file in one step |
| `NSeq` | the adapters of nseq, as operators on an iterator: random access; input iterators, codes and generators | |
| `Buffers` | rawbuf, mmvec, mmobj | push_back, insert_from, resize, reserve, init, append, reset, move |
| `JsonText` | lexer, dump and load, as operators on characters and tokens | dump, somebody edits the text, load |
| `Files` | rewrite, write and read | each system call; a write is two halves, a kill may come between any two |
| `Exchanges` | message box, pool, pipe1, fpipe and the sequence of a thread, one at a time | the theorems about each, section 4 |
| `JobQueueProofs`, `DataParaProofs`, `ThreadProofs`, `ProcProofs`, `UseProofs`, `EventProofs` | theorems | section 4; the last three are about the runs `procs`, `threads` with `queue_limits`, and `events` |
| `MCJobQueue`, `MCMessages`, `MCThreads`, `MCProcs`, `MCEvents`, `MCSequences` | instances for TLC | `MCMessages` extends `Exchanges` by logs and sockets and by uses in which less goes wrong |

Definitions keep the names of the source where they stand for one. The comment
"mutant" marks an operator that is a wrong version of the definition after it and part of no
specification: replacing one by the other shows that a property can fail.

### Scenarios

An MC module asks one question of several programs. A variable (`scenario`, `use`, `object` or `part`) is
chosen in Init and never changes; it selects an INSTANCE of a module with constants of its own (or of another
module), and each step is a step of that instance. The state space is the disjoint union of
those of the scenarios. Fairness is stated per thread over all scenarios, which is the same as
fairness in each, for the scenario is fixed. A property that does not hold in every
scenario is guarded by those it is stated for, and the reason is in section 5.

## 3. What is checked

All passing runs switch the deadlock check off: programs really stop, when every thread has
returned and the bounds on new calls are used up. That nobody is left waiting is stated by the
properties instead.

| run | scenarios | shows |
|---|---|---|
| `job_queues` | jobque; weight_jobque: 2 producers, 2 workers (one with timeouts), 2 threads that close and wait | each job in one place, nobody sleeps beside work, CLOSED exactly with the last commit, put and wait_finished return, and the queue implements JobService with its fairness |
| `queue_limits` | weight_jobque aborted; queue closed, aborted and reset; queue with set_limit; sync_queue | the limit is kept, order survives, nobody is forgotten by abort or reset, blocked putters go on |
| `messages` | message box; pools: waitable, not waitable, and one in which everybody gives back; pipe1 with 2 putters and 2 getters; fpipe with abort and with timeouts; a function in a thread, read to its end or dropped; a log with writers that die, and one of two parts that is cleared and attached again; messages to a port that closes, to a group of which one port closes, and to one that stays | nobody sleeps beside what it waits for, one owner that lives while it is used, in order and closed means drained, records and messages are read as they were written, waits return |
| `threads` | two threads used by two callers; a group of three of which one cannot start and one callback throws; a group of two; a datapara with 3 main threads, one in which everything may throw and the driver may end anywhere, one with one throwing main thread, one with separate output; a mask in two uses, event, counter, rendezvous in rounds, with aborts and timeouts and with resets, a channel | join means over, all or nothing, unfinished_ counts, on_all_finish is last; buffers apart, each item once, in order and with the results of this batch, end_round means done; no lost wake-up, taken once, all met; calls return |
| `procs` | three signals under changing masks; two children that may fail; one started and one managed under masks; threads that wait for both; a pipeline of two programs in the three ways of exec | a signal once and in the end, the end of a child is told once and to everybody, kill and close hit their own, what is piped arrives, the end of file goes through |
| `events` | an acceptor with three connections; a connector with retries; timers; receivers managed from another thread; submit through the monitor and through a provider of one's own, in every mix of three threads; flagsync; fsm as a provider and as a machine; delegate, dispatcher and a forwarder with two proxies | table, epoll set and descriptors agree, services hear what is theirs between attach and detach, work is done once, in order, in the end (but for threads of submit that stop each other, section 5); a proxy hears what it has subscribed to |
| `sequences` | every adapter over every short source, read forwards, backwards, by jumps, and again; every kind of growing array, two at a time; 1 400 documents and ways to dump them; three rewrites of a file one after the other, and two at a time, with kills; all sorts by several threads, quick sort also with a full stack | the adapter yields what it is for and stays inside, distances and sizes count, the sinks collect, arrays hold what was put, documents and files come back, what was sorted is sorted and whole |
| `jobque_after_reset`, `datapara_post_throws`, `proc_iterator`, `msort_equal_keys`, `mmvec_second_try` | one program each | the five disagreements of section 6 |

### Bounds

Bounds are CONSTANTS whose names begin with Max; they appear in the guards of calls that a program
makes, never in what the library does. Those that a scenario fixes stand in its INSTANCE.

* Queues: `MaxPut` 2 or 3 items. With a limit of 2 and weights 1 and 2 that fills the queue,
  blocks a producer, and lets a second item overtake a held one if it could. Two controllers
  are needed for a close that has to wake a thread in wait_finished. `MaxControl` 2 gives all
  ordered pairs of close, abort and reset.
* DataPara: 3 main threads (0, which drives the post thread, and two that may be slow or fast),
  batches of 3, 7 items and 2 rounds: two full batches and a part of one are in the pipeline
  at once, and a second round meets what the first has left. The other drivers have 2 threads.
* Sync objects: 3 threads, so that one bit or unit wakes two; bits are set by two calls, beside
  the five composite waits, of two threads, by one; rendezvous of 2 among 3 lets a
  thread of the next round come early; aborts and resets twice. The channel has 5 requests, 3 of
  them ahead, which fills both pipes.
* Messages: 2 messages, 2 keys with a copy; 2 chunks of 2 items for 3 threads; an fpipe with
  buffers of 2 elements and 5 puts, so that each buffer makes two trips and the last is short; the
  same for the double buffer. The log ring has 11 words and records of 4 and 5: the third put laps
  the first. A socket holds 3 cells or 2 and a message 3 to 6, so each is cut in several ways.
* Threads: 2 threads and 2 callers, reused once the first life is over; groups of 3, with one
  caller, and of 2, with two.
* Sorts: up to 4 items with keys 0, 1 and 5, thresholds of 2, two
  levels of threads; 8 items for the quick sort of one thread, whose stack of one is then full, so
  that both parts are heap sorted.
* Procs: 2 procs; 3 signals, each sent twice, with every single mask, none and all. Pipelines: 2
  programs, 4 items, descriptors 3 to 10, pipes that hold 1 item.
* Events: there is a descriptor and an object left for whatever is made (`Room`); 3 connections, so that a descriptor can be closed and given away before the loop comes
  to its event; 2 refused connects; 3 threads that submit, each in one of the two ways; 4 items in the queues;
  2 proxies and 3 calls beside 2 messages, so that one proxy may change its mind while the other is called.
* Sequences: sources of at most 4 items of 3 values, parameters up to 3; arrays of up to 3 items
  with pages and initial sizes of 2, so that every second push moves them.
* JSON: strings of up to 2 of 7 kinds of characters (each escape by a representative), reals of up to 7
  digits around the 6 that are printed, a zone whose offset differs in summer; texts of up to 14 characters
  are edited at every place by taking a character away or typing one of four. `Accepts` is the reference:
  it says which tokens are a value by a choice of the commas that divide it, without walking over them.
* Files: 3 calls one after the other, so that one may find what two killed ones have left, with and without
  a prefix; 2 calls at a time; 3 temporary names; contents of two halves.

A round trip of every buffer, item, key, thread, descriptor or round fits into these bounds, and
each property has a mutant that breaks it within them.

### Fairness

Only weak fairness, per thread, of the steps the thread takes inside a call: a thread that may
run is scheduled by the kernel, and a mutex that is free is got in the end. Nobody has to make a
call, except where the property is about it: workers of a queue and getters of a pipe come
back for more (PutReturns depends on it), a holder of a pool item gives it back, the receiver of
`arrive` reads, the programs of a pipeline copy until the end of their input. User
functions return. A spurious wake-up, a timeout, a death and a failure never have to happen.
In `procs` the child that was forked executes or fails, the signal thread runs, and the
kernel delivers a pending SIGCHLD that is not blocked. `SignalHandled` leaves out
behaviours in which the program changes its mask for ever: what is sent again each time may then be
kept again each time. In `events` the loop runs and epoll_wait returns what is ready. `queue_limits`
asks for progress only while workers get.

## 4. What is proved

TLC checks one instance of each module; the theorems below hold for any sets of threads and any
values of the other constants that their assumptions allow. In every case the property is not
inductive by itself, and the invariant that is says where each thread stands.

| module | theorem | says | assumes, beside the assumptions of the module |
|---|---|---|---|
| `JobQueueProofs` | `TypeCorrect`, `QueueIsFifo`, `ItemIsInOnePlace` | `[]TypeOK`, `[]FifoNoLoss`, `[]OnePlace` | |
| | `NoWakeupIsLost`, `LimitIsKept` | `[]NoLostWakeup`, `[]WithinLimit` | nobody calls set_limit, which notifies nobody and may put the limit below what is queued |
| | `ClosedJobqueIsFinished`, `JobqueImplementsService` | `[]ClosedIsFinished`, the refinement of JobService | a jobque, of which only close is called |
| `UseProofs` | `LimitsAreKept`, `NobodyIsForgotten` | the properties of the run `queue_limits`, over its scenarios | |
| `DataParaProofs` | `BuffersAreApart` | `[]BuffersApart`, whatever the functions throw and whenever end() comes | |
| | `ItemsInOrder` | each item once and in the order of put, and the post thread gets what was written for it; the same | `OwnOutput`: input and output items are of one type, or there is one main thread; otherwise several threads resize the output vector (section 5) |
| | `RoundsAreComplete` | end_round returns when every item is through | the same, and no function throws nor does end() come in a round |
| `ThreadProofs` | `JoinIsTheEnd`, `FinalizeOnce` | a join without a timeout comes after the end; finalize once | |
| | `GroupImplementsThreads`, `GroupJoinIsTheEnd` | a group is a refinement of its threads, whose theorems it inherits | who throws from on_any_finish may throw |
| | `GroupStartsTogether` | all or nothing | |
| | `GroupCountsItsThreads` | `unfinished_` is the number of threads on their way | finitely many threads, no finalize that throws |
| | `GroupWakes` | nobody sleeps in wait of the group, or in on_start, in vain | the same, and no callback that throws |
| | `GroupAllFinishIsLast` | the step that calls on_all_finish ends the last thread | as for `GroupCountsItsThreads` |
| `Monitors` | `CounterIsNotOverdrawn`, `CounterWakes` | `counter_` is what is left and never negative; no lost wake-up | |
| | `MaskWakes`, `BitIsTakenOnce` | no lost wake-up, for any requests; waits take no more than was turned on | |
| | `EventWakes`, `EventIsTakenOnce` | nobody sleeps in front of a set event; wait_and_clear takes each once | |
| | `AllThreadsMet` | who is told true was in a round in which N threads met | no timeouts, no reset |
| | `RoundCountsThreads`, `RendezvousWakes` | `waiting_` counts; nobody sleeps in a round that is over | no timeouts; no reset |
| | `ChannelWakes`, `ChannelAnswers` | neither side of a channel sleeps in vain, in any order of aborts and detaches; replies in the order of the requests, each once, all of them before a detach without abort | |
| | `MonitorsKeep` | all of this of whichever object is used | each as above |
| | `JoinsMeanOver`, `GroupsRunAllOrNothing`, `GroupsCount`, `FinishIsLast`, `TeamsStayApart`, `TeamsKeepOrder`, `TeamsCompleteRounds`, `WaitsAreWoken`, `GiftsAreTakenOnce`, `RoundsAreFull` | each safety property of the run `threads`, by its name there, for every N, Capacity and bound of the run | |
| `Exchanges` | `PoolLivesAsLongAsUsed`, `ItemIsLentOnce`, `PoolWakes` | the strategy outlives items and pool and is deleted once; an item is in one hand and marked as lent; no lost wake-up | no timeouts in get |
| | `NobodySleepsBeside`, `OneOwnerEach`, `NothingLostOnTheWay` | `[]NoLostWakeup`, `[]OneOwner`, `[]InOrder` of the run `messages`: of trays, items, elements and buffers, for any threads, timeouts, sizes and bounds | finitely many users of the box |
| `ProcProofs` | `FinishComesAfterStart`, `ProcWakes`, `KillHitsTheChild` | on_finish once and after on_start; nobody sleeps in wait for a proc that is over; no signal to a number that was reaped | |
| | `SignalsAreHandledOnce`, `ChildSignalsAreHandledOnce` | a signal that is due is pending or kept, what is kept is masked, and none is handled more often than it was sent, in the signal thread by itself and below procs | |
| | `PipelineClosesItsFds`, `PipelineKeepsOrder` | a pipeline closes what it opened or was given, once; what is read was sent, in order, and whole or with an exception | |
| | `SignalsOnce`, `FinishesAfterStart`, `OnlyItsOwnIsTouched` | each safety property of the run `procs`, by what it says there, for any procs, signals, masks, programs, descriptors and bounds | |
| `EventProofs` | `WorkIsDoneAlways` | `[]WorkIsDone` of the run `events`: a submitted function runs once and after those put before it, and two threads stop each other only before there is a provider, and when one calls `submit()` and the other `make_and_manage`; a callback of a flagsync is called for what its flags were; a machine combines events when the last of theirs has come; a message passes the services of its plan in order, and the proxies called are those that have subscribed to it; for any threads, each in either way, flags, owners, tables of states, combined events, services, handlers and proxies | |

The arguments:

* **JobQueue.** `TypeInv` is TypeOK, FifoNoLoss and three ranges: that `get_item` returns an
  item of the right range needs the content of the queue to be exactly the numbers after `last`.
  `WakeInv` adds to NoLostWakeup that a thread whose wait expired is out of `waiting` and still in
  its call; there is one lemma for each way a step touches the condition variable (`OnePark`,
  `Notified`, `OneCall`). `PlaceInv` says that held items are taken ones, settled ones were
  taken, and no two workers hold the same. `CountInv` says that `uncommitted` is the
  cardinality of the outstanding jobs, that CLOSED means none and CLOSING some; it needs `HandInv`
  (a worker asks only with empty hands). From it follow ClosedIsFinished and, step by step, the
  refinement: put is Accept, commit is Complete, close is Close, all else stutters.
* **DataPara.** `BitsInv` says what a bit of `sync_mask_` means for its thread: a thread whose paused
  bit is on waits or is over; a request of the driver is for a thread that waits and whose paused bit
  was taken off first, so that bit, on again, tells that the request was taken (`RequestsAreFresh`);
  the post thread is asked only while main thread 0 waits for it. While the driver, or main thread 0,
  exchanges a buffer nobody else can be at work (`Apart`). `OrderInv` adds where each batch is: which of the
  buffers are live (`RcvLive`, `InLive`, `SndLive`: between which steps of the driver and of thread 0 they hold
  a batch that is still to be worked on), that live ones follow each other without a gap and after what was
  posted, and that the share of a thread is untouched while it is pending and done afterwards. `RoundInv`
  adds for teams that do not throw that nothing vanishes: each item put in this round is
  with somebody (`WithSomebody`) until it is posted.
* **Threads and groups.** `Progress` ties the status of a thread to its place in the body: final
  from finalize on. `GroupStep` shows that each step of a group is one of its threads, a call or a
  stutter, which is the refinement. `BegunInv` says what `flag_` means. `CountInv` says that
  `unfinished` is the cardinality of the members between start and on_finish, less the one that
  is being started and not yet counted, which the lock keeps before on_start (`StartInv`);
  `ParkInv` says that who is parked waits for what has not come. `LastFinish` is a lemma about one step: in
  which `unfinished_` becomes 0, so that by `CountInv` no member is on its way.
* **Counter, mask, event.** `CounterInv`, `MaskInv` and `EventInv` add that a parked thread is in a call. What waits
  take is bounded by what was given less what is left (`BitsTaken`): a bit that is on counts
  as given and not taken.
* **Rendezvous.** `RoundInv` says that `waiting_` is the number of threads gathered in the round
  `id`, and that a parked thread belongs to the present round; `CameEarlier` that who was told true
  is in a former one. The three parts are proved under the use of the object they need: no timeouts for the count,
  no reset for the wake-ups.
* **Channel.** `WhoCloses` says which side closes which pipe and what it has seen by then, `ParkedAtPipe` that who
  is parked at a pipe has nothing to do there, `UsersLeave` that `user_` counts those who have not left.
  `InTransit` counts the requests along their way: replies that came, the reply in its pipe, the one in the
  receiver's hand, the request in its pipe; their numbers follow each other, and their sum is what was
  asked unless somebody aborted.
* **Scenarios.** `MCInv` and `ThreadsInv` of `UseProofs`, and `EventsInv` of `EventProofs`, say that the
  invariant of the chosen instance holds. A step of the MC module is one of the instance (the other variables stay), so each
  conjunct is kept by the lemma of its module. The theorems about a run use the ASSUMEs TLC
  evaluates at the start of it: that the constants each scenario fixes are such as its module assumes.
* **Message box.** `TrayInv` says of each tray that its `rc` is the number of the pairs of an owner and a key
  of it (`Keepers`), that one which was neither closed nor kept by anybody is gone, and that what was put is what was
  got, followed by what is in the tray or went with it. A copy adds one pair and a drop takes one, so
  the count follows from the cardinality of a set with one element more or less.
* **Pools.** The word of an item is its link while it is free and its pool while it is lent. `Links`
  says, without a walk, that a link leads to an item that is not lent, that no two items
  link to the same one and none to `free`, and that items of chunks not yet allocated have no link;
  `Lent` that what threads have in hand is the pool's by its word and in one hand; `Counted` that
  `lending` is the number of loans, the set of pairs of a thread and what it holds or waits for. That each
  item is free or lent, and none is lost, needs more than links that do not meet, for a ring of free items that
  `free` does not lead to would have them too: `Ranked` gives each item of the list a number that falls by one
  along its link, and the items without a rank are the lent ones. A chunk, a loan and a return each keep such ranks.
* **pipe1.** `PipeInv` says that EXIST and CLOSING are the states in which one element was put and not got, and that
  who is parked finds the pipe full, if it puts, or empty, if it gets. From the count follows that an element is
  got once and in order, by whomever, and that CLOSED comes after the last one.
* **fpipe.** `FPipeOwned` says that the two buffers are in the putter's hand, the getter's, or one of the pipes,
  each in one; `FPipeControl` what each side has in hand at each step of a call, timeouts included.
  `FPipeElements` and `FPipeSums` follow the elements: those left in the getter's buffer, those on the way and
  those of the putter's follow each other without a gap, and their number is what was put and not got, until an abort.
* **Sequence of a thread.** `TwoBuffers` counts the buffers with memory in both lists and both hands;
  a farewell is one without. `Chained` says that the buffers in `filled` hold runs of the items, each of which
  begins where the one before ends: from what the reader has read to what the thread holds back. `OutputEnds` says that
  the empty buffer is the last in the list, and is there only when the thread is done.
* **Procs.** `InStart` says for each place in start what the state, the child and procs_ are, `Ended`
  what a final state implies. The lock that start holds from RUNNING to the end of on_start is what keeps
  waitprocs from finishing too early.
* **Signals.** The two properties with the types are inductive together. Each step of Proc is a step of the
  signal thread, a signal that is sent, a change of the mask or none of them (`SignalMoves`), so one lemma
  serves both specifications.
* **Work brought into the loop.** `QueueTypes` says that the queue of a submit, a flagsync or a machine holds what
  was put and not taken, in order; `Covered` that each item in it has its announcement: in the count of the
  eventfd, in what the loop has read of it and not used, or to come from a thread between put and write. `WorkInv`
  ties the functions that ran to those taken, and the key under which submit is found to the provider that was made, and
  who holds `lock_` and the mutex of make_and_manage at each place (`WorkLocks`).
  `FlagInv` says that of the callbacks of one id the first alone may have an owner, and none if it was unassigned, and,
  when the loop is at the end of its list, that those whose flags are on were called or came too late.
  `DriverInv` follows a machine: `Remembers` says that the partial events that are enabled are those taken since the
  last event they are part of was applied, `Arrives` that a current state is where the applied events lead, or has that one
  step to go, `CombinesInTime` and `AppliesAtOnce` that an event is applied when the last of its parts has come.
  `CallsInv` says that the list of services is in the order of priority and, within one, of
  installation (`ListsInv`), and splits what a message is due into what was done and what is left (`WayInv`);
  `HeardInv` that what a proxy looks at is what its user has subscribed to, and who is still to be called or was.
* **Pipelines, descriptors.** `FdsInv` says which variables of the parent are in use at each stage of exec and
  build, that they hold descriptors different from each other (`Apart`), and that nothing is open but these and what
  the user has to close; after build only the two ends of the context are left (`Kept`), each until the side
  that has it closes it. The kernel gives the lowest descriptor that is free: that there is one is the lemma `Smallest`
  (a set of numbers has a least element), from the well-foundedness of `<`, as induction itself cannot be cited; the
  lemma of exec takes it five times.
* **Pipelines, items.** `Links` says where the ends are: those of a program that runs are its channels, those of
  one that was forked are among what it inherited, those of the parent are at the ends of what is built. `Flow`
  says, by a counter of what was read from each channel, that every channel and buffer holds a run of the sequence
  and each run begins where the next has ended. `Ending` says why things are over: who writes and
  finds nobody reading (EPIPE) does so because a program has failed, since one that ends well has read to the end
  of its input (`NobodyReads`); and the end of file comes only after the program before has ended
  (`NobodyWrites`).

That a weight_jobque, whose counter is a sum of weights, is closed at the right moment and
implements JobService is only model-checked: the sum is defined by recursion over the items,
and induction over data is beyond the installed provers. Liveness (`CallsReturn`, `AllReturn`, `BlockedReturns`,
`ImplementsFairService`, `WaitReturns`, `HandledInTheEnd`, `DoneInTheEnd`) is out of the prover's
reach and rests on TLC. The properties of `MCSequences` are about what recursive operators compute from data, which
cannot be proved here at all. `ReadAsWritten` of the run `messages`, whose logs and sockets are read by walks over
words and parts, is model-checked only; so are
`TableFollows` and `ServicesHear` of `MCEvents`. The two theorem modules about one
component each, `JobQueueProofs` and `DataParaProofs`, leave the constants of the instances in `MCJobQueue` and `MCThreads`
open; `Exchanges` is a specification of its own, and the scenarios of `MCMessages` in which less goes
wrong are instances of it or of `MPool` with other constants.

## 5. Where a property is not stated, and why

The models show these behaviours, or leave them out as a use the code does not allow for; no comment,
document or test of the repository says that they do not happen, so they are neither properties
nor findings.

*Queues and rounds.* The commit of a job that was got before abort and reset takes the first weight
of the new life; the scenarios that reset use `queue`. set_limit notifies nobody: NoLostWakeup is
stated for a limit that stays; BlockedReturns shows that producers still go on as long as workers
get. The main threads of a datapara resize the shared output vectors at the same time
(`datapara.hpp:72`); the model takes the resize as two steps that may overlap. `end()` in the middle
of a round may never join; the scenario that does it checks safety only.

*Sync objects.* In a rendezvous a thread that times out stays counted in `waiting_`, so a later round
opens with one thread too few; `reset` releases nobody; `abort` followed by `reset` lets the aborted
threads return true. AllMet is stated for a program that does none of these (and proved for one that aborts),
`KeptWaiting` for one without resets. A channel with four requests ahead of their replies has every place full, the
request pipe, the receiver's hand and the reply pipe, and both sides wait for ever; it is used with
three. Both threads are attached before the first request; abort is two steps; moving a channel leaves
`user_` behind.

*Threads.* `join` of a thread whose start failed waits for ever; a thread may be reused while
its finalize still runs (the status says so only after on_finish). An `on_any_finish` that throws
skips the notify of the last thread; a finalize that throws skips on_finish, so that the group's
`unfinished_` is never decremented and its wait does not return.

*Messages.* After abort and close the getter of an fpipe may wait for a putter that is gone, and close
ignores a flush that timed out; its liveness is checked without abort. A thread that holds an item of a
pool and waits for a second may wait for ever; liveness is checked for threads that hold at most one.
A function whose output is a sequence and that calls `flush` half way leaves a buffer without
capacity, after which put returns false and the thread ends early; it does not call it here. With
non-blocking ports or timeouts a partial `write_v` leaves half a message, and the user has to close
the port, which the model's threads do; `write_v`'s error path shadows its count, so "remain" is
always -1. A stream that ends between two parts of a message is reported CLOSED and not INCOMP. The
errors of a port group are cleared without a lock and two sends at a time mix them, so one thread casts.

*Log.* A record that is not finished can be read with old words in it, and is told from a whole one by its
order and its complement only; a writer that dies hides the older records until it is lapped; a writer that
is lapped by a full round writes into newer records. The properties are stated for logs in which no
record was reserved over one that is still being written, and none was cleared or attached during a put.

*Signals, procs, pipelines.* The handler of a signal may run after `block` of it has returned. A
program that runs and ends before `forkexec` looks is reported as failed. Descriptors from 256 on
are not closed in children; fd0 and fd2 of exec are different; a dup that fails leaks fd0; the end
of a pipeline kills without waiting, and the end of a command's context does not join its sender;
a truncated item makes `*` read an empty vector; a second comparison with the end after wait does not raise
again.

*Events.* The rules under which the monitor is safe, and is used here: another thread manages and
unmanages only between lock() and its end; a port is closed only in the loop's thread; a connector with a
retry pending is not unmanaged; services that share a group use shared ports. `unmanage` of a provider that
is suspended returns at the error of epoll_ctl and skips on_unmanage (`monitor.cpp:260`), so
its service is never detached; ServicesHear excepts it. An event is told by its descriptor alone
(`monitor.cpp:65`): with two receivers beside a connector, the event of a descriptor that one of them has closed for
the other and `retry_connect` was given since reaches the connector while its timer still runs; it gives its
socket to a receiver, and the retry that follows opens one that nobody manages. The other threads open at
most one receiver beside a connector here (`EventAssumption`). `unassign` of the last callback of a flagsync
leaves it installed (`flagsync.cpp:94`), `flags_` is not initialised (the model begins with any value),
an empty set of flags loops for ever, and a callback that is assigned when its flags are already set waits for the next
change. The first `submit()` takes the monitor's lock (`monitor.cpp:400`) and then the mutex of
`make_and_manage`; a thread that calls `make_and_manage` itself takes that mutex (`submit.cpp:40`) and then the
monitor's lock (`:42`, `:49`). Where the two meet, both wait for ever, and so does the loop at its next event: the run
reaches it. No text of the repository says that the two may be mixed, so it is not a finding. WorkIsDone says when it can
happen, and nothing else may stop a thread of submit; DoneInTheEnd excepts just this state (`Crossed`). link_callback of a state machine is not locked against step.

*Sorts.* `C7_*SORT_THRESHOLD` below 2 makes the merge run off its array; a signed mask type of rsort
extends its sign; msort is not stable when it merges with two threads.

*Sequences.* Left out of the inputs, because reading goes past the end or the result is not what
the adapter is for: head of a sequence without random access that is shorter than n; slice of
such a one that ends on a gap; slice with an offset behind the end; chain with an empty part; repeat
of nothing or 0 times; unique, which does not save its first item; tail and drop_tail with 0 of a
sequence without random access; window of 0. size() of window and group is that of the source;
drop_tail of a sequence without random
access moves the items out of what is below it (`tail.hpp:211`, `:234`): who reads again meets items that were moved
from, and the model reads them so (`drop_tail_left`); Yields claims of the second reading that it meets what is left.
enumerate's difference is divided by its step; rbegin and rend of c_array are the wrong way round;
copies of a vseq or a generator iterator share their position; bytes from 128 on index urlencode's table out
of bounds; base64dec of a length that is no multiple of 4 reads its end.

*Arrays.* Left out: `reserve` below the size, and of 0 items (realloc frees, and the pointer stays),
an mmvec used before init, after reset or after it was moved from (its capacity of 0 doubles to
0), init twice, one file under two mmvecs, and growth factors other than 1.6. What a failed
insert_from leaves behind its position is any junk.

*JSON.* ComesBack claims that load gives back what dump wrote for the values that `Restorable` names, and says nothing of
the others. Of those the model shows that they do not come back as they were: a real that is
whole is dumped without a point and refused when it is loaded, digits after the sixth are lost, 0 is
refused; `time_prec` 0, which `proxy.hpp:84` offers and whose form `lexer.cpp:80` would read, writes a time without its
zone and closing quote (`proxy.cpp:216`), and load refuses it; in a process that read its first time in summer, every
time that is read is off by the difference to standard time (`lexer.cpp:88`); of a member that an object does not know, an array or
object of two items comes back with doubled commas, and keys are written raw, so that a quote in one
breaks the text. A string without an end is never an error, load does not return; text behind the value
is ignored; `[]` is a tuple; null is no value; the exponent is a small e.

*Files.* With three calls of which two overlap, a call that is on its way out unlinks the temporary name
that another has reserved since (`c7file.cpp:203`: the name was renamed before), a third reserves it
again, and two write into one file: path may then hold a mix, and a failed call may leave its contents
there. ComesBack is stated for calls one after the other, and for two at a time. A reader
with a short read gets an error; a file that shrinks under it cannot be, for rewrite never truncates
what path leads to.

## 6. Disagreements between the code and its own text

* `jobque_after_reset`: `jobque.hpp:66` empties the queue but not `uncommitted_jobs_`, against the
  comment on `is_idle` at `_queue.hpp:39`; after a reset the queue never gets CLOSED again.
* `datapara_post_throws`: `datapara.hpp:281` means to return EFAULT when a thread of the
  team is gone; if the post function throws between `wait_process` and the start of the next batch, the
  driver waits for ever for the main threads, which left without taking their request.
* `proc_iterator`: `c7proc.cpp:160` notes the care erase needs in the loop of waitprocs, but
  `start` and `manage` erase from the same list without its mutex while the loop stands on the element.
* `msort_equal_keys`: `c7sort.hpp:307` and `:324` say how the two merging threads agree on items that are
  equal; for the last item `:330` compares the other way, and an item is in the result twice while another is lost.
* `mmvec_second_try`: `c7mm.cpp:152` says that no copy is needed because the mapping is of the same
  file; when the switch to the file failed after `fd_` was set (`:122`), the items are still in memory, and
  the next extension drops them without an error.

## 7. What is not modelled

See the components of PROJECT.json; each has its reason. In short: pure I/O (most of descriptors and
sockets, terminals, inotify), layout (format, progress), type-level helpers, machine contexts,
command line tools and build files are left out for good. `mutex` and `spinlock` wrap
pthread. `queue_base::scan` reads under the lock. Of `signal` the table of handlers and the
restart of the signal thread in a forked child, of `group` the iterators, of
`datapara_flex.hpp` the choice between the driver and a plain loop, of `monitor` unmanage_all, its end
and EINTR, of the log the file revisions 6 and 7 and the lower limits of order and time, of the
messages borrow_iov_from and the byte order are not modelled. A keyed provider is managed only through
submit, and a machine's wait for an event is one step.

Of JSON, `binary_t` (whose base64 is checked in `NSeq`), UTF-8, the width of the indentation and
numbers out of the range of stol and stod, which throw, are left out; of files, mkdir, owner and mode,
read of what is not a regular file, mapping.

Strings (`eval`, `escape_C`), arguments, paths and dconf work character by character on text of any
length, without state that outlives a call; a model of them would copy the code. Two remarks from
reading them: `escape_C` writes `\x%02x`, and if a hexadecimal digit follows, `eval_C` reads
it back as one longer number; and `isoctal` takes the terminating 0 for a digit.

## 8. Plan

Done, in this order: queues with their abstract specification and proofs; DataPara; the sync objects;
messages, pools and pipes; threads and groups; signals and processes; the double buffer; the event
monitor with its services and extensions; the log ring; event messages; state machines;
pipelines; sorts; sequences; growing arrays; channel; JSON; files; proofs about threads and groups,
the monitors and the channel, procs, all of DataPara, what is passed on in memory, the work that is brought into the
event loop and the way of a message, and the safety properties of the runs `queue_limits`, `threads`, `procs`
and, but for the logs and sockets, `messages` as they stand there.

What would come next, in the order of what a reader would doubt: the
table and the epoll set of the event monitor, and what its services hear, as theorems; the words of a record
of the log; then the `eval` of strings against a reference definition
and the end of an event monitor.
