# qkmetisc in TLA+

TLA+ modules that model the programs of this repository, TLC configurations that
check them on small instances, and TLAPS proofs of the theorems that hold for
every instance. Paths such as `server.c:73` are relative to the repository's
directories (`server/server.c`, line 73).

The program serves CTF tasks over TCP. A *plot* listens on a port. An acceptor
thread accepts connections and hands each one to a worker thread of a pool; the
worker runs the client through the tasks of its plot: it sends a question, reads
the answer, and on `ANSWER_RIGHT` goes to the next task. Tasks may have timeouts.

## Inventory

| Component | State | Operations | Interacts with |
|---|---|---|---|
| Plot sockets and acceptor, `server/server.c` | ring `plot_sockets`, ring `inactive_plot_sockets`, two mutexes, epoll interest list, acceptor thread | `server_add_plot`, `server_remove_plot`, the acceptor loop, `server_destroy` | calls the pool with every accepted connection; epoll hands it raw pointers |
| Worker pool, `server/server_worker_pool.c` | array of workers | create, add client to the laziest worker, destroy | the workers' counts, each under a mutex of its own |
| Server worker, `server/server_worker.c` | clients (mask, task, question, stream, timers), `clients_nr`, epoll instance, thread | hand-off (acceptor's thread), event loop (timers, input, output, hang-up), destroy | plot, task, question, byte stream, kernel timers |
| Byte stream, `bstream/` | list of borrowed and copied buffers, `total_len` | `write_borrow`, `write`, `read`, `flush` | borrows the text of questions |
| Gens, tasks, questions, `gens/`, `rcmem/` | reference counted texts, `text_cached`, a collected answer | `gen_generate`, `task_get_question`, `task_check`, three `destroy`s, `rcmem_take/put` | destroyed by plot and worker in any order |
| Equation generator and solver, `gens/eq_gen/` | counters of braces, operators and numbers; recursion over the chain | `eq_generate`, `eq_print`, `eq_solve` | used by the eq gen: generate a text, later judge an answer |
| Linear plot, `plots/` | members, current member and task number | create, `plot_get_task`, destroy | owns gens, one plot per client |
| Lists, `list/list.h`, `listc/listc.h` | intrusive pointers | add, remove, iterate | every component with a list |
| Command line, `cli/` | options in two rings, two hash tables and an array; a match | create, add, remove, match, get argument, destroy | `main.c` |
| Log, `log/` | flags, output stream, optional mutex | `log_msg`, `log_set_flags`, `log_set_file` | every thread |
| Program entry, `main.c` | parameters | parse, create server, add plot, wait for SIGINT, destroy | command line, log, server |

### What is hard

- **Raw pointers in epoll events.** The kernel carries a `struct plot_socket *`, a
  `struct client *` or a timer, and hands it out later, outside any mutex. The
  pointer must still be valid when it is used. The server defers the free of a
  removed plot (two rings); a worker unregisters before it frees.
- **Hand-off.** `server_worker_add_client` registers the client with epoll and then
  goes on filling it; from `epoll_ctl` on the worker may handle its events.
- **Borrowed memory.** The stream points into the text of a question; the question
  must outlive the stream's use of it, and the text must outlive the question's gen
  and task, which are destroyed independently.
- **Level-triggered masks.** A client is to be polled for `EPOLLOUT` exactly while it
  has something to send.
- **Timers** race late answers, hang-ups and the next task.
- **Pieces.** TCP cuts an answer anywhere, and stdio reads further than a check asks.
- **Cancellation.** Threads are cancelled and joined; they must not hold a mutex (the
  log's included), an accepted descriptor or a half-handled event.
- **Stale reads.** The acceptor picks a worker by counts that change while it reads.
- **Counting.** Budgets in the equation generator, `total_len` of a stream, reference
  counters, task numbers, the rest of the log's buffer: a long legal sequence of calls
  must not reach an impossible value.
- **One thing in several places.** An option is in a ring, in up to two tables and in an
  array; a buffer in a list and in `total_len`; an argument in a match or in a local
  variable. Every path, the failing ones first of all, has to keep them together.
- **Partial failure.** Nearly every call may fail in the middle of a sequence that
  has to be undone.

What makes each component correct is the list of its properties below. The hazards,
line by line, are in `PROJECT.json`.

## Modules

```
PlotSockets --- PlotSocketsProofs               MCPlotSockets   sockets
WorkerPool  --- WorkerPoolProofs                MCWorkerPool    pool_balance
CheckFd <- ServerWorker --- ServerWorkerProofs  MCServerWorker  worker_*
ByteQueue <= BStream -> List --- BStreamProofs  MCBStream       bstream, bstream_read
EqGenerate, EqSolve, EqPrint > EqTask \
CheckFd                                > Answers --- AnswersProofs
                                                MCEqTask        eq_task
Gens       \
LinearPlot  > Plots --- PlotsProofs             MCPlots         plots
LinearPlot                                      MCLinearPlot    plot_gens
ListC <- CliHash (=> Dictionary) <- Cli \
Log --- LogProofs                        > Program --- ProgramProofs
                                                MCProgram       program
```

(`->` uses or extends, `=>` implements, `---` has its proofs in, `>` is composed in;
the names on the right are runs.)

Actions and variables keep the names of the C code where there is one. Operators
marked "Mutant" are changed versions of a definition, the kind of mistake an edit of
the code could introduce; none of them is part of a specification. Each property is
paired with one in `PROJECT.json`, to show that the property would notice.

### PlotSockets (`server.c`)

Variables are the memory of each `plot_socket` (`mem`, `sockfd`, `active`, `port`), the two
rings, the interest list `epoll`, the mutex `plot_sockets_mtx`, the connections
(`conn`, `lsock`), and program counters of the acceptor (`apc`) and of three calls
(`cpc`). A call of `server_add_plot` or `server_remove_plot` is split where another
thread can see the difference: before the mutex, under it, after it. The acceptor's
loop is split at `epoll_wait`, lock, check of `active`, cleanup, `accept`,
`server_worker_pool_add_client`, unlock. `inactive_plot_sockets_mtx` is only ever
taken under `plot_sockets_mtx` or after the join, so it is not a variable.
A port is free for `bind` when no open socket has it. `server_remove_plot` compares the head
of the ring only, as the code does: its loop does not advance.

| Property | Meaning |
|---|---|
| `EventPointerValid` | the acceptor's event pointer is allocated until its last use |
| `AcceptsOnlyActive` | `accept` and the hand-off see an active plot with an open descriptor |
| `RingsConsistent` | rings, interest list, `active` and memory agree; the assertion at `server.c:41` |
| `DestroyReleasesAll` | no socket, descriptor or half-accepted connection remains after destroy |
| `DestroyTerminates`, `NoConnectionStuck` | destroy returns; a queued connection is served, refused or reset |

`HandOffOnlyActive`, a step hands over a connection only of an active plot and never takes
it back, follows from `AcceptsOnlyActive` and is proved only.

*Fairness*: the acceptor and each started call keep running (weak), destroy goes on once
begun (weak), and `accept` does not fail for ever (strong). Nobody is obliged to connect,
call or destroy. A mutex needs no fairness of its own here: callers are finitely many, and
the acceptor, which takes it again and again, is held up only by them.
*Bounds*: two plot sockets, two ports, three calls, two connections. Three calls are the
smallest number with a removal that races an addition while a removed socket is parked;
two sockets allow a ring with a head and another element.

### WorkerPool (`server_worker_pool.c`)

Creation in a loop with failures, the scan of `server_worker_pool_add_client` one worker at
a time while clients of any worker leave between two reads, and destruction. The error path
of creation is as written: `goto free_pool` inside the loop stops one worker at most.
`seen` records what the scan read. `LaziestChosen`: the chosen worker serves no more clients than any
worker did when its count was read. `Balanced`: while no client has left, two workers differ by
one. `DestroyStopsAll`: destruction stops every worker and disconnects every client.
There is at least one worker, as the assertion in line 13 demands; a build without assertions that is
started with `-w 0` would index an empty array. *Bounds*: three workers, five clients: more clients
than workers, so that the scan has ties and a second round.

### ServerWorker and CheckFd (`server_worker.c`)

One worker, and the acceptor inside `server_worker_add_client`. `cl[c]` is
`struct client`: memory, epoll mask, task, question, stream, armed and expired timers.
The worker's program counter is `epoll_wait`, a timer handler, or a client handler with
what is left of `ev.events`; the stages IN, OUT, RDHUP of one event are separate steps so that
the hand-off can interleave with them. The hand-off has a step for each call it makes.
`hup` stands for a peer that has shut down its side, `input` for pieces of input in the
socket. How a task reads (`Kind`) is a constant: `whole` (one formatted answer), `stream`
(may ask for more, `ANSWER_MORE`), `free` (any input); `CheckFd` says what verdicts a check of
each kind may reach and what it leaves of the input, and module Answers shows that the checks of
the program do that. `client_send_task_text` ignores the results of its two writes, so each of them may leave
the stream as it was (`Written`), and the worker or the acceptor goes on as if it held the text. `ub` is set by any use of a freed object, after which nothing happens:
undefined behaviour is not explored further. `early` remembers the clients one of whose
events was taken during their own hand-off.

| Property | Meaning |
|---|---|
| `TaskPresent` | a timer or an unsent question always finds a task (assertions at 290 and 332) |
| `PolledWhilePending` | between events, polled for `EPOLLOUT` iff the client has a question that is not sent; bytes in the stream only then; polled for input and hang-up always |
| `BorrowedTextAlive` | whatever the stream holds belongs to the current task and its living question |
| `UseAfterFreeOnlyInHandOff` | no order of answers, timers, hang-ups and disconnections uses freed memory, unless the worker took an event of a client still in its hand-off |
| `DestroyReleasesAll` | no client, timer, mask or current question remains |
| `SessionOnlyAdvances` | tasks come in order, once each; a freed client never changes |
| `WaitsOnTheClock` | when nothing fails, a client has bytes of its question left to send, or it is on the clock of its task, if that has a timeout |
| `TimerResolves`, `HangUpDisconnects`, `DestroyTerminates` | liveness |
| `QuestionOutlivesBorrow`, `EveryClientLeaves` | what a comment and the README say and the code does not keep (below) |

*Fairness*: weak for the acceptor inside the hand-off and for a handler that has begun
(threads run), strong for each event source, because epoll's ready list is served in turn and
an event that is ready again and again is returned; weak for the expiry of an armed timer (time
passes); strong for the cancellation at `epoll_wait`. Peers owe nothing.
*Bounds*: `worker_safety` has two clients, a whole then a stream task, the first timed,
one piece of input per client, and any call failing; `worker_liveness` one client, two timed
tasks, two pieces of input, no failure. Two tasks are needed for anything of an earlier task
to meet a later one; two clients for the events of one to meet the hand-off of another.
`HangUpDisconnects` is checked for tasks that never answer `ANSWER_MORE`; for the others see below.

### ByteQueue, BStream and List (`bstream/`, `list/list.h`)

`ByteQueue` is what a stream promises: a first-in first-out queue of bytes with a known length.
`BStream` models the buffers at their addresses, linked by the two pointers of `List`, `free_space`,
`total_len` as a `size_t` of `WordSize` values, readers and writers that stop short, and `malloc`
failing in the middle of a write. Bytes are numbered as they are written. `BuffersListed`: the
allocated buffers are those the list leads to, once each; a pointer to a freed one remains only where
`list_remove_item` leaves it, in `prev` of the head. `OrderKept`: in any use no byte is lost, doubled or
reordered. `ImplementsByteQueue`: a stream used as the worker uses it (a copy only behind a
borrowed buffer, or into a stream left empty by a failed borrow, reads of `bstream_len` bytes) implements `ByteQueue` under the mapping
`queue <- Contents, len <- total_len`; a stream used otherwise is mapped to the empty queue, so
nothing is claimed of it. *Bounds*: blocks of two bytes, lengths up to four, few buffers: every length
is below, at, and over one and two blocks, and a list has a head, a middle and a tail.

### EqGenerate, EqSolve, EqPrint, EqTask (`gens/eq_gen/`)

`EqGenerate` has one step per iteration of `eq_generate`: counters, flags, and the random choice
as nondeterminism. `EqSolve` is the recursive descent of `eq_solve` over a chain, with its
error results; `EqPrint` the text and the size of its buffer, and a reader of texts. `EqTask` joins
them. `FlagsNotZero`: a choice is always left (assertion at `eq.c:56`). `ChainsWellFormed`: the chain is in
the grammar of the comment at `eq.c:261`, closed and within its budget. `SolvedAsWritten`: the text fills the
buffer that was allocated for it, and `eq_solve` accepts the chain and finds the value that a reader of the
text finds under the usual precedence, left to right, given by a separate definition on the text. *Bounds*:
lengths one to nine, three operations, braces; numbers are two assignments by position, of one and two
digits and of zero, that tell operators and groupings apart.

### Answers (`eq_gen.c`, `python_shellcode_gen.c`, `echo_gen.c`)

The peer sends one text, cut into pieces anywhere; each check opens a `FILE` on what has arrived,
reads it, perhaps further than it needs, and closes it. `JudgedAsSent`: a shellcode task collects the
answer in order and without gap whatever the pieces are, says nothing before its last byte, and RIGHT of the right
one only; an equation is judged by the number that has arrived by the first check, against the value of
the text that the peer was shown. `ChecksAsAssumed`: each of the three checks does, step by step, what
`CheckFd` says of its kind, so that ServerWorker's runs are about the program's tasks. *Bounds*: answers of
three characters out of two, five bytes sent: an answer with input behind it, cut everywhere.

### Gens, LinearPlot, Plots (`gens/`, `rcmem/`, `plots/`)

`Gens` has a gen of each kind (echo, eq, shellcode), its tasks and questions, the text they share and the
counter; objects are destroyed in any order, `malloc` may fail after a text was cached. `LinearPlot` has
creation by `troll_eq_plot_create`, `linear_plot_get_task` and destruction; any use or second
destruction of a dead gen is noted in `misused`. `linear_plot_create` copies the first member into every
place, as the code does. `Plots` composes the two for plots of any number of members: `Gens` is about the gen of the
first, the only one that is ever used, which the plot makes, uses and destroys; tasks and questions outlive both. When a plot of
several members comes to use that gen after its destruction, or destroys it again (`Misuse`), the program is undefined and
the model stops. `TextOutlivesHolders`, `NoTextLeaks`, `CounterCountsHolders`:
up to there counters are exact. `GensUsedAlive`: a plot of one member never uses or destroys a dead gen, one of several only
behind the last task of its first member or in `plot_destroy`. `NoGenLeaks`: a plot that could not be made, or has one member, leaves
no gen behind; the first gen goes with its last task and not before, or with the plot. That the further gens of a plot of
several members leak is outside it. *Bounds*: one to three members, one to three tasks, three questions: two of one task and one
of another. What the plot of `troll_eq_plot_create` does see below.
The model is of a build without assertions (`NDEBUG`): with them a `timeout_dec` that is not zero
aborts at line 51 of `linear_plot_template.c`.

### ListC, CliHash, Dictionary, Cli (`listc/`, `cli/`)

`ListC` has the pointers of a circular list as memory; `CliHash` a table of such rings. `Cli` has the registry of options
(nodes at addresses, two rings, tables by id and by long name, the array of short names) and a match: create, add an array of options with the undo of a
refused one, remove, automatic help, match token by token, get an argument, destroy; `malloc` may fail at
each place. An option argument is a number, and `released` counts the calls of its destructor.
`TablesAgree`: after every call rings and tables hold the living options and nothing else, and a refused
array leaves none behind. `TablesAreDictionaries`: both tables implement `Dictionary`, a finite map,
whatever collides. `ShortNamesLead`: a short name leads to the living option that has it, but for names whose option
was removed. `ArgsReleasedOnce`: no argument is released twice or while a match holds it, and a strict match loses
none, on every way out. *Bounds*: four nodes, two buckets, options that clash by id, long or short name,
three calls, four tokens: an option, its argument, the same option again, and its argument.

### Log and Program (`log/`, `main.c`)

`Log` has all eight builds (`LOG_MT_SAFETY`, `LOG_PRINT_ONCE`, atomic flags or not), each thread
stepping through `vlog_printf`: lock, read the flags, read the file, write part by part or put a line
together in a buffer of `LineLen` bytes, unlock. `Program` composes `Cli` and `Log` under `main.c`, every
exit of it, with server threads that wait, wake, log and are cancelled where they have cancellation
enabled; with `main = "any"` another caller uses `cli.h` in any order. `LinesWhole`: where the mutex is built in or a line is written at once, no
line is torn. `ColourCleared`: a line that turns a colour on turns it off, also
in a full buffer. `MainReleasesAll`: main uses neither a freed option nor a null pointer and leaves with
everything of the command line released, but for the array that a failed `cli_create` leaks (`cli = "leaked"`, which `main.c:26` leaves
behind); the one undefined use it may meet is the argument with the character 255 (`ub = "slot"`), both below. While server threads
exist the command line is gone. `MainTerminates`: once SIGINT came or the set-up failed, main gets through
the destruction of the server and its last message. It is about the time after `sigwait` has returned: SIGINT is blocked only in main
and only after the server's threads exist (`main.c:100`), so a signal that one of them is handed ends the process at once.
What main itself logs inside `server_create`, `server_add_plot` and `server_destroy` is `MainLogsInServer`, any
of those lines or none.
*Fairness*: weak for every thread that can run, main included; SIGINT need not come. *Bounds*: two server
threads, in the order in which `server_destroy` cancels them, and two lines from inside the server beside main's own; `LineLen` 39 is the
length at which colour, time, banner and end of colour just fill the buffer; two values of the flags, one that shows everything and one that
leaves most out.

## Runs

| Run | Shows | Distinct states |
|---|---|---|
| `sockets` | all properties of PlotSockets, failures allowed | 310 000 |
| `worker_safety` | the safety of two clients, failures allowed | 1 300 000 |
| `worker_liveness` | timers, hang-up, destroy and the clock, one client | 7 000 |
| `bstream` | order in any use, the list, refinement in the server's use | 100 000 |
| `eq_task` | generator, grammar, text, value and answers of every chain up to nine elements; answers to the other kinds | 51 000 |
| `plots` | reference counts and the gen under a plot of one to three members, any order of destruction | 12 000 |
| `pool_balance` | choice and balance with stale counts | small |
| `program` | command line, log, start and end of the program | 280 000 |
| `worker_borrow` | violation of `QuestionOutlivesBorrow` | |
| `worker_half_close` | violation of `EveryClientLeaves` | |
| `bstream_read` | violation of `ReadWithinLen` | |
| `plot_gens` | violation of `GensUsedAlive` with three members | |

`CHECK_DEADLOCK FALSE` everywhere: calls, connections, tasks and lines of an instance run out,
and a peer may simply fall silent. Type invariants are parts of the inductive invariants that
are proved; no run is spent on them.

### Where the code differs from what it says

- `worker_borrow`: the worker can destroy the question of a client in its hand-off, when the
  stream is still empty; the acceptor then borrows its text. The comment at `server_worker.c:281`
  says that nothing is borrowed any more.
- `worker_half_close`: `ANSWER_MORE` continues with the next event (`server_worker.c:354`) without
  looking at OUT and RDHUP. After a half-close IN is always ready, so the question is never sent, its
  timer never armed and the client never disconnected; `README.md:25` says plot tasks have a timeout.
- `bstream_read`: `bstream_read` does not reduce `remain` (`bstream.c:379`), so more bytes than
  asked for are delivered across buffers; the test `bstream_only_borrow.c:30` expects the exact count.
- `plot_gens`: all members share the first gen (`linear_plot_template.c:77-82`), which is used and destroyed
  after it was destroyed; line 19 says that gens of previous members were destroyed before.

Observed while modelling, in the models as the code has them, with no run of their own:

- `server_remove_plot` finds only the head of the ring (`server.c:195-210`).
- A prompt of a task without timeout is borrowed from the stack (`server_worker.c:220`).
- A timer of an answered task is not destroyed and runs on against the next one (225-266).
- A question answered before it was sent in full is overwritten and leaks (254).
- When `client_timer_setup` fails the client has no timeout (292).
- A failed write of a task's text goes unnoticed (216-221): the client gets part of it or nothing. With both writes failed its
  stream is empty; at the next `EPOLLOUT` the question is destroyed as if it had been sent and the clock is started.
- When the text of an equation cannot be allocated, line 39 of `eq_gen.c` stores its final zero through the null pointer, one line
  before the pointer is looked at (`AskFailsUnwritten`).
- An answer to an equation that arrives in two pieces is judged by its first piece (`eq_gen.c:78`): a
  right one may be found wrong, and one with a digit too many right.
- A failed pool creation stops only the first of the workers already made (`server_worker_pool.c:24-29`).
- `bstream_write` into a last buffer with room returns without adding to `total_len` (`bstream.c:281`).
- The overflow assertion at `linear_plot_template.c:51` fails for every timeout that is decremented.
- An even length is made odd by a step down, or up when it is the maximum, so it may lie one below
  the minimum (the minimum 2 gives 1) or one above the maximum (`eq.c:128-138`).
- `cli_remove_opt` leaves the option's pointer in the array of short names (`cli.c:530`).
- `cli_create` leaks the array of short names when the automatic help cannot be added (`cli.c:292-304`).
- The array of short names has 255 places and is indexed by any `unsigned char` of `argv` (`cli.c:279`, 714-716): an argument
  whose second character is `\xff` reads the pointer behind it (`MatchOutside`).
- A duplicate key leaks the node that was allocated for it (`cli_hash.c:72`).
- An option without argument stores an uninitialised `cli_opt_arg` (`cli.c:731`), and a lenient match
  whose last option lacks its argument reads past the end of `argv` (736). `main.c` meets neither.
- The default build of the log has no mutex and writes a line in parts, so lines of two threads may mix.

## Proofs

| Module | Theorem | States |
|---|---|---|
| PlotSocketsProofs | `InvariantKept` | `Spec => []IInv` |
| | `EventPointersNeverDangle`, `AcceptedOnActivePlots`, `RingsStayConsistent`, `DestroyedServerReleasesAll` | the invariants of the same subject |
| | `HandedOffFromActivePlots` | the action property `HandOffOnlyActive` |
| ServerWorkerProofs | `InvariantKept` | `Spec => []IInv` |
| | `TasksPresent`, `PolledExactlyWhilePending`, `BorrowedTextsAlive`, `ClientsWaitOnTheClock`, `DestroyedWorkerReleasesAll`, `NoUseAfterFree` | the safety invariants of `worker_safety`, and `WaitsOnTheClock` of `worker_liveness` |
| | `SessionsOnlyAdvance` | the action property `SessionOnlyAdvances` |
| WorkerPoolProofs | `ChoosesLaziest`, `StaysBalanced`, `DestructionStopsAll` | `LaziestChosen`, `Balanced`, `DestroyStopsAll` |
| BStreamProofs | `BuffersAreListed`, `BytesInOrder` | `BuffersListed`, `OrderKept` |
| | `StreamIsByteQueue` | the refinement `ImplementsByteQueue` |
| PlotsProofs | `TextsOutliveHolders`, `TextsDoNotLeak`, `CountersExact` | of Gens: `TextOutlivesHolders`, `NoTextLeaks`, `CounterCountsHolders` |
| | `PlotUsesGenAlive`, `PlotLeaksNoGen`, `PlotTextsExact` | of Plots: `GensUsedAlive`, `NoGenLeaks` and the three above |
| AnswersProofs | `BudgetKept`, `FlagsNeverZero`, `ChainsComplete` | the budget, the assertion at `eq.c:56`, complete chains |
| | `ChainsAreExpressions` | `ChainsWellFormed` |
| | `EquationsSolvedAsWritten` | `SolvedAsWritten`, and the same with any natural numbers in the chain |
| | `AnswersJudgedAsSent`, `AnswersChecksAsAssumed` | the invariant `JudgedAsSent` and the action property `ChecksAsAssumed` |
| LogProofs | `LinesStayWhole`, `ColoursCleared` | `LinesWhole` and `ColourCleared` for any threads that log |
| ProgramProofs | `ProgramLogs` | the program implements `Log` (a refinement) |
| | `ProgramLinesWhole`, `ProgramColoursCleared` | `LinesWhole` and `ColourCleared` of the program |
| | `ArgumentsReleasedOnce` | `ArgsReleasedOnce` |
| | `TheTablesAgree`, `TheShortNamesLead` | `TablesAgree`, `ShortNamesLead` |
| | `TablesImplementDictionaries` | the refinement `TablesAreDictionaries` |
| | `MainReleasesEverything` | `MainReleasesAll` |
| | `AddKeepsRing`, `RemoveKeepsRing` | rings of listc.h of any length stay rings, in order |

All hold for every value of the constants under the assumptions stated in the modules:
at least one buffer, some capacity and more addresses than buffers that can be in use at once (BStream; the addresses
are then a bound on memory that no run meets),
threads are distinct from each other and from `None` or `NoThread` (PlotSockets, Log, Program), `NoClient` is no
client and a plot has a task (ServerWorker), at least one worker (WorkerPool), fewer objects than values of the counter (Gens; this is what keeps it from wrapping),
operations among the three of the program (EqGenerate), option names and help strings that are what `cli.h` and
`cli.c` say of them (`CliStringsOK`; nothing of the hash but that it is a function), at least one option of main, each with an argument as in `main.c`, and
for `ColourCleared` a line buffer of 39 bytes or more, the room that colour, time, banner and end of colour
take; `CMakeLists.txt` sets 1024. No bound on sockets, calls, connections, workers, tasks,
questions, buffers, bytes, clients, pieces of input, options, buckets, calls, tokens, lines or lengths is used.

*The argument for PlotSockets.* `EventPointerValid` is not inductive: that the pointer is
allocated follows only from where it may point. `EventInv` says that between `epoll_wait` and the
check the event is in one of the two rings, that after a positive check it is listed, and after
a negative one parked. This needs mutex exclusion (`MutexInv`), because a removal between check and
cleanup would break it; that rings hold each socket once and never a socket still owned by a call
(`RingInjective`, `PendingInv`), because the error path of an addition frees its socket; and that parked
sockets are freed only by the acceptor's cleanup after its check, or after the join. `OwnedInv` and
`ConnInv` carry `DestroyReleasesAll`. Two lemmas on `Append` and `Tail` give the elements of the ring,
one lemma per action the preservation, `NextKeeps` the step, and temporal logic the rest.

*The argument for ServerWorker.* The clients do not meet each other, so the invariant is about one record,
the stage of that client's hand-off, and the task in the acceptor's local variables. `AnyOK` holds of every client:
until the acceptor has set the task the worker can do nothing but disconnect (`Fresh`); from then on the current task is
the one last given, and if its question lives it is the one recorded, except between the two assignments of
the hand-off. `CalmOK` is what more is known of a client outside `early`: no event of it is taken
before the hand-off is through, so mask, stream, question and timer tell one story (`Polled`, `Borrowed`, `Timed`).
`WorkerInv` ties the event in the worker's hands to the record: it is of a client that was made, a living one
unless `early`, and its timer is armed. It is where `TaskPresent` matters, since a timer handler advances to the
next task without looking. One lemma per operation gives the fields of its result, one more that `AnyOK` and
`CalmOK` survive it; `HandlerKeeps` and `HandOffKeeps` put a record back among the others. `SessionsOnlyAdvance` uses
the same operations with `Advances`.

*WorkerPool.* `ScanInv` says that the minimum is the minimum of what was read, and that no
worker has more clients than when it was read, since only the acceptor adds. *Gens.* `GensInv` joins exactness of
the counters with `PlaceInv`, which text may exist and what a living question was asked of; the lemmas
`TakeCounts` and `PutCounts` relate the counter's changes to the cardinality of the set of holders.
*Plots.* With a plot above the gen each step is one of Gens' or leaves its variables alone; `PlotInv` says how far the plot is: the
first `n` gens made (`Making`), tasks of the first member owed (`Giving`), all given and the gen gone (`Given`), the plot gone (`Over`), or a
dead gen used (`Undefined`). `DestroyedEach` and `DestroyedFirst` count how often a gen is destroyed by a sequence of `gen_destroy`.

*BStream.* The bytes that are written are numbered. `BStreamInv` says that there are the addresses `s` of the list and
numbers `e[0] <= e[1] <= ...` such that the list links `s` and the i-th buffer holds the bytes after `e[i-1]` up to
`e[i]`, from what was read to what was written; `total_len` is their number as long as the stream is used as the server
worker does. Each operation cuts a run at its front or adds one at its end. That buffers in such
an order flatten to one run of bytes, and that a walk of the list meets its items, are inductions over their
number; the module does them with the least number for which they fail. TLC has checked `BStreamInv`, with its
witnesses, on all states of `bstream`.
*EqGenerate.* `Budget` is an equation between the remaining length and the counters, by cases on whether an operand
or an operator comes next; in each case some flag is set. `ChainInv` adds what the counters alone do not say: which
element may follow which, that no prefix closes more braces than it opens, and that `br_r_avail` is the number of open ones.

*EqSolve and EqPrint.* What is defined by recursion (depth, grammar, the value of a text, `eq_solve`, digits, printing,
reading) is a recursive function, so `CHOOSE` of a function that solves an equation; nothing is known of it until such a
function is shown to exist. `FixedPoint` shows that once, by repeating a map in which each value depends on
those of smaller arguments only; for each definition one more lemma gives the measure (`CalledAgrees`: the
rules of `eq_solve` call each other on a shorter rest of the chain, or on the same rest in the order of the grammar).
*The chain.* `ExpressionsBalanced` and `ExpressionsSplit`: an expression is balanced, and the last operator of the lowest
precedence outside every brace splits it in two expressions; `NestedIsExpression` is the converse that makes a finished
chain of `ChainInv` one. *The solver.* `PartsParsed`, by induction over the length of a part: called at the beginning of
an expression, followed by its end, a closing brace or an operator its loop stops at, each rule of the grammar stops at that end
with the value of the reference definition; `SolvesExpressions` is the whole chain. *The text.* `LengthOfDigits` is the
arithmetic of `int_len`, `SizeOfText` that of `eq_calc_str_size`; `NumberRead` and `ReadAsPrinted`: since no number stands beside another,
a reader of the text finds the elements that were printed, with their numbers.

*Answers.* `AnswersInv` says how much was sent, arrived and taken, and what of it is in `user_answer`: a check moves at most what
is missing, so what is collected stays a prefix of what was sent. For an equation `RightValue` ties the value of `eq_solve` to that
of the text the peer was shown, and `NumberEnds` says where `gmp_fscanf` stops.

*Log.* Whoever is between lock and unlock owns the mutex (`MutexOwned`); numbers of lines in the making
differ; nothing of a line that was not begun is in a file, and what is there of a line being written is the
end of the file, so the next part joins it. With `LineLen` of 39 or more colour, time, banner and end of colour
fit before the text, whatever else is shown (`AllCopied`), so only the text is cut; `ColourInv` adds that a line about to be
written is one of the shown forms (`LinesPrepared`). *Program.* Each action of the program is one of the log's or leaves its
variables alone; the only fact needed of the rest is that `log_lvl` is a value of the flags. *ListC.* A ring is a sequence of
distinct addresses each of whose pointers leads to its neighbours; the lemmas give the neighbours before and after.

*Cli, the arguments.* `ArgsInv`: while only options with an argument were matched, each option in the match has one
argument that was parsed, no two have the same, what was released was parsed and is in the match no more, and in a strict
match every parsed argument is in the match or was released. A new argument is a new number, and every way out of `cli_match` empties the match.

*Cli, the registry.* A ring of `listc.h` is a sequence of addresses, as above; a table is a ring of nodes for each bucket,
with the keys in their own buckets and no key twice (`InsertKeeps`, `RemoveKeeps`, `GetIs`). `RegInv` says that the rings
of options, both tables and the living nodes are the same options, and `ShortOf` the same of the array of short names but for
the `lost` ones. An option is prepared outside (checked against every name), put in, and taken out again where a
later step fails; the difficult one is the undo of `cli_add_opts`, which removes by id what was added before the
refused option: `Taken` says that what was added are the first options of the list, so that each is found and no option that
was there before is touched. `CliKept` is the step; from it `TablesAreDictionaries` follows with one entry more or less.

*main.* `MainInv` says at each place of main what there is of the command line: nothing, an idle registry, a list being
added, a match, or nothing again. Main's options all have an argument (`OnlyArgs`), and no short name is lost between
a completed `cli_add_opts` and the end of the match, so the match finds only living options (`FoundLives`) and no
uninitialised argument (`NothingGarbage`). `FileInv` says that nobody logs before the file is set, and that whoever goes on to write has read it.

Every safety property of the passing runs is stated by a theorem above. Only model-checked: liveness, which
is `DestroyTerminates`, `NoConnectionStuck`, `TimerResolves`, `HangUpDisconnects` and `MainTerminates`; and what the runs
that expect a violation show. PlotsProofs is about plots of any number of members, up to the first use of a dead gen. For one member
that never comes; for the three of `troll_eq_plot_create` it does, as `plot_gens` shows, and the theorems say when at the earliest.

## Not modelled, and why

Additions to lists at the front or beside an element, and backward walks (no user); the layout of the help text; numeric
conversions of arguments (`cli_convert.c`; pure functions of strings over `strtol`, whose result is any value the
option's type holds; that trailing characters after a number are accepted is theirs); the format of times and messages in the log; the utility
macros (no state); `cli_storage_patricia.c` and `pthread_assert.h` (not built or not used); GMP arithmetic (numbers are plain
integers); descriptor numbers, so that a descriptor closed by `client_disconnect` and again by the acceptor
(`server.c:96`) is not seen; the plain counter of `rcmem` used by two threads during a hand-off.

## Plan

Done, in this order: PlotSockets and its proofs; ServerWorker and proofs; ByteQueue, BStream and the refinement;
EqGenerate, EqSolve, EqTask and the budget proofs; Gens and proofs; LinearPlot; WorkerPool and proofs; lists
with pointers under BStream and the command line; Cli and its tables; Log and proofs; Program and the refinement;
Plots; EqPrint and Answers;
BStream's proofs and refinement; Plots' proofs; the colours of the log; arguments, tables and dictionaries of Cli; what main releases; the grammar, the solver, the text and the
checks of answers.

Next: descriptor numbers reused by the kernel; the acceptor, the pool and a worker composed.
