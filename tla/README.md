# ribs2 in TLA+

ribs2 is a C library for backend services.  One process runs one event loop;
the work is done by *contexts* (fibers with stacks of their own) that swap to
each other explicitly, so code between two `yield()`s is never interrupted.
What is hard about the concurrent part is what may have happened *during* a
`yield()`: which events were consumed, which contexts have ended, which
descriptors were closed, reopened, or linked into another list.  Around it the
library has data structures in memory and in mapped files, clients for MySQL and
mail, parsers and encoders.  What is hard about those is growth, removal, reopening
after a crash, calls that fail half way and input that ends too soon.

The modules here stand for about 5,950 lines of the C code, a third of it (tests,
examples and headers counted).  `PROJECT.json` maps every definition to its lines
and lists the hazards of the code, with the line where each bites and the properties
that would catch it.

## The system and its modules

| Part | Modules | Interacts with |
|---|---|---|
| event loop, contexts (`epoll_worker.c`, `context.c`, `ribify.c`) | EpollWorker, Lists, EpollWorkerProofs, HandOverProofs | everything |
| timeouts (`timeout_handler.c`, `list.h`) | Timeouts, TimeoutHandler, TimeoutHandlerProofs | server, client pool, mail |
| HTTP server (`http_server.c`, `ctx_pool.c`) | HttpServer, HttpServerProofs | loop, Timeouts, context pool |
| HTTP client pool (`http_client_pool.c`, `ctx_pool.c`) | HttpClientPool | loop, two Timeouts, context pool |
| timer workers, sleeps (`timer_worker.c`, `sleep.c`, `ribify.c`) | Timers, Sleep | loop |
| service monitor (`examples/ribeye`) | Ribeye (extends Timers) | timer workers, client pool |
| processes and signals (`daemonize.c`) | Daemonize | kernel, context queue |
| mail client (`sendemail.c`) | SendEmail | timeouts, a mail server |
| MySQL (`mysql_pool.c`, `mysql_helper.c`, `mysql_dumper.c`) | MysqlPool, MysqlHelper, MysqlDumper | libmysqlclient, buffers, columns |
| file server (`http_file_server.c`) | HttpFileServer | files, other processes |
| hash tables (`hashtable.c`, `thashtable.c`, `lhashtable.c`, `hashtable_vect.c`) | Probing, HashTable, THashTable, LHashTable, HashTableVect; Multimap | mapped files |
| buffers and files (`vmbuf.c`, `_vmfile.c`, `vmallocator.c`, `ringbuf.c`, `ringfile.c`, `_file_writer.c`, `ds_var_field.c`) | VmBuf, RingBuf, RingBufProofs, RingFile, DsVarField | mapped files |
| memory of fibers (`memalloc.c`, `mempool.c`, `ribify.c`) | MemAlloc | contexts |
| heap, searches (`heap.c`, `search.c`, `binary_search.h`) | Heap, Search, SearchProofs | |
| text (`json.c`, `json_dom.c`, `base64.c`, `_uri_*.c`) | Json, Codecs | |

### The event loop and what waits in it

**EpollWorker** is the scheduler.  `current` is `current_ctx`, `last_fd` is
`last_epollev.data.fd`, `fd_map` is `epoll_worker_fd_map`, and `ep_ready` epoll's own
list.  Fibers have no particular program: they receive, call `courtesy_yield` or
hand over to a new fiber, in any order.  The queue of contexts is a pipe, with the
kernel's page granularity: it can be writable without being reported writable.
`AwaitRoom` and `WakeFromFull` are the two halves of the loop in
`queue_context_swap` around its `yield()`.  **Lists** has the few operators on
sequences it is written with.

**Timeouts** is what a timeout handler promises: a linked descriptor may be shut
down at any moment, and is if it stays linked.  It has no clock.
**TimeoutHandler** is the code: a chain in insertion order, a timestamp per
descriptor and a single timerfd, armed by `timeout_handler_add_fd_data` only when
the chain is empty and by `expiration_handler` for what its scan leaves.
Timestamps are kept as ages (`now - timestamp`).  The wall clock they come from
may be stepped; the timerfd, on the monotonic clock, does not notice.
`ImplementsTimeouts` shows that it implements Timeouts, with
`linked <- the set of the chain` and `shut <- epoch`.

**HttpServer** composes the acceptor, the idle handler and the request fibers with
Timeouts, the context pool, the descriptor map and edge-triggered sockets.  An
action of a fiber reaches from one possible suspension to the next.  Data is
counted in units (a request of two, a response of a header and a payload), enough
for partial reads and writes at every boundary.

**HttpClientPool** composes callers, clients and the idle lists with two Timeouts,
which share one link and one timestamp per descriptor, as in the code.  Callers
send and yield for several responses (`"send"`), or switch to the client directly
and reuse it (`"swap"`, as `examples/httpget` does).

**Timers** has timerfds and the workers that are started afresh on their own stack
whenever one expires; `cut` remembers workers restarted in the middle of a run.
**Ribeye** is the service monitor on top of it: a probe arms its timer when it is
over, `/down?t=N` arms the timer that switches the service up, with the product
`t * 1000 * 1000` in the width of an int.  **Sleep** has fibers that sleep on a
timerfd of their own or of the call, which nobody reads.

**Daemonize** has the launcher, the main process with what runs on its thread
(event loop, signal fiber, or the fiber that one resumed), sub-processes, and
workers that fibers fork and wait for.  Pending signals are a set.  Any process may
die at any moment, and SIGTERM and SIGINT arrive at any moment.

### Clients

**SendEmail** is one call of `sendemail2`: stages of the SMTP dialogue, commands
and a body written in parts, replies of one or more lines that arrive in pieces.
**MysqlPool** has the idle lists by login; `mysql_pool_get` takes a connection in one
step and connects it in another, since connecting suspends the fiber and may fail.
**MysqlHelper** has the life of
statements: bindings are identified with the capacity of the mapping they point
into, because it moves only when it grows, and every call of the library may fail.
**MysqlDumper** writes a result to one file per column.  **HttpFileServer** is the
handler of the file server, in several processes, each system call a step.

### Data

**Probing** has the operators of open addressing that the four tables share.
**Multimap** is what they promise; **HashTable**, **THashTable** and **LHashTable**
implement it (`TablesAreMaps`), with the map read off by
probing.  The hash function is a variable chosen at the start.  LHashTable also has
blocks, free lists and a process killed inside an operation; **HashTableVect** has
no removal, and files that are opened again.

**VmBuf** has the four kinds of growing buffer as one record with the location, the
capacity, the end of what was stored and the length of the file.  **RingBuf** is the
ring in a double mapping, with a history of the records in it; **RingFile** the ring in
a file, with the resize one system call at a time and a process that may be killed
between any two stores.  **DsVarField** is a column of rows of varying length, with the
window of the file writer. **MemAlloc** has chunks by size, the blocks of fibers, and
the count by which memory of libraries outlives its fiber, whichever fiber frees it.
**Heap** has locations, indices and keys as the code keeps them.  **Search** takes one
step per turn of the loop.

**Json** feeds both parsers the same document token by token and follows it by the
JSON grammar; illegal documents are included.  **Codecs** has the conversions as
functions on sequences of bytes, and enumerates inputs.

**MCFibers**, **MCData**, **MCServices** and **MCServing** instantiate components
that do not interact for one run: the initial state chooses one component (`which`), and the
variables of the others stay as they were.  The properties of a component are stated
in its module; these modules gather the ones that are about the same kind of
mistake, as `FilesSurvive` gathers what every component with a file promises of it
after a crash.  **MCHttpClientPool** and the other `.cfg` files instantiate one
component each.

## Runs

State counts are distinct states.  Every passing run explores its instances
completely.

| Run | Instances | States |
|---|---|---|
| `fibers` | 3 fibers with all operations, a pipe with room for 2; a server with 3 connections, 2 at a time | 1,563,170 |
| `client` | 2 callers, 2 requests each, 2 connections, both uses | 1,851,043 |
| `client_live` | 2 callers, 2 keys, 1 list head, 1 descriptor, all responses | 131,487 |
| `serving` | the server with all kinds of requests and replies; the server with fewer descriptors than connections and one ENFILE; a daemon with 2 sub-processes and 2 fibers that fork | 37,240 |
| `services` | timeouts (3 descriptors), 8 fibers with a pipe of 2, the monitor, sleeps, the mail client, the MySQL pool, searches | 78,911 |
| `data` | the fifteen components of MCData | 514,618 |

What they show, by hazard:

* **No context is lost.**  QueuedKept, NoLostWakeup, PipeReadsPipe (`fibers`),
  `courtesy_yield` included.  **None is doubled or resumed after its end.**
  EpollWaitersKept (`services`: WaitersStacked, QueuedOnce, NoResumeOfFinished), as
  long as no fiber calls `courtesy_yield`.
* **A timeout comes, in time.**  IInv, PromptExpiry, ImplementsTimeouts (`services`).
* **Connections and contexts agree.**  LinkedIffWaiting, EventsReachOwner, PoolExact
  (`fibers`), NoLostEdge, WholeResponse, ClientsServed (`serving`); OneChain,
  ReportedOnce, NoLostEdge, EventsReachClient (`client`), PoolExact, RequestsReturn
  (`client_live`).
* **No process is left over or unnoticed.**  DaemonKeepsCount gathers
  NothingLeftRunning and OwnWorker, DaemonLearns gathers DeathNoticed, WaiterResumed
  and LauncherAnswered (`serving`).
* **Timers restart nobody in the middle of a run, and whoever waits is released.**
  TimersNotEarly (NotCutShort and DownHolds of Ribeye, NotEarly of Sleep),
  MonitorReports (StatusEarned, SteadyReported, ProbedForever, UpAgain) and
  WaitersReturn, for fibers, sleeps, mail and searches (`services`).
* **Dialogues are kept to, and success means success.**  EmailFaithful
  (SentMeansAccepted, BodyExact, SocketClosed), PoolAccounted (OneUser,
  LostPerLogin) (`services`); ResultsInPlace (OneStatement, BindingsCurrent,
  TerminatorsApart, StampsBound of MysqlHelper, ColumnsInStep and SuccessIsComplete
  of MysqlDumper) (`data`).
* **What was stored is found, and nothing else.**  TablesReachRecords and
  TablesAreMaps for the hash tables, HeapKeepsItems (LocationsOnce, ItemsKept,
  TopIsGreatest), RingFifo (`data`); AnswerRight (`services`).
* **Stores stay inside, and memory has one owner.**  BuffersInside (StoresInside,
  FileBacksMapping, RoomLeft), MemoryKept (ChunksOnce, AllocationsApart,
  UsedMemoryKept) (`data`).
* **Files survive crashes and readers see all or nothing.**  FilesSurvive (FileFifo,
  ResizeKeepsNewest and ReservedKept of RingFile, StoresInWindow, AllRowsOrNone and
  ClosedLoads of DsVarField, TornReported of LHashTable, ValuesInOrder of
  HashTableVect, DataFoundAgain of VmBuf), FileServesCurrent (ServesCurrent,
  DescriptorsClosed) (`data`).
* **Parsers name, accept and invert correctly.**  JsonUnderstood (MemberNamed,
  Verdicts, TreeLinked, IndexFindsLeaves), TextRoundTrips (`data`).

Several are stated with an exception, which the comment above the property gives:
each is a case in which the code, as modelled, does not keep the property.  They are
the places to look at first:

* a SIGINT that interrupts `waitpid` leaves a sub-process unreaped
  (`daemonize.c:352`), a sub-process may ask for the death signal after its parent
  has died (`:250`), and a death before `_set_signals` is not signalled (`:223`);
* `_http_server_sendfile` of a file that shrank sends nothing and never fails; the
  fiber yields again at every timeout and its connection is not closed
  (`http_server.c:131`);
* `hashtable_vect` may lose entries when it grows (`_hashtable_vect.c:26`), and in a
  file that is opened again (see `vect_reopen` below);
* `heap_remove_item` and `heap_remove` can leave the heap out of order
  (`_heap.c:69`); and `heap_remove`, given the location `heap_insert` returned as
  `heap.h:62-64` shows it, looks its index up in `key`, where a move may have left a
  location (`_heap.c:48`), and then takes another item out;
* `vmbuf_memcpy`, `vmbuf_memset`, `vmbuf_alloczero` and `vmallocator_alloczero` store
  after a growth that failed (`_vmbuf.c:180`);
* `ribified_free` lowers the count of the fiber that runs, not of the one that
  allocated: what a library then keeps from that fiber is reused (`ribify.c:200`);
* a process killed between the two stores of a location that went round leaves a ring
  file that seems to hold a whole capacity more (`_ringfile.c:68`);
* a string column that has been NULL since the statement was executed is terminated
  at an uninitialised length (`mysql_helper.c:770`), and timestamps of failed calls
  fill `time_buf` (`:632`);
* the first use of a login loses one connection (`mysql_pool.c:87`);
* closing the file of a fixed column may fail unnoticed (`mysql_dumper.c:307`), and
  `file_writer_write` returns success when it could not make the file longer
  (`_file_writer.c:110`);
* a compressed copy is served later though it could not be finished
  (`http_file_server.c:187`) or another process is still making it, and so is one made
  in the second in which the file was edited;
* `json_dom_parse` accepts documents that are cut short (`json_dom.c:171`), both parsers
  refuse a document that is one number or name and nothing behind it, and the sum in
  `lower_bound` wraps for more than 2^31 members (`search.c:26`);
* periods of more than 2147 seconds do not fit in ribeye's int (`ribeye.c:246`).

### Where the code disagrees with its comments

Six runs each show one property violated.

* `epoll_courtesy` (NoResumeOfFinished, `epoll_worker.c:174`).  `courtesy_yield`
  saves a context pointer and then queues itself.  If the pipe is full that call
  yields, and the saved context may return before it is swapped to.
* `server_enfile` (AbleToRefuse, `http_server.c:397`).  If the system's file table
  fills up while the reserved descriptor is given up, it is not opened again, and
  a server out of descriptors leaves clients waiting instead of refusing them.
* `client_idle` (IdleCloses, `http_client_pool.c:81`).  A close by the server that
  arrives with the end of a response is consumed with it: the read stops at the
  end of the response, and the closed connection is pooled with no event left.
* `client_shutdown` (NotAlreadyShutdown, `http_client_pool.c:620`).  A timeout that
  races the response shuts the connection down; `http_client_free` gives it a new
  timestamp, which hides that from the test made before reuse.
* `email_multiline` (RepliesWhole, `sendemail.c:65`).  `read_data` looks for the dash
  of a continuation line behind the last CRLF instead of before it.  A reply of
  several lines that is received in pieces is taken for complete too early, and the
  dialogue goes on one reply behind.  SentMeansAccepted still holds: a message is
  not reported as sent unless the server took it, but a refused recipient can be
  missed.
* `vect_reopen` (FoundReopened, `hashtable_vect.c:65`).  `hashtable_vect_open` sets the
  write location of the entries as if they held no keys and began at offset 0.  The
  next insertion goes over an old entry, or to offset 0, which means "empty".

### Bounds

Two connections or clients at a time are what it takes for one to be mistaken for
another: a context reused, a descriptor number reopened, a stale map entry.  The
third connection or request reuses what the first two left behind.  A pool that
grows by one context grows in the runs.  Three entries give a chain a middle.  With
eight fibers and a pipe of two contexts several fibers wait for room at once.  With
two contexts in the pipe of `fibers` a context can be in it twice.

Tables start with four buckets (two in HashTableVect) and grow at least once; hash
values share a bucket, differ above the mask only, and lie at the end of the table so
that chains wrap.  The ring has five units for records of two, so that both locations
go round at every offset.  Buffers grow at least twice and reach the capacity beyond
which they cannot grow.  DsVarField's rows and its table of offsets cross windows.
JSON documents have up to the bound on tokens that lets blocks nest and a member
follow a nested block.  The alphabets of Codecs have a byte of every class the code
distinguishes.  One crash or failing call at each possible step is enough for each
path of the recovery; where two interact (RingFile's leftover file) the bound lets the
second operation happen.  Words are smaller than in the code (Wrap, IntMod, Page,
Word), with the same relations between them.

Symmetry is used in the runs without liveness: descriptors of the server, descriptors
and callers of the client pool, and fibers of MemAlloc are told apart by no definition.

Deadlock is not checked where a bound on operations, connections or requests stops
the system.

In `fibers` a fiber may call `courtesy_yield`, and a finished fiber can be resumed as in
`epoll_courtesy`.  The model has no step for such a fiber, so that run, and the proofs
of its properties, say nothing about what happens after one was resumed.  `services`
(EpollWaitersKept) shows that fibers which do not call `courtesy_yield` are not resumed
after their end.

### Fairness

* Code that has the processor goes on until it yields (weak fairness of the steps
  of fibers): nothing preempts it.
* epoll reports every edge in the end (strong fairness of `Dispatch`, since an edge
  waits in line while other contexts run): its ready list is a queue, which
  EpollWorker models as one.
* timerfds are level triggered and time passes (TimeoutHandler, Timers, Sleep).  The
  server, the client pool and the mail client use only the promise of Timeouts.
* The user function of a request returns, and is resumed if it was suspended; the
  client pool resumes a probe of the monitor (RequestsReturn).
* In EpollWorker, every peer eventually sends.  Nothing is assumed of the clients
  of the server or of the servers of the client pool and the mail client.
* Processes that can run do, and `waitid` passes no ended child over for ever
  (Daemonize).

## Proofs

`TimeoutHandlerProofs` proves, for every set of descriptors, every positive timeout
and all bounds:

* `Invariance`: `Spec => []IInv`;
* `PromptExpiryHolds`: without clock steps, no live connection is overdue unless an
  expiration is waiting to be handled;
* `ArmedWhileLinkedHolds`: the timer is never left disarmed with a descriptor
  linked, clock steps or not;
* `RefinesTimeouts`: every step is a step of Timeouts or a stutter.

PromptExpiry is not inductive.  The timer is set for one entry, the first fresh one
the scan meets, and not again when others are linked behind it.  That is enough
because the chain is sorted by age (`ChainSorted`), so that the timer covers every
live entry (`DeadlineCovered`) and is never set for more than one period
(`WithinPeriod`).  `IInv` is the conjunction of these with the types and
`ArmedWhileLinked`.  The proof that it is inductive has one step per action.
The assumptions are those of `TimeoutAssumption`: a positive timeout, and ages that
saturate no lower than it.  A timeout of 0 would disarm the timerfd.

`EpollWorkerProofs` proves the three properties of the loop in the run `fibers` for
every number of fibers, every size of the pipe and every set of operations:
`QueuedNotLost` (QueuedKept), `WakeupsKept` (NoLostWakeup) and `PipeOnly`
(PipeReadsPipe).  The inductive invariant `EInv` adds to them that the descriptor map
is exact for sockets (`Map`), so that the event `epoll_wait` takes off its list is
delivered to the fiber that needs it; that a descriptor is in that list once; and that
the pipe's reader, and a fiber that waits for room, are resumed only after an event of
the pipe (`LastEvent`).  `queue_context_swap` has a lemma of its own (`Queues`), which
the three operations that call it use.  `HandOverProofs` proves `WithoutCourtesy`: if no
fiber calls `courtesy_yield`, fibers are queued once, are not resumed after their end,
and wait for room in one stack.  Its invariant `NInv` says that each fiber of the stack
is to swap to a fiber of its own that has not run yet, which is what `courtesy_yield`
breaks.  The assumptions are those of `EpollAssumption`: at least one fiber and a pipe
with room for at least one context.

`HttpServerProofs` proves the three properties of the server in the run `fibers` for
every set of descriptors, every number of contexts and requests and every size of the
buffers: `LinkedWhileWaiting` (LinkedIffWaiting), `EventsDelivered` (EventsReachOwner)
and `PoolNeverLeaks` (PoolExact).  None is inductive alone.  A context taken from the
pool serves nobody only because the free list is exact; the fiber an event resumes is
one that waits only because the map is; `timeout_handler_add_fd_data` finds its
descriptor unlinked only because the chain agrees with both.  `AInv` states all of it
from the side of the fibers (`Map`, `Chain`, `Pool`) with the little that is needed of
the types (`Shape`); what sockets hold does not matter.  There is one lemma per way a
handler can change the invariant: a fiber goes on (`Moves`), returns (`Returns`), is
switched to (`Switches`), gets a context (`Gets`, `Wakes`), a connection is accepted
(`Accepts`), or only epoll's ready list changes (`EdgesOnly`).  That the pool grows only
while there are fewer contexts than connections is an injection from busy contexts to
the other descriptors (`AllBusy`).  The assumptions are those of `ServerAssumption`:
finitely many descriptors and at least one, and a pool that may hold at least the
contexts it is created with.

`RingBufProofs` proves `RingIsQueue`: for every capacity and record size with
`RecSize <= Capacity`, locations stay inside the double mapping and records come out
whole and in order.  The invariant `Good` says that the units from the read location
on hold the history, record by record.  `Dropped` keeps it when both locations jump
back by the capacity; `StoredAfter` keeps it because two offsets less than a capacity apart
are two units (`UnitsApart`).

`SearchProofs` proves `SearchesRight`: for sorted arrays of every length that fits the
arithmetic, what the two searches return is right.  The loop invariant SearchInv says
which members have been passed; `MidInside` is where the width of the sum matters.

Only model-checked: all liveness, the fairness half of ImplementsTimeouts included
(fairness is out of the prover's reach); the server's TypeOK, NoLostEdge and
WholeResponse; and the safety of the other modules.

## Not modelled

* TLS (`ribs_ssl.c`) and compression (`ribs_zlib.c`): wrappers whose behaviour is that
  of their libraries.
* Virtual hosts, headers, cookies, MIME types, directory lists: lookups in tables built
  once, and formatting.  Parsing of requests and responses is a choice among kinds.
* Loaders, code generation, file mapping (`ds_loader.c`, `code_gen_ds_loader.c`,
  `var_index_gen.h`, `file_utils.c`): read-only mappings and directory walks without a
  protocol.
* `kmeans.c`: floating-point arithmetic.
* `timer.c`, `object_pool.h`, `bitvect.h`: not used by other parts of the repository.
* The logger, the test harness, most of the examples.
* Pipelined requests; a user function that goes on to other work after sending a file;
  a caller of the client pool that yields between a client's return and its reuse;
  `http_client_get_file`, which takes the steps of a client on the caller's own stack.
* Failure of memory allocation, except for growing buffers; failure of fork.
* Ring buffers with records of different sizes; records of `lhashtable` larger than a
  block; the file-backed mode of `hashtable`.
* Transactions of MySQL and generated SQL.
* Sleeps and timeouts of zero, which disarm the timerfd.
