# YjcServer 2.0 in TLA+

Models, model checks and proofs for YjcServer 2.0, an HTTP server framework on
C++20 coroutines and io_uring. Paths below are relative to `src/`; `BaseNet/x`
is short for `YServer/BaseNet/src/x.cpp` or `YServer/BaseNet/include/BaseNet/x.h`.

## The system

`Engine` (WebFrame) owns an `http_server`, which owns a `thread_pool`.
`http_server::listen` starts one coroutine per pool thread; each moves to a pool
thread by `co_await schedule()`, makes a `thread_worker` there, and runs its
`event_loop` for ever. A worker shares nothing with the others: its io_uring and
its buffer ring are `thread_local`, and each worker has a listening socket of
its own on the same port (`SO_REUSEPORT`).

| component | state | operations | used by |
|---|---|---|---|
| `thread_pool` | mutex, condition variable, queue of handles, stop flag, threads | `schedule`, `thread_loop`, destructor | `http_server` |
| `thread_worker` | listening socket, frames of `accept_client` and `handle_client` | `event_loop` | `http_server` |
| `server_socket`, `client_socket` | descriptor; multishot accept guard | `accept`, `recv`, `send` awaiters | `thread_worker`, `http_response` |
| `io_uring` | submission and completion queues | `submit_*_request`, `submit_and_wait`, iteration, `cqe_seen`, `add_buffer` | sockets, `buffer_ring`, `thread_worker` |
| `buffer_ring` | ring of buffers shared with the kernel, loans | `register`, `borrow`, `return` | `thread_worker` |
| `http_parser` | text received so far | `parse_packet` | `handle_client` |
| `http_message` | request; response, its socket and message | `send`, `serialize` | `Context` |
| `file_descriptor`, `pipe`, `splice` | an owned descriptor | close, move, splice loop | sockets |
| `task`, `sync_wait` | coroutine frame, detached flag, caller; wait flag | resume, detach, `co_await`, `sync_wait_all` | everything |
| `Config`, `ConfigVar` | registry of variables; value, listeners | `Lookup`, `LoadFromYaml`, `setValue`, listeners | the application |
| `Engine`, `Router`, `Context` | routes | `Get`, `Post`, `Run`, `ServeHTTP` | the application |

How they interact: frames put requests into the submission queue, each carrying
the address of the frame that awaits it; the kernel answers in any order; the
event loop resumes the frame named by each completion. A frame's destruction
(`handle_client` at end of file, `send` when its response has left) and the
closing of a descriptor are ordinary steps of resumed frames. The kernel reads
response memory and fills ring buffers at any time in between.

### What is hard about it

- A thread that decides to sleep while another pushes a handle, and a destructor
  that notifies without the mutex.
- Requests name a descriptor by number and a frame by address; both are reused.
- `send` frames are detached and outlive the handler that started them.
- The submission queue, the buffer ring and the descriptor table have limits,
  and the code looks at none of them.
- Errors: most negative results are not looked at, or taken for something else.
- Responses may be sent in parts.
- A coroutine's frame is owned by its task object, by itself once it is
  detached, and is used by whoever awaits it; the three may be on three threads.
- The registry of configuration variables and each variable have mutexes that
  are taken in either order, and the loader takes none of the first kind.

`PROJECT.json` lists these and the others line by line ("hazards").

## The modules

| module | models | checked by | proved in |
|---|---|---|---|
| `ThreadPool` | `thread_pool` and the coroutines that await `schedule()` | itself | `ThreadPoolProofs` |
| `IoUring` | the wrapper's queues, as operators over four variables | with `ThreadWorker` | |
| `BufferRing` | the ring's slots, `add_buffer`, borrow and return | with `ThreadWorker` | |
| `ThreadWorker` | a worker: frames, descriptors, messages, clients and the kernel; extends the two above | `MCThreadWorker` | `ThreadWorkerProofs`, `WorkerFramesProofs` |
| `Listen` | `http_server::listen`, its tasks and `sync_wait_all`, on a pool as `ThreadPool` promises it | itself | `ListenProofs` |
| `Task` | `task` and `sync_wait`: frames, who owns, resumes and destroys them, for any programs | `MCTask`, with programs that start each coroutine in one place | `TaskProofs` |
| `Splice` | `open`, `pipe`, `splice` and the `file_descriptor`s they make | itself | `SpliceProofs` |
| `ConfigVar` | the variables: `setValue`, `addListener`, `delListener`, their mutexes and their common counter | with `ConfigRegistry` | `ConfigProofs` |
| `ConfigText` | what `LexicalCast` reads and writes, `listAllMember` | with `MCConfig` | |
| `ConfigRegistry` | `Lookup`, `Visit` and loading, on top of `ConfigVar`, which it extends | `MCConfig`, with the texts of `ConfigText` | `ConfigProofs` |
| `HttpExchange` | one connection of an `Engine`, on text: parser, router, response | `MCHttpExchange` | `HttpExchangeProofs` |
| `HttpService` | what `HttpExchange` promises, without text: each request gets one answer of the right handler | through `HttpExchange` | but for fairness, `HttpExchangeProofs` |

### ThreadPool

State: where each thread is in `thread_loop` (`pc`), which coroutine it runs
(`running`), the queue, the mutex, the stop flag, what the pool's owner is doing.
Under the mutex only the stop flag can change, so the locked parts are single
steps. What stays apart: the test of the stop flag outside the lock (`Check`),
the lock (`Lock`), the false predicate (`DecideToSleep`) and the sleep that
releases the mutex (`Sleep`), spurious wakeups, and the three stages of the
destructor: `RequestStop` and `WakeAll`, neither under the mutex, then the
destruction of the members in reverse order of declaration (`DestroyMembers`,
`Join`). A resumed coroutine ends (`Return`), awaits `schedule()` again
(`Reschedule`), or, when it is `Endless`, keeps its thread, as a worker does.

Using the queue after `DestroyMembers` is undefined in C++; the model loses the
handle that is pushed.

### IoUring and BufferRing

The submission queue is bounded by `SqEntries` (2048 in the program);
`HasRoom` is what `io_uring_get_sqe` answers and nobody looks at. The
completion queue is not: the kernel keeps what does not fit. `begin_end` fixes
the batch that a `for` over the ring visits.

`BufferRing` keeps what each slot names, the slot the kernel takes next and how
many are offered. `add_buffer` does what the code does: it writes at the
buffer's id as offset from the tail and advances the tail by one.

### ThreadWorker

Each suspension point has one request, and each completion one action:

| code | actions |
|---|---|
| `accept_client` | `Accepted`, `AcceptedError`, `AcceptedRefused` |
| `handle_client` | `Received`, `ReceivedEof`, `ReceivedError`; `ParsePart`, `ParseRequest` (the loop body after the packet is parsed) |
| `client_socket::send` | `SentAll`, `SentSome`, `SentError`, `DeletedTwice` |
| `event_loop` | `Submit`, `SubmitFails`, `StartBatch`, `EndBatch` |
| kernel | `CompleteAccept`, `FailAccept`, `Receive`, `ReceiveEof`, `FailReceive`, `CompleteSend`, `FailSend` |
| clients | `Connect`, `Close`, `Reset` |

The borrow of a buffer and the reading of it are two steps (`loop = "parse"`
between them), since the kernel may fill buffers meanwhile. `loop = "dead"`
stands for a terminated process: a full submission queue (null entry), a
negative receive length (the parser's `reserve` throws), a failed submit, a
second deletion that the allocator notices.

Abstractions. What a client sends is a number of packets; whether a packet
completes a request is left open, except that at most one request comes of one
packet, as in `parse_packet`. Requests are well-formed. A connection is used
once. The `Engine` is given a router and handlers that answer once (below). A
failed accept starts a handler for a descriptor that does not exist (`Phantom`),
at most one at a time. A response is whole or cut short; `MaxShort` bounds how
often. Kernel actions and clients are external: they are modelled from what the
code asks of them.

### Listen

`point` is the suspension point a frame has stored, `pc` and `job` what each
thread is doing and for which coroutine. `Start` is `construct_task` and the
task's `resume`, up to `co_await schedule()`, which leaves the handle in the
queue. `Await` is `sync_wait`'s `co_await`: it transfers to the coroutine
although its handle is queued, so a frame may be resumed by `Main` and by a pool
thread (`Take`). `Resume` continues at the stored point: before the worker is
made (`Serve`) or after `co_await event_loop()` (`Leave`), which destroys it.
Two threads in one frame is a data race; the model lets both run the frame's
steps, which is enough to show what is lost (`OwnWorker`). `Wait` is the
`atomic_flag`; `End` is `final_suspend` with the transfer to `sync_wait`.

### Task

`state` is where a frame is in its life, `stack` which frames each thread has
resumed, `mode` where it is inside a function of `task.h` or `sync_wait.h`. A
program gives each thread and coroutine a sequence of operations; the module
says what each does, and `MCTask` has programs in which every coroutine is started
in one place: `tests/task_test.cpp` (nested coroutines), `tests/threadpool_test.cpp`
(tasks that go on in the pool and are dropped after a second), `handle_client` and
`send` as detached coroutines, `sync_wait_all` of tasks that it starts itself and
that await others in turn, `sync_wait` of a task that has ended. `listen` is not
among them: it resumes its tasks first and so starts them twice
(`BaseNet/http_server.cpp:162, 165`). `UsedAlive` is false of that; `Listen` models it
and `listen_double` shows what comes of it. `WellFormed` is what the language allows:
a coroutine awaits and suspends, a value is read of what was just awaited, `sync_wait`
waits and then blocks. `task::resume` is `Resume`; `co_await f()` is `Make`,
`Await`, `Read` and `Drop`; `sync_wait` is `Wait` and `Block`.

What another thread may see half done is split: `~task` into `Drop`, which tests
`done()`, and `SetDetached`; the end of a coroutine into `Return` (from here
`done()` is true), `TestFlag`, which may destroy the frame, and `Transfer`, which
reads its promise; `sync_wait`'s end into `SetFlag` and `Notify`. `misuse` notes
every use of a destroyed frame, every second destruction and every resumption of
a frame that is not suspended. The code itself makes two such uses, and
`UsedAlive` names them: `task.h:108` reads the promise of the frame destroyed at
`:106`, and `sync_wait.h:63` notifies a flag whose frame the waiting thread,
which has seen it set, may have destroyed.

### Splice

One call of `splice` as `handle_client`'s disabled code makes it
(`BaseNet/http_server.cpp:97-98`): the file is opened, a pipe is made and its ends are
moved out of the tuple's temporaries, and two requests move the bytes in turns.
The file may be written and truncated at any time (`Resize`), any request may
fail (`Fail`), `open` and `pipe` may throw. The kernel moves any number of bytes
up to what is asked; a pipe has `Slots` pages of `PageSize` bytes, and a page
with bytes left in it stays in use.

### ConfigVar

`SetValue` takes the shared lock and compares, `Tell` calls one listener (and
leaves the function if it throws, as `fromString`'s `catch` lets it),
`AllTold` ends the shared section, `AssignLocked` is the exclusive one.
`addListener` holds its own variable's mutex and uses the static counter four
times: `Read` and `Write` for `++s_fun_id`, `Store` and `Return`. `delListener`
is one step, since nothing outside its lock concerns it. A listener changes
nothing of its variable; each is added once. The mutex lets a reader in whenever
no thread owns it, as `std::shared_mutex` does on this platform.

### ConfigText

A node of a document is a tagged tuple, its text is represented by the node, and
what `yaml-cpp` does with it is external. The casts are functions of a type and a
text (`FromText`) or a value (`ToText`), recursive as the template's partial
specialisations are; `Throws` stands for an exception. `list`, `unordered_set`
and `unordered_map` have casts of their own in the code, which do what those of
`vector`, `set` and `map` do. `ListAllMember` gives each member its name and
leaves out what `Listable` refuses.

### ConfigRegistry and MCConfig

`datas` is the `std::map` (a variable, `NullEntry`, or nothing for each name),
`owner` and `sharers` its `shared_mutex`, `at` what a thread does with it.
`LookupDefault` and `Lookup` are the two `Lookup`s. Where there is an entry of the
type they are one step; where it has another, the thread keeps the mutex while
`Describe` waits for the variable's to write its value to the log; where there is
none, `LookupDefault` makes a variable, `Enter` a null entry and `Insert` fills
it. `Visit` and `VisitNext` hold the mutex shared while a callback calls
`toString` on each variable. `LoadFile`, `LookupBase` and `FromString` are the
loops of `LoadFromConfigDir` and `LoadFromYaml`; `FromString` begins the
`setValue` of `ConfigVar`, whose steps follow (`Set`). `LookupBase` takes no lock:
while an entry is made it may miss any. Between a listener's call and its return
(`Wanted`) the thread looks up what that listener looks up.

`handles` has every pair of a name and the variable that `Lookup` returned for
it, `loaded` the documents in order, `sure` the variables that were entered while
no load was under way, `raced` those that a load looked up while another thread
was making an entry; they serve the properties. The documents of a load
and their members are constants: `MembersAssumption` says that `listAllMember`
gives sequences and that a cast gives a value or throws, `FilesAssumption` that a
set of files is not the constant that stands for none. `LastReadIsValue`
states what a load leaves in a variable in terms of these members, for variables
that are `sure` and not `raced`, and whose listeners do not throw; without the
condition on `raced` it is false (below).
`LoadedAsWritten`, in `MCConfig`, states the same, of the same variables, in terms of
what documents say, without the program's algorithm: `Says` finds the nodes that are reached by
the parts of a name, `Denotes` says which values a node stands for.

### HttpExchange and HttpService

Text is a sequence of tokens: words, blanks, colons, and the two characters of a
line end, so that packets cut a line end too. `Packet` is an iteration of
`handle_client`'s loop with `parse_packet`, `Router::handle` and the response's
`send`; `Get`, `Post` and `Run` are `Engine`'s. The client waits for an answer
before it sends again, sends no body, no null character and request lines of
three parts, and reads an answer by its `Content-Length`. This is the assumption
`WellFormed`: no blank inside the three words of the request line, no "-" in the
method (the router puts one between method and path), no colon in a header's
name, no blank around its value, no line end in any of them. Values may have
colons, in which case the code drops the header (`AsParsed`). A handler's code and
type are not line ends nor names of headers, and `to_string` writes no two
lengths alike. What the code does otherwise: requests sent without waiting become one request when they end in
one packet; a body makes the request incomplete if it comes with it, and is
taken for the beginning of the next one's method if it comes after;
text after a null character is never seen (`BaseNet/http_parser.cpp:76`); a
request line of fewer parts is indexed out of range (`:87`).

`HttpService` is the abstract specification: routes, requests, and answers in
order. The refinement mapping forgets the text and reads the router's table by
method and path (`Registered`): `Packet` is a stutter, `Read` is `Reply`.

The code's `Engine` never creates its router: `Get` and `Post` dereference null
(`WebFrame/src/frameMain.cpp:18`), as the example in
`tests/web_frame_base_test.cpp:18` would. That needs no model; the modules
suppose a router, to say what the rest does.

## Runs

| run | instance | shows |
|---|---|---|
| `pool` | 3 threads; 2 coroutines with 2 awaits each and an endless one; fair | a handle is in one place; no thread sleeps while a handle waits that no other thread is coming for; each queued handle is resumed while the pool is in use |
| `pool_destructor` | 2 threads, 1 coroutine, fair | finding: the destructor may never return |
| `worker_faults` | 2 connections, 2 descriptors, 2 buffers, 3 entries; resets, failed accepts | frames and requests match, no descriptor leaks or is closed early, responses stay on their connection, no ring entry is lost |
| `worker_live` | 2 connections, 1 packet each, 2 buffers, 3 descriptors, no fault, fair | the worker stays up; at most 2n entries are needed for n connections; connections are accepted, answered, closed |
| `worker_short` | 1 connection, 2 packets; responses in up to three parts, reset, failed submit, buffer lost at end of file | frames and requests match; a response's characters are released once it is sent, and are there while it is sent whole |
| `worker_buffers` | 2 connections, 2 packets each | finding: a handler parses another client's bytes |
| `listen` | 3 workers, fair | an ended frame is not resumed; `listen` waits for each coroutine; each makes its worker |
| `listen_double` | 2 workers | finding: a worker that serves is destroyed, or made twice |
| `config` | 2 threads of which one loads, 3 names of 3 types, 5 variables, 2 listeners of which one looks a name up and the other throws and is added to either of two variables, 2 directories of 2 files, 2 calls of `Lookup` or `Visit`; fair | one variable for a name; values are what was read last, and what the files say, unless a load looked the variable up while an entry was made; what was told last is the value; removed listeners are not called; numbers name listeners unless calls of `addListener` overlap; every call returns |
| `task` | 47 programs, 3 threads, up to 4 coroutines with up to 2 suspensions each; fair | no use of a destroyed frame but two; values reach whoever awaits them; every frame is destroyed |
| `splice` | 5 bytes asked for, a pipe of 2 pages of 2 bytes, a file of up to 8; fair | the count returned was sent; descriptors are closed on each path; the call ends |
| `http` | 2 requests of 4 kinds, packets of up to 6 tokens, 2 handlers, fair | requests are parsed as sent; the exchange implements `HttpService` |

Why the bounds are enough. Two threads show every race for the mutex and three
a notification that goes to one of two sleepers; two awaits bring a handle back
to the queue. Two connections are the least for a descriptor number to be reused
by another client while a send is under way and for a buffer to reach a wrong
handler; two packets return a buffer twice, so that the ring wraps around. Three
entries make the submission queue overflow, three descriptors leave one free for
the accept that the kernel attempts in advance. `SubmissionsBounded` says that
the program's 2048 entries suffice for 1024 connections per worker. Three
workers let `listen` pass one coroutine, await another and leave a third queued.
In `config` two calls make the two variables that are loaded, or one of them
and a second type for its name, while the loading thread sets several variables
in a row; the documents have a member named in two ways, a key given twice, one
with a capital, a name with a 9, a value that cannot be read, and one nested in
a value. In `task` two suspensions bring a coroutine back to a queue, and two
pool threads let it end while its owner is anywhere. In `splice` five bytes are more
than the pipe holds and not a whole number of pages. Six tokens are a request
line with a line end cut in two; one packet of the `http` run can hold a whole
request's tail, and two requests show what one leaves behind.

`CHECK_DEADLOCK FALSE`: an idle or destroyed pool, a worker without clients and
a terminated one, threads that leave their variables alone, a client that
has sent everything, a program that has ended and a splice that waits for ever
have nothing to do.

Findings (runs that end in a violation, each against a line of the repository):

1. `~thread_pool` (`BaseNet/threadpool.cpp:12-13`) loses the wakeup of a thread
   that is about to sleep and joins it for ever.
2. `io_uring::add_buffer` (`BaseNet/io_uring.cpp:165`) writes the returned buffer
   to a wrong slot: two clients' data in one buffer, and buffers lost.
3. `sync_wait_all` awaits tasks whose handles are queued in the pool
   (`BaseNet/task.h:62`): both resume the coroutine, and the later one destroys
   the worker, or makes it again.

Seen while modelling, without a run of its own:

- `send_awaiter::await_resume` deletes the characters of a response after every
  part of it, and the next part is sent from there (`BaseNet/socket.cpp:219`).
  `MessageHeldWhileSending` without its condition that the response is sent whole is
  violated in `worker_short`. With short sends and several clients the rest of a
  response may also go to another client that got the descriptor
  (`OwnConnectionOnly` fails).
- The `std::string` object of a response is never deleted
  (`BaseNet/http_message.h:63, 74`). An answer of 404 has the text OK
  (`BaseNet/http_message.cpp:10`, which nothing changes). A header with a colon in
  its value, as in `Host: name:port`, is dropped (`BaseNet/http_parser.cpp:94`).
- A task that the pool runs and whose owner drops it without waiting: `~task` may
  find `done()` false and set the flag of a frame that is past `TestFlag`, which
  is then never destroyed, or of one that was destroyed. `detach` after the
  coroutine has ended, and dropping a task that was never resumed, leave the
  frame behind too. No caller in the repository does any of these; `Task` shows
  each when its program is given.
- `splice` sends more than it was asked for from a file that has grown, and waits
  for ever for one that has shrunk, or when partly read pages fill the pipe
  (`BaseNet/file_descriptor.cpp:84, 93`). Move assignment of a `file_descriptor` forgets
  the one it had without closing it (`:32`); nothing assigns one.
- `addListener` shares its counter between variables that do not share a mutex
  (`Config/Config.h:342`): when two calls overlap that are about two variables of one
  type, the number returned may be another listener's, although it should be
  the callback's own (`:340`). `IdNamesListener` without the hypothesis of
  `IdsNameListeners` is violated in the instance of `config`: one thread
  stores a listener under 1, another advances the counter, the first returns 2.
- Two concurrent `setValue` calls may notify in one order and assign in the other
  (`Config/Config.h:330`): `LastToldIsValue` fails with two setters, the listener
  being told last of a value that is assigned first.
- `LookupBase` walks the registry without its mutex (`Config/src/Config.cpp:8`): while
  another thread makes an entry, it may miss a variable that has long been there, and
  what a file says of it is passed over. `LastReadIsValue` without its
  condition on `raced` is violated in the instance of `config`.
- A name with a 9 is valid for `Lookup` (`Config/Config.h:400`) and never loaded
  (`Config/src/Config.cpp:15`). A key with a capital is refused before it is lowered at `:40`,
  which has no effect, and so is all that is below it. Files are loaded in the
  order of the directory, which is not specified.
- A scalar given to a variable of a container type empties it without an error. A
  string that is empty or `~` reads back as something else inside a container, since it is
  written without quotes.
- A thread that holds the registry's mutex waits for a variable's, and a listener
  called under a variable's waits for the registry's. Nobody waits for ever only
  since the former wants it shared, and `std::shared_mutex` here lets readers in
  whenever no writer owns it. With a mutex that makes readers wait for a waiting
  writer, a third thread in `addListener` would make the three wait for each other.
- A variable that is made while a load is under way may be passed over by it, since
  the load may have dealt with its name before.

## Fairness

`ThreadPool`: each thread takes its enabled steps, and a destructor that has
begun goes on: operating system threads run. A thread is not guaranteed the
mutex by name, but weak fairness is enough in these runs. No spurious wakeup is
assumed, no call of the owner.

`ThreadWorker`: the event loop runs (`WF(EventLoop)`), and the kernel accepts,
receives and sends what it can, separately for each request. Clients owe
nothing: none has to send, close or stay. Faults are never forced.

`Listen`: every thread runs, and the pool resumes what is queued, which is
`ThreadPool`'s `QueuedIsResumed`. `ConfigRegistry`: a call that has begun goes on
(`GoOn`, for each thread); nobody has to begin one, and `MaxOps` bounds how many
begin, so that nobody is kept from a mutex by an endless stream of others.
`Task`: every thread runs, the pool and the event loops included, and the kernel
completes every request. `Splice`: the coroutine goes on and the kernel does
what it can of a request; faults and other users of the file are never forced. `HttpExchange`: what was sent arrives, and the client
reads what is there; nobody has to send.

## Proofs

All are checked by TLAPS for every value of the constants, from the constants'
assumptions (finite sets of threads and connections, positive sizes, distinct
markers, well-formed programs, requests and handlers). Those that have a hypothesis
of their own say so below.
The run that checks the property is an instance of it.

- `ThreadPoolProofs!TypeCorrect`: `Spec => []TypeOK`.
- `ThreadPoolProofs!NoIdleThreadWithWork`: `Spec => []WorkConserving`. The
  inductive invariant adds that a thread is inside the critical section exactly
  when it holds the mutex (`MutexHeld`) and that the owner has left "using" once
  the flag is set (`StopFlag`). Without `MutexHeld` a push could come between
  the false predicate and the sleep, and the notification be lost. The counting
  is done once, in lemmas about threads that move on the way and off it.
- `ThreadPoolProofs!HandleResumedByOneThread`: `Spec => []HandleInOnePlace`.
  Inductive with `FreshOutside`: a coroutine that has not awaited yet is nowhere.
- `ThreadWorkerProofs!WorkerTypeCorrect`: `Spec => []TypeOK` of the worker, which
  includes that a handler only parses buffers of the ring and that the batch
  never exceeds the completions there are.
- `ThreadWorkerProofs!ResponsesReleased`: `Spec => []CharactersReleased`, which is
  inductive.
- `ThreadWorkerProofs!RingEntriesConserved`: `Spec => []EntriesConserved`. The
  invariant (`EntriesInv`) adds that a handler has borrowed an entry only while it
  parses, and that only data, or a kernel with the fault, names an entry. Each
  action of the worker is one of six things done to the entries (`Untouched`,
  `Posted`, `PostedWithEntry`, `SeenWithoutData`, `Borrowed`, `Returned`), and the
  counting is done for those. The run has a kernel that keeps no buffer at end of
  file, so that it checks that no entry is lost; the theorem is about both kernels.
- `WorkerFramesProofs!FramesMatch` and `DescriptorsStayOwned`, under every fault:
  `Spec => []FramesMatchRequests` and `Spec => []DescriptorsOwned`. One inductive
  invariant (`FramesInv`) for both. `OneRequestEach` says of every frame, without
  counting, that its requests in the submission queue, the kernel and the
  completions are at most one in all, and one exactly if it waits. To be
  inductive it needs that a new handler's frame is new, which is a matter of
  descriptors: the accepted one belongs to no handler (`OneOwner`), and no
  connection has two (`AcceptedOnce`). That in turn needs that the handler which
  closes a descriptor is resumed once. The rest is who may run
  (`Turns`), that only accepts have more to come (`MultishotAccepts`), and that
  one handler at most is started for a failed accept (`PhantomOnce`).
- `WorkerFramesProofs!ResponsesOnOwnConnection`: `Spec => []OwnConnectionOnly` if
  `"short" \notin Faults`. A response that waits to be submitted waits beside its
  handler's next receive (`WholeSends`), so the handler has not ended and its
  descriptor is still its connection when both are submitted. A response that is
  sent again breaks this, and the property with it.
- `WorkerFramesProofs!MessagesHeld`: `Spec => []MessageHeldWhileSending`, under
  every fault. `CharsKept`: what was not cut short has its characters as long as
  its frame exists, and by `FramesInv` what the kernel sends has a frame.
  `WithinBudget` shows that no connection has more requests than the model counts.
- `WorkerFramesProofs!ProvisionedNeverDown` and `ProvisionedSubmissions`:
  `Spec => []NeverDown` and `Spec => []SubmissionsBounded` for a worker that is
  `Provisioned`: no fault, a buffer for each connection, more descriptors than
  connections, `2 * Cardinality(Conns) <= SqEntries`. An accept finds a descriptor
  since no two name one connection (`FreeFdsLeft`); a receive finds a buffer since
  every entry not offered belongs to a different connection, and not to the one
  that receives (`BuffersLeft`, from `RingEntriesConserved`'s invariant); the
  submission queue has room since each handler's receive waits there once, with
  one other entry at most (`Room`). So no completion is one that the event loop or
  a frame stumbles over (`Serene`).
- `ListenProofs!ListenTypeCorrect`: `Spec => []TypeOK`, from the same invariant as
  the two that follow.
- `ListenProofs!EndedFrameNotResumed` and `ListenWaits`, for any size of the
  pool. The inductive invariant says that a handle is in the queue once or with
  one pool thread, that what the loop has not reached is untouched, and where
  each of the two threads that may be in a frame can be. The argument: each
  frame is resumed at most twice, once by the pool and once by `Main`; it ends
  only when one comes after the other, which serves for ever; when it has ended
  nobody is left to resume it.
- `ConfigProofs!RemovedListenerNotTold` and `ConfigTypeCorrect`, for any
  threads, variables, listeners and values: the locks are held by exactly the
  calls inside their sections (`LocksHeld`) and exclude each other
  (`ReadersExcluded`), so that no entry is erased while a setter has it before it.
- `ConfigProofs!NumbersNameListeners` and `RegistryNumbers`: `Spec => IdsNameListeners`
  and `RSpec => IdsNameListeners`, which is `[]OneAdds => []IdNamesListener`, for any
  number of variables of the type: the numbers are right as long as no two calls of
  `addListener` overlap, of one variable or of two. The counter is ahead of every
  number handed out, and inside `addListener` it is new and then the new entry's
  (`CounterAhead`). The mutexes see to `OneAdds` for one variable, and nothing does
  for two: without it this is false.
- `ConfigProofs!ListenersKnowValue`: `Spec => []LastToldIsValue` if there is one
  setter, for any number of variables. `KnowsValue` says what each listener was
  told while a `setValue` calls listeners, between its two locks, and otherwise;
  `Entered`, that a listener is entered once and is told nothing before: so one
  that is added between the locks knows no value at all, which is all that keeps
  it from knowing an old one. With two setters it is false.
- `ConfigProofs!RegistryTypeCorrect` and `LookupsAgree`, for any threads,
  names, types, files and listeners. The inductive invariant (`RInv`) adds that who makes
  an entry owns the mutex, with no entry before and a null one until it is
  filled (`Makers`), and that every null entry has a thread that is filling it
  (`NullOwned`): so nobody who has the mutex meets one. The loader, which has
  no mutex, only reads.
- `ConfigProofs!RegistryKeepsVariables`: `RSpec => [](TypeOK /\ RemovedNotTold)`: what
  `ConfigVar` promises of variables holds of the registry's, which it makes, loads
  and sets, and whose listeners make others. Each step of the registry is a step of
  `ConfigVar`, or gives a variable that nobody has yet its default (`VariablesStep`).
  `VInv` adds what the threads that load are doing (`Documents`, `Loaders`) and that a
  variable has one entry, or none and the default while it is being made (`Entries`).
- `ConfigProofs!ListenersOfRegistryKnow`: `RSpec => []LastToldIsValue` if there is one
  setter: `KnowsValue` again, and a variable that is being made has no listener.
- `ConfigProofs!LoadsLast`: `RSpec => []LastReadIsValue` if there is one setter, for any
  files, names, types and other threads. `InOrder` says that the members a load has
  before it are the last ones of the document loaded last; `BornBefore`, that a
  variable which is `sure` was entered before it; `UpToDate`, that the value of a variable
  with no `setValue` under way, and otherwise the one that is being set, is what was
  read last among the members dealt with so far. It is about the variables that are
  `sure` and not `raced`: of these `LookupBase` misses none. A `setValue` reaches its
  end, since no listener of the variable throws (`SettledStep`). Of `raced` variables
  it is false, and with two setters: the members of two loads are
  set in any order.
- `ConfigProofs!VariablesReadBack`: `RSpec => []TextsReadBack` if the casts of each type
  invert each other on the default and on what they make of the files
  (`CastsReadBack`): a variable only ever has one of these values, of its own type
  (`ValuesRead`). Whether the casts do is a matter of the texts; it is not so of
  every text, as said above.
- `SpliceProofs!SpliceSendsWhatFileHad` and `SpliceOwnsPipe`, for any length, file
  and pipe. `Counted` says that what was read of the file is in the pipe or was
  sent; `Owned` which object has which descriptor at each place.
- `TaskProofs!AwaitedValuesRead`: `Spec => []ReadsReturned` for programs that start
  (`resume`, `await` or `wait`) each coroutine in one place, which are all programs of
  the run but `Late`, where an ended task is awaited; `listen` is not such a program.
  A coroutine that has not ended is in one place at most: one stack, the queue, or one request (`OnlyOnce`); if it
  waits for another as its caller it is in none (`Callers`). So nobody resumes it
  before the awaited one hands over, when the value is there (`Endings`), and who
  goes on after an `await` reads a value that has been returned (`Awaiters`). For
  `sync_wait`, its coroutine runs only while its thread waits (`SyncTurns`), so that
  the target it reads from is the one waited for, and the flag tells that the value
  has been copied (`SyncReads`). Without the hypothesis it is false: a coroutine that
  the pool and an awaiter both resume is in two places, as `listen`'s are (`Listen`).
- `TaskProofs!FramesUsedAlive`: `Spec => []UsedAlive` for programs that are `Orderly`,
  which are again all of the run but `Late`: each coroutine has an owner that makes
  it, starts it in one place, and drops or detaches it last of all; and either what is
  dropped was read, blocked for or slept for before, or no coroutine leaves the
  thread that starts it. `AInv` adds to the invariant above that the place of a frame
  gives its state: one in a stack runs (`HeldRun`), one in the queue, with a request
  or waiting as a caller is suspended (`ParkedSuspended`), one in its `final_suspend`
  is final, or has destroyed itself and was detached (`FinalAtEnd`); and that what has
  not been made, started or let go can be read off the program (`Unstarted`, `Made`,
  `LetGo`, `Ended`). What is left is the test of `done()` in `~task`, which is true
  from the beginning of `final_suspend`: if another thread is in it, the frame is
  destroyed under it. A task that was awaited has left it (`Ended`), and one that
  never leaves its thread leaves it before that thread goes on (`HInv`: every place
  of a coroutine is in the thread that is its home). A program that starts a task
  which goes on in the pool, and drops it without waiting, is not `Orderly`, and
  `UsedAlive` is false of it: `threadpool_test` sleeps before it drops.
- `HttpExchangeProofs!RequestsArrive`: `Spec => []ParsedAsSent`, for any well-formed
  requests, cut into packets anywhere. It rests on two theorems about text.
  `CompleteOnlyWhole`: of all the beginnings of a request's text only the whole is
  `Complete` for the parser, so that no packet but the last one makes a request.
  `ParseText`: the parser reads of a whole text what was sent (`AsParsed`).
- `HttpExchangeProofs!AnswersAsTheService`: `Spec => ServiceSafety`, the initial
  states and steps of `HttpService` under the mapping above. A client that reads
  has to find the length in the head of the answer, and the number of tokens it
  says after it: `ResponseReadBack`, for the answer of any handler and the 404.
- `HttpExchangeProofs!TypesHold`: `Spec => []TypeOK`, which says that the client
  finds what it reads. The three come from one inductive invariant (`HInv`):
  `ParsedAsSent` alone is not inductive, because it says nothing of a text that is
  on its way. `Carried` says that what the parser has and what is pending make the
  text of the last request, or are both empty; `Answering`, that what is on the
  wire is the whole answer to the last one parsed; `InTurn`, that there is at
  most one request without its answer; `RouteTable`, that every key of the router is
  that of some route, which no two routes share (`KeysDiffer`).

The texts need induction over lengths, and the library's induction theorems have an
operator for a parameter. `AllNumbers` gets it from the least counterexample
(`WFMin`, about sets), for `FlattenSeq`, for `split`, which takes the places of
its delimiter in ascending order (`Ascending`), and for the parts between them.

Only model-checked: all liveness, with the fairness of `HttpService` (fairness is
out of the prover's reach), and `LoadedAsWritten`, whose operators are recursive over
nested values and trees; for the same reason the hypothesis of `VariablesReadBack`,
which the run checks by `TextsReadBack` on the values it reaches. `DestructorReturns`,
`ParsesOwnBytes` and `OwnWorker` are false, `OwnConnectionOnly` is with
short sends, `LastToldIsValue` with two setters, and so is `NeverDown` for a worker that is not provisioned.

## Plan

Modules that would add most: `CompletionRing`, the iterator's head and the ring's
indices modulo 2^32, refining the queue of `IoUring`; a worker's abstract service
(connections and answers), implemented by `ThreadWorker`; the loop of `send` over
bytes, which today is parts of a response.

The runs are kept to one for each question; a module that joins one of the above
shares its run where it can.

## Not modelled

- `http11_parser(todo)`: generated by Ragel, not part of the build.
- The requests without a caller in the server: receive with timeout (its
  `prep_link_timeout` overwrites the `prep_recv` in the same entry,
  `BaseNet/io_uring.cpp:121-126`), cancel, and the `-ETIME` branch of the event
  loop.
- `bind`, `listen`, `getaddrinfo`, logging, number formatting. Of the listing of a
  directory only which files are chosen.
- The assertion macros of `Config/util.h` and the comparison and move assignment of
  `file_descriptor`, which nothing uses; `getValue`, which only reads.
- `liburing` and the kernel, except as the external actions above.
