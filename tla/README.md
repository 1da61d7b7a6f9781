# CheriOS in TLA+

CheriOS is a microkernel for CHERI MIPS. Programs are *activations*; they share
nothing and talk through the kernel, with capabilities for references, by
sending messages and by synchronous calls. These modules model the kernel
(scheduler, message queues, calls, interrupts, timer), the programs of libuser,
`boot/src/init`, `memmgt` and `namespace` as far as they talk to each other, the
memory manager's book of pages and the loader that draws on it, the sockets
service with its echo programs, and the disk driver with its client. TLC checks
them on small instances and TLAPS proves what matters most for every size.

## The system

| component | state | operations | what makes it correct |
|---|---|---|---|
| scheduler, `kernel/src/sched.c` | the run queue `squeue_a` with back pointers `aqueue`, a round-robin index | `sched_a2d`, `sched_d2a`, `sched_delete`, `sched_reschedule` with an optional hint | the queue lists exactly the activations that may run, and the kernel returns only to one of them |
| message queues, `msg.c` | a ring of 16 slots for each activation | `msg_push`, `msg_pop` | each message comes out once and in order; a waiting receiver is woken |
| calls, `ccall.c` | a counter of calls, `expected_reply` of each activation | CCall: send, send and switch, synchronous call; CReturn with and without a token | a caller is answered once, by the activation that got its call; no answer is refused |
| activations, `act.c` | `status`, `sched_status`, saved registers, the next free slot (none is reused) | register, revoke, terminate, wait | termination is final and disturbs nobody else |
| system calls, `syscalls.c`, `kernel_exceptions.c` | | enter the handlers above | |
| interrupts, timer, `interrupts.c`, `timer.c` | `int_child`, the mask of the processor | register, enable; an interrupt becomes a message, a tick reschedules | an enabled interrupt has an owner, none is lost or delivered twice |
| libuser, `msg.S`, `init.S`, `object.c`, `mmap.c`, `namespace.c` | `sync_token`, `memmgt_ref` | dispatch of a message to a method, calls, start-up, lookups | an answer goes back with the token of the message it answers |
| memmgt | the book: status and length of chunks of pages | `mmap`, `munmap` | chunks tile the pool; mappings are disjoint; memory is zeroed before reuse |
| namespace | `bind`: the activation at each port | register, two lookups | a port keeps its first owner |
| init, `boot/src/init` | the list of modules, a pool, `nssleep` | load, register and start each module; then poll until only daemons are alive | services are up before their users; no module reaches another's memory; the machine halts at the end |
| daemons (uart, AES, sha), user programs (spam, benchmarks) | | register and serve; look up, call, exit | |
| sockets | sockets with a peer and a box of one message, ports | `socket`, `bind`, `connect`, `recfrom`, `sendto` | no message is lost or doubled, an answer goes to whoever it answers |
| prga | a socket, a count | an echo server, a client | what is sent comes back, no buffer is used after it is freed, all finish |
| virtio-blk, fatfs (`diskio.c`) | two rings, one request with the token of its call | init, read, write, status; the interrupt | a call is answered once the device is done, and with its own result |

The kernel runs on one processor. A handler runs to its end, with interrupts
off, and is one action of the model; it is entered by the running activation, by
CCall, CReturn, a system call or a fault, and by interrupts, the timer's among
them. At this commit interrupts are off: `kernel_init` has the call of
`kernel_interrupts_init` in a comment, and programs leave the processor only when
they enter the kernel. `System`, the machine that is booted, is without them;
`Activations`, `Disk` and `Prga` have them on, which includes the behaviours
in which none comes.

What is hard is between the handlers: who runs next and in which order messages,
answers, yields, ticks, interrupts and exits
meet. Messages wait in queues; an answer overtakes them; a hint overtakes the
round robin; tokens stay in registers, in queues and in the memory of services.
A failed assertion of the kernel, a panic and a program that faults all end in
`hw_reboot`, so one program that gets an answer it must not get, or NULL for a
service that is not up yet, takes the machine down. Nothing is stored, so there
is no recovery.

sockets, prga, virtio-blk and fatfs are not in `CMakeLists.txt` at this commit.
Their code is complete, and is modelled as it stands.

## Modules

| module | models |
|---|---|
| `RunQueue` | `QADD`, `QDEL`, `sched_picknext`: the two arrays, the end and the index |
| `MsgRing` | one ring of `msg.c` as operators: `full`, `empty`, `enqueue`, `front`, `dequeue` |
| `Mailbox` | one ring as a specification: `msg_push` (`push`, `push_full`) and `msg_pop` (`pop`) in any order; implements `Fifo` |
| `Kernel` | all handlers of calls and system calls, on top of the two: one operator per C function, one action per handler |
| `Interrupts` | `Kernel` with `interrupts.c` and `timer.c` |
| `Activations` | `Interrupts` with activations that do whatever the interface permits |
| `Ipc` | what the kernel promises: mailboxes, and calls that are answered once; `Activations` implements it |
| `System` | `Kernel` with the programs init loads, each following its own code |
| `Memmgt` | `memmgt/src/mmap.c`: the book, and programs that map, write and unmap |
| `Loader` | `Memmgt` with init's `load_module`, `elf_loader.c` and `alloc.c` |
| `Sockets` | `sockets/src/sockets.c`: the calls as operators |
| `SocketUse` | `Sockets` with programs that call it in any order, on any socket |
| `Prga` | the echo programs of `prga/src/main.c`, the sockets service and init on `Interrupts` and `Sockets` |
| `Disk` | virtio-blk, fatfs and init on `Interrupts`, and the device; its steps are steps of `Activations` |
| `MCActivations`, `MCSystem`, `MCMemmgt`, `MCPrga`, `MCDisk` | instances, views, and statements of the code that are refuted |
| `KernelProofs`, `MailboxProofs`, `ActivationsProofs`, `SystemProofs`, `MemmgtProofs`, `SocketUseProofs`, `PrgaProofs`, `DiskProofs` | theorems, and the lemmas they rest on |

**Kernel.** The variables are the kernel's own: `status`, `sched_status`,
`expected_reply`, `msg_queues`, `frame` (the saved registers), `rq`,
`kernel_curr_act`, `kernel_next_act`, `unique` (the static counter of
`get_sync_token`), and `panic`, which says why the kernel stopped. Inside a
handler the C functions are operators on a record of the state they hand on, so
that their order is that of the code: `creturn_sync`, say, checks the token,
writes the results, queues the caller, lets the callee wait and reschedules. Of
the registers a message carries `c1`, the sync token, is kept as it is; all the
others (`v0`, `a0`-`a2`, `c3`-`c5`, `idc`) are one value of `Arg`. A token is
the pair that `get_sync_token` seals: caller and number. Each `kernel_assert` of
the modelled files is a possible value of `panic` in `Faults`, as are the two
undefined outcomes, `squeue_a_end` going below 0 and `sched_reschedule` going
round for ever; the stops the code provides for are in `Stops`.

**Interrupts.** `kernel_interrupt` looks at all pending lines in turn; each is an
action, and several at once are several of these. A driver's interrupt is masked
and pushed to its owner as a message that wants no answer, in the name of
activation 0; the owner enables it again. A tick is `sched_reschedule` without a
hint, at any time.

**Activations.** An activation may only return a token it was given. `held` is
what it has saved in memory, and the running activation's `c1` is what a message
just brought: `mine` is both. It may answer at once, later, in any order or
never, and call others in between. Those in `Drivers` may ask for interrupts, and
whoever has got one enables it when it likes. It may also hold the control reference of
another and terminate it (`ForeignCtrl`): nothing in the repository does so,
`init.S` being the only caller of terminate, but the kernel offers it.

**System.** An action is what the running program does up to and including its
next entry into the kernel. `pc` is where each program continues. init loads
memmgt from its own pool and naps, loads namespace and naps, introduces memmgt
to namespace, loads the daemons, naps, and loads the user programs, each with
two calls of memmgt for its memory. memmgt calls namespace while it owes init an
answer (`register_ns`), which is why `msg_entry` keeps the token in memory. A
user program yields, allocates (its first `mmap` looks memmgt up with two calls),
looks up a daemon and calls it, as `spam/src/main.c` does, and exits, in any
order and at any time.

**Memmgt, Loader.** `book` has an entry for each page, of which only those at the start
of a chunk are valid; stale entries are kept as they are. `Chunks` is what the
walk of `mmap` visits, as a least set rather than a loop. `live` is what the
programs hold, `dirty` the pages they wrote. `Loader` has init load one module
after the other (`stage`: the image, the copy of its segments, the stack) while
those that are loaded map, write and unmap. memmgt's own memory comes from init's
pool, that of all others from memmgt once init has napped and switched
(`init_alloc_enable_system`). `load_module` computes the bounds of the capability to
execute anew and rounds them up to a page more than the image has if it
fills its pages; the page between two chunks that `mmap` leaves is what keeps
this harmless. Bounds are counted in pages and the pool starts at a page.

**Sockets, SocketUse, Prga.** The service answers one call at a time, so a call
is an action; one that is refused changes nothing, and a failed assertion stops
the machine (`failed`). A message is a capability to a buffer. In `SocketUse` a
program gives up what it sends (`held`), which is what makes "in one place" say
something. In `Prga` the calls are messages of the kernel. A step of a program is what
it does from one entry into the kernel to the next; the service's step carries
out the call it was given and answers. The timer may take the processor before
each. `text` is what is in a buffer: the server writes it in place. What the
programs print, which calls uart, is left out, and so is main's exercise of malloc.

**Disk.** The driver registers and enables its interrupt and then serves its
queue. `Answer` is the end of `msg_entry`, which returns `sync_token`. `vblk_read` and `vblk_write` keep the
token in the request and, once the device is notified, clear `sync_token`, so that nobody is
answered; `vblk_interrupt` sets it to the one kept. Ticks, the interrupt and the
device come between these steps. The device does the request it was notified of and raises its
interrupt; it is external, and follows the virtio header that the driver comes
with. `status` stands for `vblk_status` and `vblk_size`. `Held` is what of the
driver's memory it may still return; with it each step of the three programs is one
that `Activations` admits (`UsesKernel`), so that what is proved of any
activations holds with this driver: what it clears, keeps and restores never gives
it a token twice.

## What TLC checks

| run | instance | properties |
|---|---|---|
| `act` | 3 activations of which 2 may be revoked and one is a driver, 2 slots, 2 calls, one interrupt, ticks | `TypeOK`, `NoKernelFault`, `RunQueueExact`, `NoLostWakeup`, `CurrRunnable`, `TerminatedStays`, `TokensOwed`, `TokensUnique`, `BlockedHasToken`, `IrqOwned` |
| `ipc` | 2 activations, 4 slots, 2 contents, 1 call, one interrupt, ticks | `RefinesIpc` |
| `system` | init, memmgt, namespace, 2 daemons, 2 user programs with 3 operations, which may call unknown methods | `TypeOK`, `NeverStops`, `AnswersMatch`, `OwesWhileBlocked`, `Shutdown` |
| `memmgt` | `Loader`: 10 pages of 4 bytes, lengths 4, 8, 9, 12; a pool of 3 pages, images of 4 and 9 bytes, stacks of 4 | `LoadTypeOK`, `Tiled`, `Disjoint`, `InUse`, `Scrubbed`, `ModulesApart` |
| `sockets` | 2 programs, 3 sockets, 2 ports, 2 messages | `TypeOK`, `InOnePlace`, `TwoEnds`, `AnswersReturn` |
| `prga` | a server and 2 clients that want the same port, 2 messages each; queues of 3 messages, ticks | `TypeOK`, `NeverStops`, `Echoed`, `NotFreed`, `NoSendError`, `Finished` |
| `disk` | 2 sectors, 2 values, 7 calls, queues of one message, interrupts and ticks | `TypeOK`, `NeverStops`, `TokenKept`, `ReadsBack`, `CallsAnswered`, `UsesKernel` |
| `token_mask`, `kill_blocked`, `kill_waiting`, `stale_token`, `disk_ring` | as named | a statement of the code that does not hold, below |

*Bounds.* `MaxCalls` bounds the synchronous calls in `Activations`, because each
takes a fresh number; two calls are enough for a nested call, for a cycle of two
activations that call each other, and for two answers returned in the other
order. With three activations there is a caller, a callee and a bystander that
is queued, and `QDEL` moves a third one. With 2 slots a queue holds one message,
so it is full at the second, and an interrupt for a driver that has one stops the machine as the
code provides (`queue full (int)`). `ipc` has queues of three messages, so that order
and refusal are both seen; its constraint `FewMessages` leaves out the states in
which two queues together hold more than four. `UNIQUE_MOD` and `REPLY_MOD` stand for 2^32 and 2^28.
`System` has
queues of one message, the smallest there are: a synchronous call hands the
processor to the service, which answers before another program can call it, so that
`NeverStops` holds even then. The 512 call numbers are more than the 289 of its `CallBound`. With the timer that is no longer so: `prga` has
a queue with room for a call of each program. Three operations let each user
program look a service up, call it, allocate and exit. A call of an unknown method ends
badly (`stale_token`); `NeverStops` and `Shutdown` except the behaviours in which
a program is left waiting for one (`AwaitsOverflow`) and no other, and
`AnswersMatch` has no exception. In `memmgt` a chunk of 10
pages can be cut into several, reused whole and cut again; there is room for two
modules and a mapping between them, and for images that fill their pages and that do
not. Three sockets allow a
connection to be replaced and its old end to go on sending, and the fourth call
of `socket` stops the service. `connect` does not look at who calls, so any program may connect
any socket there. What is promised of answers (`AnswersReturn`) is therefore
promised of a socket as long as nobody connects it again; two history variables
of `SocketUse`, `from` and `again`, which no action reads, say who sent to a socket last and
which were connected again. In `prga` the second client cannot bind and
returns, as in the code; an answer is waited for before the next message, so that
the second message is the general one; calls are not numbered apart
(`UNIQUE_MOD = 1`), which is the subject of `act`. In `disk` seven calls allow two
initialisations with reads and writes before and after; `MaxRequests`, four from
one initialisation to
the next, is where the finding `disk_ring` begins: the fourth request is written
outside the allocated ring, and what happens then is undefined. Up to it
the slot the device looks at holds the right number, zero, because nothing else
was ever there.

*Views.* `act`, `ipc` and `prga` identify states that differ only in what the kernel
never reads again: ring slots outside a queue, where in its ring a queue starts,
and stale slots of the run queue; in `prga` also the registers of a program that is
not runnable, which an answer or a message overwrites. The stale slots may be left out as long as nobody terminates
another, since only `sched_delete` reads such a slot of an activation that is
not queued; the runs with `ForeignCtrl` use no view. That a queue behaves the
same wherever in the ring it starts is what `RingIsFifo` proves.

*Deadlock* is checked in every run: a machine that stopped is a step that changes
nothing (`Frozen`, `Halted`), and in every other state some activation can act. When
only init is left to run its yields change nothing (`Idle`).

*Fairness.* The processor always executes the running program, and the mains of
user programs and the methods of services return, which is weak fairness of
`Next` in `System`; nothing is assumed of one program rather than another, so
that `Shutdown` rests on the scheduler. The condition is
written with its `ENABLED` spelled out, which TLC evaluates faster: `Next` can
change `vars` unless the machine has halted or init yields with no other program
to run. With the timer a program that runs again and again must at some time get further
than the tick that interrupts it: `TIMER_INTERVAL` is 40,000,000 counts, far
more than a step takes. That is strong fairness of the step of each program in
`Prga` (again nothing is said of when it runs: `Finished` rests on the
scheduler) and of the driver in `Disk`. `Disk` has weak fairness also for the device and
for a pending, unmasked interrupt, and assumes nothing of the file system.

## What does not hold

- `token_mask`: `get_sync_token` numbers calls with 32 bits, `kernel_creturn`
  keeps 28 bits of the token (`0xFFFFFFF`). From call 2^28 on a correct answer
  is refused, and the kernel freezes. The run has `REPLY_MOD` below `UNIQUE_MOD`.
- `kill_blocked`: an activation terminated by another while it is blocked in a
  call leaves its token with the callee, whose answer fails an assertion.
- `kill_waiting`: `sched_delete` takes a stale slot for a valid one and removes
  the wrong activation from the run queue.
- `stale_token`: the overflow path of `msg_entry` answers with the token of an
  earlier message.
- `disk_ring`: the driver indexes the available ring without a modulo; from the
  fourth request on it writes past the ring.

The two `kill` findings need a holder of a control reference other than the
activation itself, which the interface provides for and no program here uses.
Modelling also showed some things that no text of the repository contradicts: `munmap` of a
length that is no multiple of the page size stops the machine (`munmap_fails`);
after everything is unmapped a large `mmap` may still fail (`mmap_fails`),
since chunks are never merged; a capability that is kept after its `munmap`
still unmaps whatever lies there later; and an activation that exits while it owes
an answer (`Terminate`) leaves its caller blocked for ever, which no service of the tree does.

## What is proved

The theorems hold for every number of activations, every ring size, every
width of the counters, every pool, every list of modules, every number of user programs,
every number of sockets and every disk, where nothing else is said.

- `ActivationsProofs`. An activation terminates nobody but itself
  (`ForeignCtrl = FALSE`; without it the runs `kill_*` refute what is proved). `SchedInv` is
  inductive: types, the run queue exact, a waiting activation without and a
  schedulable one with messages, the running activation runnable, and slots that are not
  registered yet waiting. `RunQueueExact` alone is not inductive: a push
  queues its receiver only because a waiting one is not queued, and a pop is
  possible only because a schedulable one has a message. From it follow
  `TypeCorrect`, `QueueExact`, `WakeUps`, `ReturnsToRunnable`,
  `TerminatedForGood`, and, with `IrqInv`, `InterruptsOwned`. Interrupts and ticks are steps like any other.
- `ActivationsProofs`, of the reply tokens. In addition fewer calls are made than `kernel_creturn` can
  tell apart (`MaxCalls < REPLY_MOD`, 2^28 in the code, the bound `token_mask`
  shows to be needed). `TokInv` adds that each token in a queue, in a register or
  in memory is owed to a caller blocked on that number, is in one place, and that
  each blocked caller has one; that an idle activation has no token in its registers is
  what keeps a delivery from overwriting one, and
  that a new call's number is greater than all before makes the step of a call
  go through. From it follow `KernelNeverFaults`, `TokensAreOwed`,
  `TokensAreUnique` and `BlockedHaveTokens`.
- `ActivationsProofs` also has `KernelImplementsIpc`: under the same two assumptions every handler is a
  step of `Ipc` or a stutter, the refinement the run `ipc` checks on one instance.
  It has one lemma per action over lemmas that say what entering the kernel
  (`EnterMaps`), a push (`PushMaps`), going to wait (`WaitDispatches`) and the
  scheduler's choice (`RescheduleDispatches`) are to `Ipc`. It needs `TokInv` for three things: what
  `Return` answers is blocked on that call; a delivery replaces no token
  in the registers, so that what an activation owes only grows by it; and a slot that
  is being registered is empty. An answer never stops the machine, for its
  caller may run. The stops the code provides for are stutters.
- `KernelProofs` has the lemmas: what `QADD`, `QDEL`, `msg_push`, `sched_reschedule` and
  each handler preserve; and those about a ring: the slots a push and a pop use,
  and that the contents after a push are the contents before with the
  message appended, after a pop their tail, by arithmetic on positions modulo
  the size of the ring.
- `SystemProofs`. `SystemInvariant` is that of the booted machine; `SystemStep` takes it
  through every action by one lemma for each thing an action can be, and
  `SystemTypes`, `SystemNeverStops`, `SystemAnswers` and `SystemOwes` follow. Its parts:
  - whoever runs does so on its own account (`Own`), to serve a caller that is blocked on
    it (`Called`), as namespace for memmgt, which init waits for (`Nested`), or with
    the answer to that (`Back`); everybody else is at rest (`Rests`): a user program between
    two operations or before its first, a service with an empty queue and no token. This
    is what makes a queue of one message enough, a call always go through, and each
    answer be the one that was asked for (`AnswersMatch`).
  - the order of the run queue while programs are started (`Order`). init naps by going
    round; the invariant says how far in the queue each program is that has not
    run yet, and that a nap is over only when all of them have registered. Without it a user program could
    look up a daemon that has not registered, get NULL and stop the machine.
  - what namespace and the programs know of each other (`Bound`): a service that has
    registered is bound, at its own port, and the references programs hold are to it.
  - how many calls were made (`Counted`): at most as many as `Made` has members, a subset of
    the calls the programs can make at all (`CallIds`), so no number comes twice.

  Two assumptions. `Daemons <= 7`, for init's three naps cover so many programs that start
  (the code has three: uart, AES and sha); this is where the code's timing by naps
  is really needed, since with many more daemons, 24 say, TLC finds `NeverStops` violated. And
  fewer calls than `kernel_creturn` can tell apart (`CallBound < REPLY_MOD`), as above.
  A program that waits for a method its service does not have (`stale_token`) may end the
  machine; the invariant holds up to there (`Dead`).
- `MailboxProofs`. `RingIsFifo`: `Mailbox` implements `Fifo`.
- `MemmgtProofs`. `BookInv` is inductive: the chunks tile the pool, each mapping owns
  a used chunk as long as its pages and one more, no two own the same, each used
  chunk is owned, and dirty pages are in mappings. Its core are two lemmas, that
  splitting a chunk adds exactly one chunk and that changing a status changes
  none. From it follow `ChunksTile`, `MappingsDisjoint`, `BookAgrees` and `MemoryScrubbed`.
- `MemmgtProofs`, of the loader. The steps of `Loader` change the book as memmgt does, so
  `BookInv` holds there too. What is added: the heap capabilities of the modules
  start where mappings do that are long enough for them (`Backed`), at different ones for different
  modules, that only one module is in init's pool, the same of the module that is
  being loaded. That a chunk has a page more than its mapping covers the rounding of
  `load_module`. From it follow `ModulesStayApart` and `LoadTypes`.
- `SocketUseProofs`. `SocketInvariant` strengthens the properties by four parts:
  sockets not yet handed out are blank (`Fresh`), a port leads to a socket that was
  created (`BoundOn`), and so does a connection (`PeerOn`), and a socket that was not
  connected again sends to those that send to it, hence to one (`Mutual`). The last
  rests on `connect` refusing a port whose socket has a peer. From it follow
  `SocketTypes`, `MessagesInOnePlace`, `ConnectionsHaveTwoEnds` and
  `AnswersGoBack`.
- `PrgaProofs`. `PrgaInvariant` has two sides, which meet in `Asked`: what a program that is
  blocked has asked for, a function of its `pc` and data.
  - the kernel's side (`Core`): what waits in the service's queue are such questions,
    one of each blocked program with the number it expects, and what the service works on is another;
    only the service ever waits; init may always run. So the answer goes to the
    program that asked, the queue, which has room for the calls of all programs, is never full when the
    last one calls, and the scheduler always finds somebody.
  - the programs' side: each program knows something of itself (`Local`), each socket
    belongs to the one program that made it and each taken port to one that is bound to it
    (`Owned`). Hence one server and one client at most ever get past `bind`, so that
    either nobody is connected (`Unlinked`) or one pair is (`Linked`), and then the client's
    current message is in one of eight places (`Stage`): promised by the connection, on its way to
    the service, in the server's box, with the server, on its way back, in the client's box,
    with the client, or all are done. The stage says what is in both boxes and in
    the buffer; no property of the run says enough of them to be inductive.

  Each action of a program either leaves the stage alone (`QuietCall`, `QuietSleep`, `QuietExit`) or
  moves it on. A call that sends is blocked, the client's message goes into a box that the stage says is
  empty, and so `sendto` cannot fail. Assumed are that there is a socket for each program and a slot
  of the queue for each, and one more (`RoomAssumption`: with the 17 sockets and
  the 16 slots of the code it means at most 15 programs; the kernel's table
  would allow more), and `[]Fits`: the numbers of calls stay below
  what `kernel_creturn` can tell apart, as above, but stated of the behaviour, since
  programs that poll make as many calls as they like. From it follow `PrgaTypes`,
  `PrgaNeverStops`, `PrgaEchoed`, `PrgaNotFreed` and `PrgaNoSendError`, for any
  number of servers and clients, all of which want one of the two ports.
- `DiskProofs`. `DiskInvariant` is the kernel's state, the interrupt's, types, and
  one of five phases of a call: none, in the driver's queue or being looked at, sent to the device,
  done by it, answered next. They say at once where the token is, that the request is
  free when a call arrives, that the interrupt is unmasked or its message on the
  way, and that the driver has at most one message, so that its queue has room.
  init is always in the run queue, so the scheduler never looks for nobody. Assumed
  are fewer calls than answers can be told apart, and an interrupt's message that is
  not one of the driver's methods. From it follow `DiskTypesHold`,
  `DiskNeverStops`, `TokenIsKept` and `DiskReadsBack`, for any number of calls,
  requests, sectors and values, and any size of the rings; the model leaves out what
  the write past the available ring destroys (`disk_ring`), so that of the code they
  say what happens up to there.
- `DiskProofs` also has `DiskUsesKernel`, the action property `UsesKernel`: each step of the three programs, the
  interrupt and the tick is a step of `Activations`, and one that does not enter the
  kernel changes nothing there. To `DiskInv` it adds `Regs`, where sync tokens are
  in the registers: none in those of the file system and none in the driver's until
  it has a call, that of the call until `vblk_send_done` clears `sync_token`, and none
  when the interrupt comes. With it what a program may return in `Activations` is what the
  driver has in memory (`Memory`) and in `c1`.

Only model-checked is liveness (`Shutdown`, `Finished`, `CallsAnswered`), which is
out of the prover's reach: every other property that a run checks and that holds is a theorem.

## Not modelled

The results of system calls in registers, the names of activations, unknown
selectors of CCall and failures to unseal a capability (each a panic or a fault
like those modelled); the permission bits of mappings; `validate_idx` and
`validate_act_caps` of namespace, which refuse what no program here sends; the
contents of messages beyond what the answers depend on; what AES, sha and uart
compute. The count and compare registers of the timer, which the kernel that is
built never starts, and interrupt number 7, which `validate_number` lets pass and no
program asks for. Sockets and ports out of range, which `sockets.c` does not
check everywhere; a `malloc` that fails in prga. More than one session of the disk driver.
The format of ELF files and the entry point they name.

dlmalloc, printf, the FAT code, the C library's strings, the benchmarks and most headers are
third-party code, data or declarations, or keep no state that others see. They are nearly all of
the repository's lines (125,669 of 167,941 are one data file of a benchmark,
`mibench_patricia/src/main.c`), so that the share of lines the modules cover is
small although the operating system's own logic is mostly there.

## Plan

1. Done: the kernel (`RunQueue`, `MsgRing`, `Mailbox`, `Kernel`, `Interrupts`, `Activations`, `Ipc`),
   the programs (`System`), memmgt and the loader (`Memmgt`, `Loader`),
   `Sockets`, `SocketUse`, `Prga`, `Disk`, and the proofs above.
2. `Namespace`, with `validate_idx`, the two halves of a binding and ports other
   than the caller's, and its refinement of a write-once table.
3. The timer's arithmetic modulo 2^32; two sessions of the disk driver,
   which share `expected_session`.
4. Proofs: that the calls in `Prga` are steps of `SocketUse`, and that the steps of
   `System` and `Prga` are steps of `Activations`, as those of `Disk` are (`UsesKernel`).
