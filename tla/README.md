# Native Client with network access control: a verification project

The repository is Google's Native Client (NaCl) of 2009 with one addition, a
network access control daemon and the client for it in the service runtime.
A *module* (an untrusted program of the user) runs in a sandbox inside
`sel_ldr`; it enters the trusted *service runtime* by system calls. This
directory holds TLA+ modules of the concurrent and stateful parts of that
code, the TLC configurations that check them on small instances, and TLAPS
proofs for instances of any size.

Paths below are relative to `src/native_client/src/` unless they start with
`third_party/`, which is `src/third_party/`.

## The system's parts

| Part | State | Operations | What is hard | What makes it correct |
|---|---|---|---|---|
| Untrusted thread library, `untrusted/pthread/nc_thread.c`, `nc_hash.c` | thread table, id counter, running-thread counter, basic data and TDB of each thread, two caches of memory blocks | create, exit, join, detach, shutdown | the exit runs on the stack it gives back; creator, child, joiner and detacher race; ids wrap | counters, ids and blocks are accounted for; a joiner gets its target's value; the main thread leaves last |
| Untrusted mutexes and condition variables, `nc_mutex.c`, `nc_condvar.c` | owner, recursion counter, kind | lock, trylock, unlock, wait, timed wait, signal, broadcast | owner is written outside the lock; the condition variable hands the mutex over | mutual exclusion, soundness of the owner check, no lost wake-up |
| Interruptible mutexes and condition variables, `shared/platform/nacl_interruptible_*.c` | lock state, waiters | lock, unlock, wait, interrupt, reset | time-outs while the lock is taken back | as above |
| Network access control, `trusted/service_runtime/linux/nacl_socks_client.c`, `nacl_validate_ip.c`, `nacl_syscall_impl.c` | a ring of 20 cached answers, its index, a global server address | `NaClIsConnectionOk`, and the eleven socket calls guarded by it | cached answers, the index shared by all threads, error paths, byte order | a refused connection is not made; an allowed one is allowed by the answer of the very server |
| Network ACL daemon, `third_party/nacl_acl_server/` | one connection, a list of ports | answer a request | one request at a time, partial input | answers the address asked for |
| Service runtime threads, `trusted/service_runtime/nacl_app_thread.c`, `nacl_syscall_common.c`, `sel_ldr.c`, `sel_ldr_standard.c` | `NaClApp`: thread array, `num_threads`, `running`, `exit_status`; per thread its suspend state | thread create and exit, module exit, main's wait | creation and death reuse LDT entries and objects; exit races the wait of main | each thread is in the array once and found by its LDT entry; the process ends with the status of an exit |
| Work queue and closures, `nacl_sync_queue.c`, `nacl_closure.c`, `nacl_bottom_half.c` | a queue, the quit flag | insert, dequeue, quit | a quit or an insertion may find the main thread about to look, waiting or running | every closure is run once, in order; a thread gets its own result |
| Descriptors, `sel_ldr.c`, `nacl_desc_base.c`, `nacl_syscall_common.c` | descriptor table, reference counts | get, set, set-available, ref, unref, close, all calls that use a descriptor | close during a call in another thread; a failing call after the slot is taken | a descriptor in use is not destroyed; one that nobody refers to is |
| Address space and memory map, `sel_mem.c`, `nacl_memory_object.c`, `nacl_syscall_common.c`, `linux/nacl_syscall_impl.c` | an array of regions, sorted lazily; a memory object per mapped region; the break | mmap, munmap, brk, search for a hole | one mmap splits, trims or covers several regions and moves entries while it runs; pages and allocation units | the regions say what the memory is; each object has one region |
| Secure channel and module start, `sel_ldr.c`, `sel_main.c`, `trusted/plugin/srpc/service_runtime_interface.cc` | `module_load_status`, `module_may_start`, `errcode` | load, report, set origin, start module, hard shutdown | main, the channel's thread and the plugin, any of which may go away | the three agree on whether the module started; a call ends |
| Audio, `nacl_bottom_half.c` | `ready`, `size`, `first`, `shutdown`, `have_audio`, SDL's device | init, shutdown, stream, callback | two threads take turns with a mutex held across a wait; the flag is set outside of it | blocks are filled while lent; a shutdown ends |
| Keys and once, `nc_thread.c`, `nc_mutex.c` | a generation and a destructor per key; per thread a generation and a value; `done` and its lock | create, delete, set, get, destructors at exit; once | compare-and-swap on the generation, the destructor written apart from it; a first look without the lock | values belong to the present use of a key; the routine has run once when anybody returns |
| IMC transfer, `trusted/desc/nrd_xfer.c`, `nacl_desc_imc_shm.c`, `nacl_desc_conn_cap.c`, `shared/imc/linux/nacl_imc.cc` | handles, descriptors and numbers of a message under way | imc_sendmsg, imc_recvmsg, close | every step may fail with handles or descriptors in hand; a close races a send; the host has no room for handles | each handle received has one owner; a message brings the descriptors that were named |
| SRPC, `shared/srpc` | the queue each way, the send buffer, the request id | call, dispatch, respond, end of the channel | bytes of a failed put stay in the buffer; all requests have the same id; either side may end | an answer is that of its call; a call returns |
| Validator, `trusted/validator_x86` | tables of instruction starts and of jump targets, the instruction before | decode, remember targets, finish; and what the processor does then | pairs of a mask and an indirect transfer over the end of a block; targets at either end of the text | accepted text is never left or entered inside of an instruction |
| Name service, `fs/obj_proxy.c`, `generic_container/`, `dyn_array.c` | maps of names and objects | insert, find, remove | growth | a map is what it was told |
| Browser plugin, SDL, outer sandbox | many | browser callbacks, host calls | outside of this repository's control | - |

## How the parts interact

The thread library calls the service runtime: `thread_create`, `thread_exit`
and the mutex and condition variable calls. The service runtime keeps every
object a module can name in the descriptor table; a system call on a
descriptor takes a reference for as long as it runs. The socket calls ask the
access control client, which caches the answers of the daemon. Multimedia
calls go through the work queue to the main thread of `sel_ldr`, which is also
the one that waits for the module's exit; the threads of the module, its exit
and the commands of the browser meet in `struct NaClApp`.

What is shared and how it is protected decides how the modules are cut into
actions. A section under a mutex whose data is touched only under that mutex is
one action. What the code does outside of its locks (the owner of a pthread
mutex, the `joinable` flag that `pthread_exit` reads early, the store of a new
thread's id, the ring of cached answers, the destructor of a descriptor) is a
step of its own.

## The modules and the code

| Module | Models | Proofs | Runs |
|---|---|---|---|
| `NcThread` (`MCNcThread`) | `untrusted/pthread/nc_thread.c`, `nc_hash.c` | `NcThreadProofs` | `thread_safety`, `parts_waiting`, `nested_shutdown`, `detach_race` |
| `NcMutex` (`MCNcMutex`) | `untrusted/pthread/nc_mutex.c`, `nc_condvar.c`, `shared/platform/nacl_interruptible_mutex.c`, `nacl_interruptible_condvar.c` | `NcMutexProofs` | `parts_runtime`, `parts_waiting`, `mutex_timedwait`, `mutex_condwait` |
| `NcKeys` | thread-specific keys of `nc_thread.c` | `WaitingProofs` | `parts_waiting` |
| `NcOnce` | `pthread_once` of `nc_mutex.c` | `WaitingProofs` | `parts_waiting` |
| `NetAcl` (`MCNetAcl`) | `trusted/service_runtime/linux/nacl_socks_client.c`, the use made of it by the socket calls, the daemon's answers | `NetAclProofs` | `acl_cache` |
| `NaClApp` | threads, exit, work queue: `nacl_app_thread.c`, `nacl_syscall_common.c`, `sel_ldr_standard.c`, `nacl_sync_queue.c`, `nacl_bottom_half.c`, `arch/x86/nacl_tls.c`, `linux/x86/nacl_ldt.c` | `NaClAppProofs` | `app_threads` |
| `DescTable` (`MCDescTable`) | `sel_ldr.c`, `trusted/desc/nacl_desc_base.c`, `nacl_memory_object.c`, and the system calls that take references | `DescTableProofs` | `desc_refs` |
| `VmMap`, `PageMap` | `sel_mem.c`, `nacl_memory_object.c`, mmap, munmap and brk of `nacl_syscall_common.c` and `linux/nacl_syscall_impl.c`; `PageMap` is what they promise | `VmMapProofs`, `RuntimeProofs` | `parts_runtime` |
| `ImcTransfer` | `trusted/desc/nrd_xfer.c` with the classes it converts, imc_sendmsg and imc_recvmsg, `shared/imc/linux/nacl_imc.cc` | `RuntimeProofs` | `parts_runtime`, `imc_stray` |
| `Validator` | `trusted/validator_x86/ncvalidate.c`, `ncdecode.c`, and the processor | `RuntimeProofs` | `parts_runtime` |
| `ModuleStart` | `sel_main.c`, the secure channel of `sel_ldr.c`, the plugin's calls | `WaitingProofs` | `parts_waiting`, `start_error` |
| `AudioStream` | audio of `nacl_bottom_half.c` | `WaitingProofs` | `parts_waiting` |
| `SrpcChannel` | `shared/srpc`: `invoke.c`, `rpc_serialize.c`, `imc_buffer.c`, `rpc_server_loop.c` | `WaitingProofs` | `parts_waiting` |
| `MCParts` | nothing of its own: it puts components side by side, for the two runs `parts_runtime` and `parts_waiting` | - | both |

The other `MC` modules hold only symmetry sets and the sets of programs a run
considers. In `MCParts` the initial state chooses one of the components in
`Parts`, and only that one takes steps, under its own fairness; its properties
speak of it alone. The components it holds do not share state: their composition
is a choice, and the run is as large as the sum of them. The proofs about these
components are for their own specifications, and carried over to the composition:
`RuntimeProofs` has those of the run `parts_runtime`, `WaitingProofs` those of
`parts_waiting`. The memory map has a module of its own, `VmMapProofs`, which
`MCParts` instantiates so that `RuntimeProofs` may cite its lemmas.

Definitions keep the names of the functions they model, without the prefixes
`NaCl` and `pthread_`. A definition whose comment says *faulty
variant* is a plausible bug: `PROJECT.json` pairs each property with the
variant that breaks it, so that no property holds for want of substance.

### NcThread: threads of the untrusted library

`basic` is the `nc_basic_thread_data_t` of each thread, `tdb` the
`nc_thread_descriptor_t` in each TLS block, `mem` the two caches of
memory blocks: the queue, the `is_used` flags and what `malloc` gave.
`table`, `nextId`, `wrapped` and `running` are the globals; `regs` is what a
thread runs on, its TLS through `%gs` and its stack; `saved` and `on` are
locals. Ghosts: `parent`, `claimed`, `meant`, `delivered`.

`pthread_create` is `CreateAllocate` (the first section under the lock, blocks
and basic data included), `CreateStart` or `CreateRefused` (the system call),
`CreateStoreId`, `CreateCount` (the second section) and `CreateCleanup` (the
error path). `pthread_exit` is `ExitBegin` (its reads before the lock),
`ExitLocked` (the section: hash table, blocks, join signal, counter, last-thread
signal) and `ThreadExitSyscall`, in which the service runtime clears the
`is_used` flag of the stack the thread has just left. `JoinCall` and `JoinWake`
are `pthread_join` to its wait and after it; `Detach` is `pthread_detach`;
`MainExit` and `Shutdown` are the main thread's way out. Condition variables
may wake without a signal.

`MaxThreadId` stands for `0xfffffffe`, so that the search for a free id after
the counter has run out happens; `MaxCachedMemoryBlocks` stands for 50, so that
the trimming of the cache happens. `Init` chooses a program from `Programs`: who
creates threads, which of them, who may be joined or detached, and whether each
thread is joined or detached once, which is what POSIX allows (`one_claim`).

### NcMutex: mutexes and condition variables

`owner`, `recursion` and `mutex_type` are the fields of `pthread_mutex_t`,
`held` the `lock_state` of the service runtime's mutex. A wait is on one of two
condition variables: that of the interruptible mutex, or the module's own. The
untrusted side writes `owner_thread_id` after the system call has returned
(`LockDone`) and clears it before the unlock call (`UnlockCall`), and these
steps interleave with everything. `Init` chooses one program from `Uses`: a kind
of mutex and the calls made besides lock, trylock and unlock. `Disciplined` says
which programs the safety properties are for; the other programs are in the runs
that show why.

### NetAcl: the cached verdicts

`ring` and `index` are the ring buffer of answers and its counter, which no lock
protects: an iteration of the scan, the load and the store of the index, the
store of the address, the copy of the bitmap and the final test are separate
steps. A port's bit is addressed as the code does it: the daemon by host order,
the client by network order (`Swapped`). `serial` says whether the module calls
from one thread at a time; `Init` leaves it open, so that one run covers both.
A short `recv` is in the model: what did not arrive is 0 in the cleared buffer.

### NaClApp: threads, exit and the work queue

`Natps` are addresses `malloc` may return for a `struct NaClAppThread`: an
object is reused as soon as it is freed. `ldt` and `nacl_thread` are the LDT and
the table that a system call's first instruction looks into. A thread is created
by `AllocateThread`, `AppThreadCtor` (LDT entry and lookup table) and
`ThreadCtor`, registers itself in `ThreadLauncher`, and ends in `ThreadSuicide`
(which leaves the lookup tables and the thread array in the order of the code)
and `AppThreadDecRef`, which frees LDT entry and object. `CtorFails` is the
path on which an object is dropped without being freed: its LDT entry stays
taken, and the model keeps it as `lost`. `SysExit` and `SetExitStatus` are the
two halves of `NaClCommonSysExit`: the queue is told to quit, then the status is
written. The main thread takes closures from the queue, runs them, and waits
while `running`; it keeps `nap->mu` when it has read the status.

### DescTable: references to descriptors

A *place* is a pointer that owns a reference: an entry of `desc_tbl`, the
object of a thread's system call, a second object of one that has two (the
mutex of a wait, a descriptor that is sent or received, a mapping that is being
dropped), and a region of the memory map. `holds` maps places to objects and
`ref_count` is the count the code keeps. The actions move pointers and call
`NaClDescRef` and `NaClDescUnref` where the code does; that the count and the
pointers agree is the property, not an assumption. The destructor runs after
the object's lock is released and is an action of its own. A mapped region has
one entry of the memory map; `VmMap` has the splitting of entries.

### VmMap and PageMap: the memory map

`vmentry` is the array of regions up to `nvalid`, in the order it has in the
code: `Update` marks, cuts and appends, `RemoveMarked` fills the places of
removed entries from the end, and only `MakeSorted`, which searches call first,
sorts. `objs` is the set of memory objects that are allocated, `mem` what the
host has at each page as its mmap and mprotect leave it, `brk` the break. A call
holds `nap->mu` from the search to the last update, so a call is one step;
pages are numbers and a mapping's content a file with an offset. Zeros after the
end of a file and the inaccessible pages up to the allocation unit are there
(`Mmap` maps in three pieces, as the code does).

`disturbed` marks the states after a module has mapped or unmapped over its own
data, or after the host has refused the inaccessible pages, which the code only
logs (`nacl_syscall_common.c:1301`). From then on the map and the memory may
differ in content, and the invariants claim only that no two regions share a
page or an object. `PageMap` is the promise: a table with
a protection and a content for each page, and mmap, munmap and brk as
changes of intervals of it. `ImplementsPageMap` is the refinement, with the
page table read off the regions.

### ImcTransfer: descriptors between modules

The sender has a table (`named`) and the handles behind it (`opened`); its
`imc_sendmsg` takes references (`GetDescs`), sends (`SendMsg`, `SendFails`) and
drops them, while `Close` may come in between. A message has the type tags of
the descriptors and, apart from them, the handles of those that have one, in the
order of their descriptors (`InOrder`). The receiver's calls go through
`RecvMsg` (the lowest handles that are free, as many as the host has room for),
`Internalize` for each tag in turn, which takes the first handle left in
`kern_handle` or none, `DropExcess`, `Install`, `Cleanup` and `Return`, and any of
them may fail where the code can. Two failures are not like the others, and the
model has them as the code does. A call that has no memory for `recv_buf`
(`RecvBufFails`) comes to its cleanup before `kern_handle` has been set, which
the field `unset` says; its loop closes what is on the stack, numbers that are no
handles or a handle that somebody has (`CloseStray`), and then the ghost
`strayed` is set. And a shared memory constructor that fails (`CtorFails`) is not
looked at: its handle has left `kern_handle`, and what takes its place in
`new_desc` is `Hollow`, a descriptor without methods and without the handle; the
ghost `lost` has such handles. Using or dropping `Hollow` ends the process
(`Crash`), which closes its handles. What is in `new_desc` is a name or a handle of
the receiver. Descriptors are of three classes: those that send a handle
(`ByHandle`), those that send only bytes (`ByName`), and those that cannot be
sent (`Fixed`). The ghost `meant` is what the sender named.

### Validator: the text and the processor

Instructions are abstracted to kind, length, the register of a mask or an
indirect transfer, and the target of a direct one; a text is any sequence of
them, chosen while it is decoded. `Decode` is one turn of the loop of
`NCDecodeSegment` with `ValidateInst` and `RememberIP`; `vttable` and `kttable`
are the tables of starts and targets; `Finish` compares them. Then the processor
runs the text: it falls through, jumps, jumps through registers that hold
anything, or is entered by the service runtime at an aligned address
(`NaClSyscallCSegHook`).

### ModuleStart, AudioStream, SrpcChannel, NcKeys, NcOnce

`ModuleStart` has main from the load to the module's exit, the channel's thread
in `set_origin`, `start_module` (split at its wait and at its answer) and
`hard_shutdown`, and a plugin that calls, waits and may vanish. `load_module` is
for a launcher whose main is not in the source.

`AudioStream` splits each function where it takes or gives back a mutex;
`nacl_multimedia_mutex` is `holder`, since `audio_stream` keeps it across its
wait. `audio_shutdown` sets the flag under no mutex, a step of its own. SDL's
close lets a callback that has begun end.

`SrpcChannel` keeps what a message's bytes do to the next message: `leftover` is
a send buffer that was not reset, and the message behind it is `torn`. Request
ids are those of the code, all 0.

`NcKeys` makes each access to a generation a step; `Increment` wraps around at
`UintMax`. `use` numbers the uses of a key, so that a value and a destructor can
be told to belong to the present one. `NcOnce` follows the two looks at `done`.

## What the runs check

All runs end within the bounds below; none uses a state constraint.

| Run | Bounds | Shows |
|---|---|---|
| `thread_safety` | main and 3 threads, 2 ids before the search for one begins, 3 blocks of each type, no block spared from trimming; symmetric threads and blocks; main creates all and each is joined or detached once, or main and two others create each other and join and detach anybody at any time | the running counter accounts for every thread (`CounterAccounts`); no two live threads share an id, after the counter has run out too, and id 0 is main's (`IdsUnique`); stacks and TDBs are exclusive although a stack is queued by the thread that runs on it (`StackAndTdbExclusive`); where only main creates, it leaves last (`CreatedByMainAwaited`); no block is lost or queued twice, whichever way creation fails (`BlocksAccounted`); a join returns its target's value, whatever ids were reused, and its target's data stays (`JoinDelivers`, for programs that claim once) |
| `nested_shutdown` | main and 2 threads, one of which creates the other | **violated**: see findings |
| `detach_race` | main and 1 thread | **violated**: see findings |
| `mutex_timedwait`, `mutex_condwait` | 2 threads | **violated**: see findings |
| `acl_cache` | 2 threads, 3 addresses and `INADDR_ANY`, a ring of 2, 3 answers | serial calls: the ring keeps the latest answers (`RecentAnswersKept`) and verdicts are theirs (`VerdictFromAnswer`); racing calls: no granted bit is made up (`SetBitWasReceived`) |
| `app_threads` | 3 thread objects, 2 LDT entries, 2 operations a thread, 2 statuses, fairness | thread array, counters and LDT entries agree (`ThreadsAndSlotsCounted`); lookups find the caller while objects and entries are reused (`LookupFindsOwner`); each operation is in one place (`OneOperationEach`) and answered (`OperationAnswered`); exit ends the process (`ExitEnds`) with a status that stands (`StatusStands`) |
| `desc_refs` | 3 threads, 3 objects, 3 entries, 1 mapped region; symmetric threads and objects | `CountsReferences`, `HeldIsAlive`, `DestroyedOnce` |
| `parts_runtime` | mutexes: 3 threads, 2 recursive locks, all programs of `MixedUses`; memory map: 12 pages, units of 2, 3 calls; IMC: 3 descriptors, one of each class (that with a handle is shared memory), 2 symmetric receiving threads, 2 handles, 2 messages, up to the first stray close; validator: all texts of 6 bytes, blocks of 2 | `MutualExclusion`, `OwnIdMeansHeld` and `RecursionMatches` for disciplined programs, `WaiterIsWoken` for all; regions say what the memory is, own their objects and find holes, and implement a page table (`MapMatchesMemory`, `ObjectsOwned`, `HolesFound`, `ImplementsPageMap`); until a stray close handles have one owner, but for those given to a constructor that failed, and messages bring what was named (`HandlesOwned`, `DescriptorsMatch`); accepted text is not left or entered inside of an instruction (`Contained`) |
| `parts_waiting` | mutexes: 3 threads; start: one plugin; audio: 2 sessions; keys: 2 threads, 1 key, generations up to 5, 4 uses; once: 3 threads; threads: main and 2; SRPC: 3 calls; fairness | `FreeMutexIsTaken`; `StartAgreed`, `StartAnswered`; `BlocksFilled`, `ShutdownEndsWaits`; `ValuesOfThisKey`; `OnceBeforeReturn`; `JoinReturns`, `ShutdownCompletes`; `AnswersMatch`, `CallReturns` |
| `imc_stray` | the IMC part of `parts_runtime` | **violated**: see findings |
| `start_error` | one plugin | **violated**: see findings |

**Why the bounds are enough.** The hazards involve two threads and the object
between them; a third thread is there to reuse what the first gave back. Three
ids for four threads exhaust the id counter; a ring of two entries with three
addresses wraps around; two LDT entries for three thread objects make creation
fail and entries be reused. A mapping of 6 pages at one of three places of 12
pages covers, splits or trims at either end one or several regions, and three
calls are what it takes to split a region, cut the parts and move entries from
the end. Two messages with up to two descriptors exceed a table of two handles.
Six bytes hold a pair of a mask and a transfer on either side of the end of a
block, before and after a jump target. With generations up to 5 a key is
used twice before its last generation. Every disjunct of every next-state relation fires
in a passing run. What is proved (below) does not depend on these bounds.

**Deadlock.** `acl_cache`, `desc_refs`, `nested_shutdown`, `detach_race`,
`mutex_timedwait`, `mutex_condwait` and `imc_stray` check it. In the others
the system may stop: programs join themselves or the main thread
(`thread_safety`), lock themselves out (a fast mutex locked twice, a wait nobody
signals), or end, as processes, texts and channels do.

**Fairness.** A thread inside the library or the service runtime is scheduled
by the host: weak fairness of its steps. `NcThread` also assumes that a thread's
function returns, and that the main thread calls exit, if it can do so again and
again (strong fairness of `ExitBegin` and `MainExit`), which is a property of
terminating programs; it is needed since a running thread is also free to make
other calls. Of `ModuleStart` main and the channel's thread run, and a call to a
process that has ended fails, which the socket tells; the plugin and the module
owe nothing. Of `AudioStream` the main thread, SDL's and the module's audio thread
run when they can, and SDL calls back while the device plays; when the module
asks for a block, a start or a shutdown is left open. Of `SrpcChannel` both ends
read what has arrived and methods return. Nothing is assumed of signals beyond what the code sends, of
spurious wake-ups, of time-outs, of the order in which waiters are chosen, or of
system calls a module may make.

## What is proved

For every value of the constants that satisfies the assumptions of the modules
(below the table):

| Module | Theorem | Property |
|---|---|---|
| `NcThreadProofs` | `ThreadsKeepTheirBlocks` | `StackAndTdbExclusive` |
| | `BlocksAreAccounted` | `BlocksAccounted` |
| | `RunningThreadsCounted` | `CounterAccounts` |
| | `MainAwaitsItsThreads` | `CreatedByMainAwaited` |
| | `JoinsDeliver` | `JoinDelivers` |
| | `IdsStayUnique` | `IdsUnique` |
| `NcMutexProofs` | `TypesHold` | `TypeOK`, with the bound of the recursion counter |
| | `MutexExcludes` | `MutualExclusion` |
| | `OwnerCheckSound` | `OwnIdMeansHeld` |
| | `RecursionCounts` | `RecursionMatches` |
| | `NoLostWakeup` | `WaiterIsWoken` |
| `NetAclProofs` | `TypeCorrect` | `TypeOK` |
| | `NoBitMadeUp` | `SetBitWasReceived` |
| | `LatestAnswersKept` | `RecentAnswersKept` |
| | `VerdictsFromAnswers` | `VerdictFromAnswer` |
| `NaClAppProofs` | `ThreadsAreCounted` | `ThreadsAndSlotsCounted` |
| | `CallersAreFound` | `LookupFindsOwner` |
| | `OperationsAreSingle` | `OneOperationEach` |
| | `StatusIsFinal` | `StatusStands` |
| `DescTableProofs` | `TypesHold` | `TypeOK` |
| | `CountsExact` | `CountsReferences` |
| | `NothingDangles` | `HeldIsAlive` |
| | `UnusedDestroyed` | `DestroyedOnce` |
| | `FatalUnreached` | `NoFatal` |
| | `NumbersKept` | `EntryKept` |
| `VmMapProofs` | `MapSound` | `MapInvariant`, the inductive invariant |
| | `RegionsOwnObjects`; `RuntimeProofs`: `ObjectsInParts` | `ObjectsOwned` of `VmMap` and of `MCParts` |
| | `MapIsTrue`; `RuntimeProofs`: `MemoryInParts` | `MapMatchesMemory` of the same |
| | `HolesAreFound`; `RuntimeProofs`: `HolesInParts` | `HolesFound` of the same |
| | `MapImplementsTable`; `RuntimeProofs`: `TableInParts` | `ImplementsPageMap` of the same: `VmMap` refines `PageMap` |
| `RuntimeProofs` | `AcceptedContained`, `ContainedInParts` | `Contained` of `Validator` and of `MCParts` |
| | `NoHandleLeaks`, `HandlesInParts` | `HandlesOwned` of `ImcTransfer` and of `MCParts` |
| | `ReceivedAsSent`, `DescriptorsInParts` | `DescriptorsMatch` of the same |
| `WaitingProofs` | `RoutineOnce`, `OnceBeforeReturnInParts` | `OnceBeforeReturn` of `NcOnce` and of `MCParts` |
| | `ValuesCurrentForever`, `ValuesInParts` | `ValuesOfThisKey` of `NcKeys` and of `MCParts` |
| | `StartedAsAgreed`, `StartAgreedInParts` | `StartAgreed` of `ModuleStart` and of `MCParts` |
| | `CopiesIntoLent` | `BlockLent` of `AudioStream` |
| | `ReturnsFilled`, `BlocksFilledInParts` | `BlocksFilled` of `AudioStream` and of `MCParts` |
| | `OwnAnswers`, `AnswersMatchInParts` | `AnswersMatch` of `SrpcChannel` and of `MCParts` |

*Assumptions.* Each is a named `ASSUME`, which the runs evaluate: that special
values (no thread, no block, closed, `INADDR_ANY`) are not among the proper ones;
that sizes and bounds are natural numbers, and rings and tables not empty; that
threads, blocks and objects are finite where something is counted. Components that
`MCParts` holds state theirs as `Bounds`, and `MCParts` assumes it of its instances.
`Bounds` of `VmMap` is the layout of the address space that `FirstRegions` sets
up (text, data and stack in this order, the start of the stack and the end of the
address space at units of allocation), and offsets in files are at units, as
mmap demands. It says nothing of how many regions, objects or calls there are.
Apart from that layout and that of the text nothing relates sizes: there may be more threads than LDT entries, more handles sent
than the receiver has room for, more answers than the ring keeps.

Each proof has an inductive invariant that says of every place in the code what
the thread there relies on. Below is what it adds to the property, and why.

*NcThread.* That two threads never share a stack is not inductive: what is in
the caches, in creation, in use and left behind has to be known. `Ownership` has
that: where a thread is fits its locals (`Places`), the TLS area of a thread
points back to it (`TdbOwned`), its stack is that of its TLS area alone, and a
leaving thread's stack is queued but `is_used` (`StackOwned`), the queues hold
blocks once (`QueuesSound`), and a block that is not queued has an owner
(`NoneLost`). The counter needs how many threads have been started and not counted,
a cardinality. `IdsBelow` says why a new id is free: until the counter has run out
all ids in the table are below it, afterwards the search skips them, and the counter
does not come back to 0, main's id. `Claims` is for programs that join or detach each
thread once: the data of a thread that nobody has claimed is in the table under
its id and says how it ended, and that of one that is waited for stays
(`Awaited`). `OnlyMainCreates` is the condition under which the counter cannot pass through
1 early, the converse of the finding `nested_shutdown`.

*NcMutex.* Mutual exclusion is not inductive: a thread in the library may hold
the mutex without being in its critical section, and the unsynchronised owner
may be stale. `HolderInv` says, for each place of the code, who must be the
holder when that place is reached, and that a thread that is asking for the mutex
does not find its own id in it. `DepthInv` ties the ghost depth to the recursion
counter for each kind of mutex. Both hold for disciplined programs only; types
and `WaiterIsWoken` hold for all.

*NetAcl.* That every bit in the ring and in every thread's buffer was received
(`BitsReceived`) survives all races, since entries are only ever overwritten by
buffers. The other two theorems are about calls that come one at a time
(`SerialInvariant`): the index is the number of answers (`IndexCounts`), what the
scan did not find is not in the ring until it is filled in (`ScanStands`), an entry has
the last answer of its address unless it is half filled (`EntriesCurrent`), and the
last answers are each in the entry of its number, from different addresses
(`RecentInPlace`). The last two need that the entries of two answers less than a ring
apart are different (`EntriesApart`), which is arithmetic of `%`.

*NaClApp.* `Table` says that `threads` and the numbers in the threads are inverse
to each other and counted, `Entries` that the LDT entries in use and those of
the objects are, and `Creations` that an object under construction is its creator's
alone. `Lookup` is the delicate one: an entry of `nacl_thread` is cleared before the LDT
entry is freed, and written after it was taken, so it never names another object than the
one that has the entry. `Operations` says that an operation somebody waits for is in
exactly one of the queue, the hands of the main thread and the result. That the thread
array has a free index (so that `NaClAddThread` does not end in `LOG_FATAL`) is a
pigeonhole argument on the cardinality of `InModule`.

*DescTable.* The invariant has exact counts (`Counted`), that an object with a
count is allocated (`Allocated`), what each thread holds where it is
(`InCall`), that a thread in the destructor is alone with an object of count 0
(`Dying`), and that every allocated object without a count has such a thread
(`Reaped`). The lemmas `Counting` and `CountType` relate the change of one place
to the cardinality of the set of holders; each action then is one or two such
changes.

*VmMap.* `MapInvariant` is `Whole`, which holds whatever a module does, and, until
something is disturbed, `Faithful`. `Whole` says that no two regions share a page,
none is empty or marked, each object has one region and there are no others
(`Sound`), that the first and the last page of the address space stay in
regions, and where the break is. `Faithful` says that mapped parts are in their
files, that the regions say of each page what the host has there, and that the
pages from the end of the text to the break are anonymous and writable. Each
is needed: the searches look only between two regions, so a hole below the first
or above the last would be missed if one of these could go; `brk` grows the region
that holds the last page before the break, and what it then says of the new pages
is true only if that region has no file behind it; and that there is such a
region at all needs every page up to the break to be held, which is where mapping
over the data does harm. In `Whole` the break need not lie in a region, since a
module may unmap it, after which `brk` is the fatal error it is in the code.

The argument follows a call through the array. The lemmas `SortedArray` and
`MarkedRemoved` say that `MakeSorted` and `RemoveMarked` change the order of the
entries that are kept and nothing else. Entries do not overlap, so that one at most reaches past the end of a new
region, and the loop of `NaClVmmapUpdate` may be read as one cut of all entries
and one change of an object (`Reaching`, `Change`). `Value` and `ValueAt` say what
an array means page by page; `Changed`, `Added` and `Updated` are the promises of
the parts of an update in these terms, `MmapResult`, `CallRange` and `Grown` those
of the calls, and from them come the invariant and the refinement alike. The one
loop whose order matters is that of `RemoveMarked`, which fills places from the end:
it is a recursive function, and the proof takes a least number at which its
promise fails (`LeastNumber`, `AllNumbers`) where an induction over a predicate
cannot be cited. The refinement maps the
table of `PageMap` to what the regions say of each page: `munmap` and `mmap` are its
`Call`, `brk` its `GrowBreak` or `MoveBreak`, and sorting is a stutter.

*ImcTransfer.* `Sound` says that the invariant, `ImcInvariant`, holds until a call
without `recv_buf` has closed an open handle, and `StrayedStays` that this is not
forgotten; every other step keeps it, `CtorFails` and `Crash` included. Ownership:
each open handle of the receiver is in one place of one call, or in the table, or was
given to a constructor that failed (`OnePlace`, `Ownership`); the lemmas `TailOwns`, `LessOwns`
and `MoreOwns` say what the moves between the lists do to that. That descriptors
are those that were named, or without methods where a constructor failed (`Is`), needs the sender, too: it has open what it may still
send, since a system call holds its references while another thread closes
(`SenderHolds`). `Aligned` is the heart of it: the handles that are left are those
of the first of the tags left that have one. It holds of each message in the queue
(`QueueSound`) and stays true as `Internalize` takes tags and handles from the
front, whatever the host has cut off at the end. `Internalizing` and `Delivering` say
how far a call has come.

*Validator.* `CodeChecked` says what the pass has established of every
instruction before `vpc`: it was decoded after its predecessor, its direct
target is in `kttable`, it is in `vttable` exactly if it is a start that may be
entered. `TransfersMasked` says that an indirect transfer is preceded by the mask
of its register, is not itself in `vttable`, and starts no block. `Inside` is
the processor's part: where it is, and what it has just masked. That no block
starts inside of an instruction is needed for indirect transfers and for the
entry from the service runtime, both of which are aligned. The theorem holds for
every set of instructions that `Bounds` admits.

*NcKeys.* A generation read earlier must not be found again after the key was deleted
and made anew: `Generations` says that what was read, or stored with a value, is no
later than the key's, and that the code stops using a key before its generation wraps
around. `KeysTaken` says that the compare-and-swap gives a key to one thread, which then
writes its destructor; `ValuesCurrent` that a value with the key's present generation
is of the present use, which is only so when no destructor is about to be written
(`Filled`).

*NcOnce.* The invariant (`OnceInvariant`) ties `done` to the counts of the
routine's beginnings and ends and says who has the lock where.

*ModuleStart.* `StatusSays`: whatever has been said of the load is unknown,
`LOAD_OK` or main's own error, and something has been said before main may go
on; `OneStart`: `start_module` is answered once to a plugin, so that the status a
plugin was given is not read again.

*SrpcChannel.* A request, a method and a response are each that of the call the
client waits for, and there is only one of the three; a request that can still
be read has not run. Since all ids are 0 nothing else keeps a late answer from
the next call.

*AudioStream.* A block that is ready has a callback that waits for it until a
shutdown is announced (`Lent`), and the module calls `audio_stream` again only
with a block that is ready (`BlockAwaits`), so no block is lent between the copy
and the hand-over. The copy itself runs without `audio.mutex`: what protects it
is `nacl_multimedia_mutex`, which keeps the device open (`Locks`, `Device`).

**Only model-checked:** liveness (`JoinReturns`, `ShutdownCompletes`,
`FreeMutexIsTaken`, `ExitEnds`, `OperationAnswered`, `StartAnswered`,
`ShutdownEndsWaits`, `CallReturns`), which is beyond the prover. Every other
property of the passing runs has a theorem.

## Findings

Each is a disagreement between the code and a comment or header of the
repository, with a run that shows it; `PROJECT.json` quotes the lines.

- `nested_shutdown`: the creator counts a thread after it has started it. When a
  thread other than the main one creates a thread that ends first, the counter
  passes through 1 and `__pthread_shutdown` returns while the creator still runs.
- `detach_race`: `pthread_exit` copies `joinable` before it takes the lock. A
  detach in between is not seen, and the thread's basic data stays.
- `mutex_timedwait`: a timed wait that expires skips the loop that takes the
  mutex back, and returns without it when another thread has it.
- `mutex_condwait`: a wait hands the mutex over in the service runtime without
  restoring the owner; an error-checking mutex then refuses to be unlocked by the
  thread that has it.
- `imc_stray`: when `recv_buf` cannot be allocated, `NaClImcRecvTypedMessage`
  cleans up before it has set `kern_handle` to `NACL_INVALID_HANDLE`, and closes
  what the stack has there; if that is a handle of the process, whoever has it
  uses a closed one and closes it again.
- `start_error`: `main` keeps an error of the check, the load or the preparation
  in `module_load_status` so that the plugin is told, and then overwrites it with
  `LOAD_OK`; a `start_module` call that reads it afterwards is told that all is
  well, and the process exits.

Seen while reading, without a run: `NaClIsConnectionOk` returns 0 when the port's
bit is clear (`nacl_socks_client.c:24`), where the header says that 0 means permission
(`nacl_socks_client.h:27`), and looks the bit up in network order while the daemon
sets it in host order (`third_party/nacl_acl_server/nacl_socks_server.c:28`);
the failure of `NaClDescImcShmCtor` is ignored (`nacl_desc_imc_shm.c:374`), which
leaves its handle to nobody and hands on a descriptor without methods; when `malloc` of the basic data fails,
`pthread_create` follows an uninitialised pointer (`nc_thread.c:488`); the access
control client leaves its socket open when connect, send or recv fails
(`nacl_socks_client.c:64`), its entries never expire (47) and its index overflows
after 2^31 answers (127); when every thread of a module ends with `thread_exit`
and none with `exit`, the process waits for ever (`sel_ldr_standard.c:643`);
the comment above `NaClMemObjCtor`
(`nacl_memory_object.c:44`) says that it takes ownership without touching the
reference count, while it takes a reference, which its callers rely on;
`pthread_detach` of a thread that has ended frees the basic data
that a joiner which was woken and has not run yet is about to read
(`nc_thread.c:731`), which programs that join or detach a thread once do not
meet; a join of the main thread waits for a thread that waits for
the joiner (`nc_thread.c:629`); a key's destructor is lost when
`pthread_key_delete` clears it after another thread has made the key anew
(`nc_thread.c:781`, `807`); destructors are not called when a thread's function
returns, only by `pthread_exit` (`nc_thread.c:187`, `598`; `pthread.h:561` does
not make the difference); main may end the process before the answer to
`start_module` is sent, which the plugin sees as a failed call; a call that
waits when an SRPC channel ends returns OK without an answer (`invoke.c:147`,
`rpc_serialize.c:256`); a request that does not fit leaves its bytes in the send
buffer, and the next request of the channel ends the server
(`rpc_serialize.c:998`); an answer that does not fit is dropped and its client
waits on (`rpc_serialize.c:1102`); `next_outgoing_request_id` is never
incremented (`nacl_srpc.c:144`); truncation of received data is not reported, as
the flag is set in a local header (`nrd_xfer.c:485`, against the comment at 480);
the host's refusal to make pages inaccessible is only logged
(`nacl_syscall_common.c:1301`); `pthread_mutex_destroy` looks at the owner without
synchronisation (`nc_mutex.c:82`), and `load_module` writes `module_load_status`
without `nap->mu` and wakes nobody (`sel_ldr.c:805`).

## Not modelled, and why

`PROJECT.json` lists every component. The largest files of the source are data:
the opcode tables of the decoder (`ncdecode_table.c`, `ncdecode_onebyte.c`,
generated), the glyphs of the console, the instruction printer
(`nc_inst_trans.c`) and the vectors of the ARM validator; there is no behaviour
in them to model. Out of reach: the ARM validator's patterns (functions of
instruction words), the conversions of SRPC's arguments and of IMC headers, byte
by byte, and ELF loading (sequential checks over a file image before a thread
runs); assembly. Pure I/O: host descriptors, video (a sequence of SDL calls of
one thread), logging, the outer sandbox. Not in the repository: the browser of
the plugin, SDL, the launcher that passes a module in a buffer.

Within the modelled parts: `malloc` failures of the untrusted library, thread
priorities, `pthread_mutex_destroy`, semaphores (two system calls that call the
host's), the Windows and Mac back ends, `tls_init`, statistics and logging; the
choice of the address space's base; method tables and type strings of SRPC;
user data of IMC messages; what a receiver does after it has closed a handle of somebody
else's.

Corners that are left out as no property here speaks of them, or as the bounds do
not reach them: a thread of the secure channel that cannot be made, whose result
`NaClSecureCommandChannel` ignores (`sel_ldr.c:948`), so that `set_origin` is
never answered; the flush of the answer that reports an internal error failing as
well (`rpc_serialize.c:1120`), after which nothing is sent and the server's loop
goes on; the bytes of an answer that does not fit, which stay in the server's
send buffer (`rpc_serialize.c:1102`), while its client waits for that answer and sends
nothing more; an exit of a thread whose id is 0 and that is not main,
which the guard of `ExitBegin` leaves out and of which `IdsUnique` says there is none;
a module without a data segment, since `Bounds` of `VmMap` has the end of the
text before that of the data (`sel_ldr_standard.c:85` does not demand one).

## Plan

Done: the thread library; mutexes and condition variables; access control;
threads, exit and the work queue of the service runtime; descriptors; the memory
map with its abstract specification; module start; audio; keys and once; IMC
transfer; SRPC; the x86 validator with the processor.

1. Abstract specifications: a mutex as a lock with an owner, of which `NcMutex`
   is an implementation for disciplined programs; a counted reference as a
   descriptor that lives while it is named, implemented by `DescTable`; an
   exchange of calls and answers, implemented by `SrpcChannel`.
2. Composition of `ImcTransfer` with `DescTable`, whose references both count,
   and of `ModuleStart` with `SrpcChannel`, whose channel it uses.
3. The object proxy and the dynamic arrays; the sender's side of a socket that
   is closed while a message is under way.
