# A TLA+ verification of the CS 111 projects

The repository holds the programs of an operating-systems course: a copy
program (lab0), a terminal and a remote shell (lab1), programs that measure
locks (lab2a, lab2b), readers of an ext2 image (lab3a, lab3b), and a sensor
with a command line, then with a network connection (lab4b, lab4c).  This
directory holds TLA+ models of all of them but the copy program, the TLC
configurations that check them on small instances, and proofs, checked by
TLAPS, that hold for every value of the constants.

## 1. Inventory

| part | state it keeps | operations | interacts with |
| --- | --- | --- | --- |
| `lab2a .../lab2_add.c` | the shared counter `sum`, a mutex, a spin lock | `add_none`, `add_m`, `add_s`, `add_c`, `thread_worker`, `main` | its own threads |
| `SortedList.c` (the same in lab2a and lab2b) | a circular doubly linked list with a head | `SortedList_insert`, `_delete`, `_lookup`, `_length` | called by the drivers below, under a lock or without one |
| `lab2a .../lab2_list.c` | one list, one lock, the elements | `thread_worker`, `lock_general`, `unlock_general`, `main`, SIGSEGV handler | SortedList |
| `lab2b .../lab2_list.c` | several lists, a lock for each, random keys that select a list | the same, and `init_list_and_ele`, `cleanup` | SortedList |
| `lab4b.c` | the command collected so far, scale, period, stop flag, the log | `read_command`, `proc_cur_cmd`, `report_temp`, button, `main` | standard input, the log file, the sensors |
| `lab4c_tcp.c`, `lab4c_tls.c` | the same, and the socket or the SSL object | the same, and connecting, identifying, writing to the server | the server |
| `lab1b-server.c` | socket, two pipes, the shell's pid | `read_socket`, `read_bash`, their compressed forms, `done` | client, shell, SIGPIPE |
| `lab1b-client.c` | terminal modes, socket, log | reading keys, reading the socket, compression | server |
| `lab1a.c` | terminal modes, two pipes | the same loop in one process | shell |
| `lab3a .../lab3.c` | none: a walk over an image | printing superblock, groups, inodes, directories, indirect blocks | an ext2 image |
| `lab3b.py` | tables read from lab3a's output | block, inode and directory checks | lab3a's output |
| `lab0.c` | none | copies input to output | - |

**What is hard here.**  In lab2: interleavings of unprotected and protected
accesses, lists damaged half-way through an operation, a process that exits
while its threads still run.  In lab4: input that arrives in pieces, a buffer
that still holds an earlier read, reports that race with STOP, a server that
hangs up in the middle of a batch.  In lab1b: two blocking pipes, a socket, a
child and a signal, closed in any order, while each program is inside a read,
a write or its last words; compressed data that carry no mark of where a batch
ends.  In lab3: boundaries of the arithmetic, and complaints that are decided by
the order in which the references to a block are met.  `PROJECT.json` lists each hazard at its line.

**What makes each part correct.**

- *lab2_add*: synchronised additions are atomic, so the counter ends at 0;
  no lock is left taken; main reads the counter when no worker is left.
- *SortedList*: a list at rest is a circle in both directions, with exactly the
  elements that were inserted and not deleted; and
  a length is that of an intact list.
- *list drivers*: with locks, nothing is reported as corrupted that is not,
  every lookup finds an element, nothing is used after `cleanup`, and the run
  ends with status 0; without a lock lab2a's run still ends.
- *lab4*: the lines obeyed are the lines received, in order and once each;
  reports obey STOP, START and SCALE; OFF and the button end the program with
  one SHUTDOWN; lab4c_tls logs nothing that it did not send, and lab4c_tcp at most
  one line.
- *lab1*: what is typed reaches the shell and what the shell prints reaches the
  user, whole and in order; a ^D, a shell that ends and a server that ends bring
  every program to its end; no shell is left unwaited-for.
- *lab3a*: every data block of a file is listed with its logical offset.
- *lab3b*: the complaints about a damaged image are those that an examination of
  the image itself gives, no more and no fewer.

## 2. Modules

| module | models |
| --- | --- |
| `AtomicAdd` | abstract: every worker adds +1 `niteratns` times, then -1, each at one instant |
| `Lab2Add` | `lab2_add.c`, one shared access per action, all four `--sync` modes |
| `Lab2Add_proof` | the proofs about both |
| `AtomicList` | abstract: inserts and lookup-and-deletes that each take effect at one instant |
| `SortedList` | the four functions of `SortedList.c`, one pointer access per action |
| `Lists_proof` | the proofs about both: what one undisturbed operation does to a list, and the counting argument |
| `Lab2bList`, `MCLab2bList` | lab2b's driver on top of `SortedList` |
| `Lab2bList_proof` | the proofs about lab2b's driver, its lists and the refinement |
| `Lab2aList` | lab2a's driver on top of `SortedList` |
| `Lab2aList_proof` | the proofs about lab2a's driver, its list and the refinement |
| `SensorLog` | entries of the output and the log of a lab4 program |
| `CommandReader` | `read_command` and `proc_cur_cmd`, the same text in all three lab4 programs |
| `Lab4b`, `MCLab4b` | lab4b's loop, its user, its button and the clock |
| `Lab4b_proof` | the proofs about them |
| `Lab4c`, `MCLab4c` | both network clients, the server, its hang-up and the reset |
| `Lab4c_proof` | the proofs about the clients' log and their status 0 |
| `Connection` | the TCP connection of lab1b and the zlib streams over it (external) |
| `Bash` | the shell and the two pipes to it (external) |
| `ShellServer` | `lab1b-server.c`, and `lab1a.c --shell`, whose loop is the same |
| `Lab1`, `MCLab1` | `lab1b-client.c`, the user, and the whole session |
| `Lab1_proof` | the proofs about the shell's collection and the two streams |
| `Lab3a` | `lab3.c`: the records it prints for an image |
| `Lab3b` | `lab3b.py`: the complaints it prints for such records |
| `Lab3`, `MCLab3` | a sound image, its damage, both programs, and the reference definitions |
| `Lab3_proof` | the proofs about what lab3a lists below indirect pointers |

`PROJECT.json` maps each definition to the lines it stands for.

### lab2_add

`pc[t]` is where worker `t` stands in `add_*`, `seen[t]` the local `sum` or
`prev`, `calls[t]` how many calls it has finished; `Resume(n)` is the place of
its two loops after `n` calls.  `MutexLock`, `TestAndSet`, `Read`, `Write`,
`CompareAndSwap` and `Unlock` are the accesses the C code makes to shared
memory, in its order.  main is `CreateThread`, `JoinThread` and `Report`;
`HandleError` is a failing `pthread_create`, which ends the process with its
workers at work, or a failing `clock_gettime`.  A division by zero operations ends it with
SIGFPE.  `exit` is `Running` until the process has a status.

### The lists

`SortedList` models the memory as the functions `next` and `prev` over nodes;
`NULL` is a node outside them.  `pc[p]` is the next pointer access of process
`p`, `reg[p]` its locals.  A process that dereferences `NULL` *faults*
(`Faults`), and the driver's SIGSEGV handler ends the program.  Both drivers
instantiate the module with their threads, main included, as `Procs`.

`Lab2bList` has `thread_worker`'s three loops in `loop[t]`, `LockGeneral` and
`UnlockGeneral` around each call, and `ReportCorruption` for the `exit(2)` of a
worker.  The uninitialised index of its second loop (`lab2_list.c:249`) is a
constant set, `GarbageJ`, of values it may hold; `OutOfBounds` is what happens
when it is negative.  `HandleError` is a failing `pthread_create`, or `clock_gettime`
in main before the threads and after the joins.  `cleanup` is an action of its own
because threads may still run when `handleerror` calls it.

`Lab2aList` has one list and one lock, and keys that point to one dead array.
Reading it is undefined; in every build all keys read the same bytes, so any two
compare equal, and that is how the model has it.  Its main takes the length
after the joins and exits 2 unless it is 0.

### lab4

Text is a sequence of *pieces*: a piece is a word of a command or a newline,
"" is the NUL that ends the buffer.  `CommandReader` is a function from the
global variables and the buffer to the new global variables: the loop over the
buffer runs without another actor being able to interfere.  The programs take the
module as `CR`, an instance.  `buf` is the stack
memory that `read_command` uses and does not initialise: a read overwrites its
front and the rest stays, so that `Text(buf)`, what the loop sees, may be longer
than what was read.  The history variable `stale` remembers when it was.

`Lab4b` is the loop in its order: report if due, poll, read, button.  `Tick`,
`Press`, `Type` and `CloseInput` are the clock, the button and the user.

`Lab4c` differs in what a write does.  `conn` follows the socket: open; closed
by the server; written to although closed; reset, when the server went away
without reading what it had been sent, so that the next read or write fails; and
broken, when the next write raises SIGPIPE.  The operators
`SSL_write` and `dprintf` are where the programs differ: a failed `SSL_write`
ends `lab4c_tls`; `lab4c_tcp` ignores the result of `dprintf` and dies of
SIGPIPE at the next one.  They also prepare the sensor at different moments.

### lab1

`srv` is the server: `pc` says where it stands - in the `poll()` loop, in the
middle of a buffer it forwards to the shell or replies to the client, in
`last_read()`, in `waitpid()` - `todo` is the rest of the buffer in hand,
`revents` what `poll()` found, which it sees to in the order of the code although
the world goes on meanwhile.  Every read, every character written and every call
that may wait is an action, named after the C function where there is one.
`sigpipe_handler` runs `done()` inside the interrupted write with SIGPIPE masked
(`masked`): a second SIGPIPE is then an error of `write`, and ends the program
with status 1.  In mode `lab1a` the front is the terminal: a ^C is not forwarded,
and the result of `kill()` replaces the bound of the loop (`lab1a.c:175`), so that
the rest of the buffer is dropped.

`Bash` is any shell that reads its input a character at a time, prints some of
`Output` for a line (an EOT among it, perhaps), and ends at the end of its input,
at an `exit`, when interrupted, or when nobody reads what it prints.  Its pipes
hold `PIPESIZE` pieces, and writing to a full one waits.

`Connection` tells what each side has yet to read, who has closed, and what has
become of data sent to a closed end: "owed" an answer, refused with an "error" at
the next call, or "broken".  A batch made by one `zip()` is one piece; `unzip()`
starts a new stream for every read, so that a read of anything but one whole
batch either loses what follows or hangs in its loop (`StuckAfter`).

`cli` is the client, with the same shape; `read_batch_stdin` stays in "line" until
the line is complete, whatever the server sends meanwhile.  It sends the batch by one
write (`wired`): compressed, without the NUL at its end, or plain and *with* it
(`lab1b-client.c:166`), and the server hands that NUL on to the shell like a key.
`StreamsKept` sets these NULs aside (`Received`), and `NulAfterEachBatch` says where
they are.  The user types the
keys of `script`, and may close the input at any moment.

### lab3

Both programs are sequential, so a model of one is a function: `Lab3a!main` from
an image to rows, `Lab3b!report` from rows to complaints.  `read_inode(i)` reads
inode `i + 1`, the one *behind* the inode whose bit made main call it; `Lab3b`
keeps the objects in their order, because `check_blocks` reports the first owner
of a block when it meets the second, once, and then each further one.  `Lab3`
damages a sound image in a few places (a bit of a bitmap, a pointer, a link
count, the inode of a directory entry), runs both, and compares.

## 3. The checks

Deadlock is checked wherever a run does not stop by itself: a model whose
program has ended stutters in `Terminated`, so a state without a step is a real
deadlock.  The runs that say otherwise in their .cfg really may stop:
`Lab3` when the image has been checked, `Lab1` when
both programs have ended, or when server and shell wait for each other
(`Jammed`): nothing in the code prevents that, and `QuitEndsServer` says that
nothing else does.

| run | instance | what it shows |
| --- | --- | --- |
| `lab2_add` | 3 threads, 2 iterations, all modes | the lock excludes; a synchronised run that ends normally prints 0; it implements `AtomicAdd`; the race loses updates and invents none; main exits |
| `lab2a_list` | 2 threads, 2 iterations, modes U, M, S | with a lock it implements `AtomicList`, no false report; in every mode, lists knotted by a race included, the process ends |
| `lab2b_sync` | 2 threads, 2 iterations, 2 lists, `--sync=m` | one lock per list is enough for the same; elements are conserved key by key, and no lookup fails |
| `lab2b_race` | 2 threads, 1 iteration, 1 list, no lock | what survives a race: no link is cleared, a length follows no NULL, exit 0 means an empty list |
| `lab4b` | 6 scripts, any portions | commands neither lost nor repeated unless the buffer was stale; reports obey them; OFF and button end the program |
| `lab4c` | 4 scripts, both clients | lab4c_tls's log is what was sent after the ID, lab4c_tcp's at most one line more; status 0 means SHUTDOWN was sent; a lost server is noticed by the next reports |
| `lab1` | lab1a, plain and compressed; 2 scripts, 2 pieces of output, buffers of 2, pipes of 1 | both streams whole and in order, with a NUL behind each plain batch; the shell is collected; a ^D, a dead shell and an ended server each end what depends on them |
| `lab3` | 18 blocks, 6 inodes, two pointers per block, two damages | lab3b's complaints are exactly those the image deserves; logical offsets through all three levels |
| `lab2b_garbage`, `lab4b_stale`, `lab1b_batches`, `lab4c_id` | the smallest that shows it | the findings of section 4 |

**Bounds.**  Three threads are needed in `lab2_add` for one worker to spin
while two others pass the lock to each other, two iterations for the +1 loop to
be followed by the -1 loop of another worker, and for the counter to leave and
return to the value a compare-and-swap remembers.  For the lists, two threads
with two elements each already produce the case the abstract module is about -
deleting each other's elements under the same key - and every pair of positions
inside two list operations; the theorems about `AtomicList` carry the counting
argument to any number.  The race run uses one element per thread because every additional one
multiplies the damaged lists; whether a walk round such a list ends is asked of
lab2a, with two elements per thread and the same functions.  `RandValues = {2, 10}` gives
keys of one and two digits, which `strcmp` orders otherwise than numbers, and, after the rounding
to a list, equal and different keys on each list.  `CMDSIZE` is four pieces so
that a line can reach the bound; `BUFSIZ` is above every script: a read that
fills the whole buffer runs past its end in the C code and is not modelled.
`MaxPeriod` 2 has "every turn", "every second" and every other one; it is also
the largest value that `atoi` returns in the model.

In `lab1` a pipe of one piece and a buffer of two give a server in the middle of
its buffer and a shell that cannot print at the same time, which is the deadlock
of the two pipes; two lines, and two pieces of output, are needed for output of
one command to come in several reads and for a read to cut a batch from the next.
One script ends with ^D, the other has a ^C with input behind it.  The image of
`lab3` has a file with a direct block and single, double and triple indirect
trees; two pointers per block tell the powers of `ptr_per_block` apart, and two
damages give a block three references, or a reference and a wrong bit, in every
order in which they can be listed.  `Blocks` holds a value of each kind a pointer
may have: none, reserved, a pointer block, a data block, a free one, off the
device.  Inode 6 is the last, which `lab3b.py:99` leaves out.

**Modes.**  A mutex that blocks and a spin lock that spins make the same
transitions in the list models (a spin that fails writes 1 over 1), so the
expensive run uses `M` alone; `Lab2Add` tells them apart by their variables.

**Fairness.**  Weak fairness of each worker and of main: the operating system
runs every thread that can run.  Strong fairness is never assumed, although
with it a lock would also be fair to each thread: the programs make finitely
many calls, so weak fairness is enough for all of them to end.  `HandleError`,
the failures, has no fairness.  In lab4, weak fairness of
the loop and of the clock; in lab4c also of `Reset`, because the peer's TCP
answers data for a closed socket.  In lab1, weak fairness of the server, of the
client, of `Reset`, and of the shell as far as one can rely on a shell: a command
that cannot print need not die of an interrupt.  The user, the button and lab4c's
server owe the program nothing.

**Exceptions.**  Some properties except a case that the code reaches and no document
rules out.  They say how far a promise goes, not that the case is harmless, and
`PROJECT.json` lists each of these cases as a hazard without a property: a failing
`pthread_create` frees what running workers use (`FreedWhenAlone`); a server that has
lost its connection does not collect its shell (`ShellCollected`); two full pipes, or
a shell that has more to say after an EOT, block server and shell (`Jammed`, in
`QuitEndsServer`); a client in the middle of a line does not notice the end of its
server (`ServerEndReachesClient`); lab1a drops what it read with a ^C (`mangled`); a
lab4c client that was told to STOP does not notice the end of its server
(`LostServerEndsReporter`, through `should_stop`); lab3b does not look at the last
inode, and lab3a not at one behind a free one (`Listed`).

**Abstractions.**  Accesses interleave in a sequentially consistent way: what
a compiler or a processor may make of a race beyond that is not modelled.
Consecutive equal reports are kept once in the output and the log.  Exit 2 and
the status of a failing `SSL_shutdown` are not told apart.  `--lists=0` (a
division by zero) is excluded by an assumption.  A worker's failing `clock_gettime`
around its lock in lab2b (`lock_general`), a failing `clock_gettime` in lab4b, and a
failing `malloc` are left out; so is an input of lab4b that is closed before
everything was typed, which is the same as a shorter script.  Temperatures, times of day,
lock timing and the formatting of records are left out.

In lab1 the client's log, the echo on the terminal (whose `^C` and `^D` the client
writes with a NUL behind them) and the terminal's modes are left out; so is what the
server writes to its own standard output with `--compress` (`lab1b-server.c:216`, `:226`),
and what happens if that fails (status 1, the shell not collected).  The user types no
NUL: `strlen` would cut a compressed batch at it.  A line is shorter than the buffers; what one `write` sends arrives whole
or is cut by the reader between pieces, not inside a batch; sockets hold
everything that is sent; the shell leaves no background children that keep its
pipe open; a compressed batch fits the 1024 bytes of the output buffer.

In lab3 files are regular files and directories, or symbolic links short enough to lie
in the inode; other types (`?`) and long links (`lab3.c:107-126`) are left out.  An image
has one group and blocks of 1024 bytes, so that bit `i` of a
bitmap is block `i + 1`.  Damaged pointers keep the tree of pointer blocks on the
device, and directories keep their blocks: a read past the image, and a directory
entry of length 0, would end or hang lab3a.  Files have permissions: `lab3b.py`
takes one whose mode is 0 for unallocated.  Complaints are counted by what they
name; the tag and the offset of the *first* owner of a duplicate, which the code
takes from the object and not from the pointer (`lab3b.py:157`), are in the model
and in no property.  The three properties are stated for images in
which the bit before every used inode is set (`Listed`), since lab3a looks
for it nowhere else.

## 4. Findings

Shown by a run that finds the violation:

1. `lab2b .../lab2_list.c:249` never initialises `j`: a run with locks may
   touch memory before its arrays and fail (`lab2b_garbage`).
2. `read_command` reads its buffer to the first NUL, not to the length that
   `read` returned (`lab4b.c:117`): the end of an earlier line is obeyed again,
   and an OFF that arrives in two reads may be lost (`lab4b_stale`).
3. With `--compress`, batches carry no mark of their end, and the receiver takes
   what one `read` gives for one batch (`lab1b-client.c:239`): when the shell's
   output comes in several, the client may hang inside `unzip()`
   (`lab1b_batches`).

4. `P4C_check.sh:245` looks for `ID=` in the log of both network clients; they send the
   line and do not log it (`lab4c_id`).

Met while modelling, described in the models, and no runs of their own:

- `SortedList_insert` keeps a list in *descending* order, `SortedList.h:10` and `:32` say
  ascending.  No program depends on the order, and no property speaks of it:
  `ListsIntact` says that a list is a circle through both links of elements that belong
  on it.
- `SortedList_length` does not compare the `prev` of a head whose `next` is the head
  itself, although `SortedList.h:71` has it check all links: a list damaged by a race
  may be measured 0, and main then exits 0.  `ExitZeroMeansEmpty` is about the forward
  links alone.
- `last_read()` sends its characters uncompressed also with `--compress`.  The
  server does not take the end of the socket for an end: once the client has
  closed it turns in its loop until the shell ends.  When the connection was reset
  `shutdown()` fails and the server exits 1 without collecting the shell; this is
  the exception in `ShellCollected`.
- lab3a reads the inode behind a marked one, so an inode behind a free one is not
  listed; the indirect blocks of a directory are not listed at all (the `return` at
  `lab3.c:137` comes before the condition that asks for them), so lab3b calls them
  unreferenced.

## 5. The proofs

The proofs use the named assumptions on the constants that the modules declare:
the numbers of threads and iterations are natural numbers, `SyncModes` holds
modes the program has, the buffers of lab4 have the sizes the code gives them,
a read takes at least one character, texts are sequences of strings, those typed in lab1
without a NUL, an image has the
shape of one (`IsDisk`).

**`Lab2Add_proof`.**  `MutualExclusion` is not inductive alone: the invariant
says also that the lock is taken exactly when some worker is inside, that a
worker inside has the counter's present value in `seen` when it is about to
write, and that a worker's place agrees with its mode and its number of calls.
From it follow `TypeCorrect`, `Exclusion`, `ReportIsLast` and `Refinement`: a
protected write and a successful compare-and-swap are the abstract `Add`, every
other step is a stutter, because nobody can have changed the counter since it
was read (under a lock) or because it was just compared (compare-and-swap).
`SumIsZero` follows from the refinement and what is proved of `AtomicAdd` in the same
module.  There a thread that has made `n` additions has contributed
`min(n, N) - (n - min(n, N))`, and the counter is the sum of the contributions.
That is inductive because an addition changes one summand by what it adds to
the counter; the prefix sums are a function that the invariant says exists, so no
recursion is needed.  With `2N` additions each, every contribution is 0:
`AdditionsCancel`.

`NothingIsInvented` is about the race.  The counter never exceeds the number of
+1 written so far, and never falls below minus the number of -1; nor does any
value that a worker holds in `seen`.  Those two numbers are sums over the workers of what each
has done, by a fold of the community modules: `FoldExists` says that such a fold is a function, `SumStep` what
one worker's step does to it.

**`Lists_proof`.**  Of `SortedList`: a list is a *chain*, its elements numbered from the head
round to the head, distinct, linked by `prev`, ordered by their keys.  It is
*whole* when `next` links them, too.  While a process is inside an insert or a
delete, one `next` may lead elsewhere (`Detour`): to the element that is not yet
in the chain, or past the one that is no longer in it; which pointers have
been written is fixed by the place in the code.  The lemmas say,
place by place, that a step of the one process inside leads from one such
state to the next, that an insert ends in the chain with the element, a delete
in the chain without it, that a lookup returns an element of the key if there
is one, and a length their number.  `strcmp` compares the first place where two
keys differ; that it is a total order on keys, and that a walk along `next`
reaches every node, are proved by least numbers.

Of `AtomicList`: the inductive invariant adds to `Balanced` that the
elements on the lists are inserted ones and that a worker has deleted only if
all its inserts are done.  `LookupSucceeds` is then a counting argument: the worker's
own pending delete of a key is an insert that has no delete, so the two sets
differ in size and the lists hold at least one element of that key.
`EndsEmpty` counts the other way.  `AtomicList` has no run of its own: it is what the
list programs are shown to implement, in `lab2a_list` and `lab2b_sync`, and its
statements are checked and proved there of the program (`ElementsConserved`,
`LookupsSucceed`).

**`Lab2bList_proof`.**  The invariant has three parts.  The first holds whatever the
races do to the lists, because it speaks of places and locks and not of links;
the only fact about `SortedList` it needs is that a step of a function moves its
caller and stays inside the call (`ListStepMoves`).  `Alone` (once all threads
are created, nothing is freed that a worker uses) rests on the order of main: joined
workers have returned, main joins after it has created all, and it is in a call, or
past its loops, only when all are joined; a clock that cannot be read after the joins
comes after them, too.  `ExclusionPerList` adds that a worker inside a call holds the lock of the
list its turn is about, and that the turn does not change before the unlock.
The second (`RInv`) also holds in a race: links and pointers lead to nodes or are
`NULL`, and a pointer that a function has tested, or need not test, is not.  It
is inductive because no write of any interleaving puts a `NULL` over a link
(`NoLinkIsCleared`), so that what was tested before another thread's step is
still true after it; `LengthNeverFollowsNull` and, with what main has seen of
the lists, `ExitZeroIsTrue` follow.  The last (`SyncInv`) is for a run with locks: every list that nobody is
inside is whole, and a list that somebody is inside is in the state of
`Lists_proof` for his place (`ListsStayIntact`); and the invariant (`IInv`) of
`AtomicList` holds of the elements on the lists.  They have to be proved
together: that a lookup under the lock finds an element, so that the worker does
not leave through its alarm, is the counting argument of the abstract module, and
that the abstract module applies is that no worker has left so far.  The
refinement follows: the write that links or unlinks an element is the abstract
insert or lookup-and-delete, every other step a stutter; and so do `ConservedPerKey`,
`EveryLookupSucceeds` and `NoAlarmIsFalse`.  `NoAlarmIsFalse` has the hypothesis that the
uninitialised `j` is not negative (`GarbageJ \subseteq Nat`); without it
the statement is false, which is finding 1.

**`Lab2aList_proof`.**  The same argument with one list and one lock, and with keys
that all lie in one dead array and are therefore equal.  `Inv` is what holds in a
race, too: where workers and main can be, that main joins in order and takes the
length last, and that no pointer followed is unknown.  `Exclusion` says of a run
with a lock that whoever is inside the list's functions holds it, alone; main is
inside only when the workers have returned.  `SyncInv` adds the list: whole when
nobody is inside, in the state of `Lists_proof` for the place of the one who is
(`ListState`), with the invariant of `AtomicList` about what is on it.
`ListStaysIntact`, `Refinement` and `NoAlarmIsFalse` follow.  There is no index
that could be garbage, so none of them has a hypothesis.  In mode U the refinement
says nothing: the mapped state is then the initial one throughout, and the theorem
is about the modes with a lock.

**`Lab4b_proof`.**  The loop of `read_command` over the buffer is a recursive
function; what each of its turns keeps is proved once (`ObeyTurns`) by the least
turn that does not keep it.  `Good(prog, s)` is what a program state satisfies at
a place `s`: the command collected is shorter than its bound (`LinesFit`), and
scale, period, stop flag are what the entries of the log say (`LogSays`), and
nothing follows a SHUTDOWN in log or output, both of which end with one exactly when
the program has ended (`EndsWell`).  So `ReportsObeyTheLog` and
`ShutdownEndsTheFiles`: reports are in the scale that the last SCALE before them set,
none lies between a STOP and the next START.  These hold with a stale buffer,
too: what is obeyed is logged, however it came about.

`LinesAreObeyed` is about the buffer that is not stale.  Its invariant (`LinesInv`)
says that the text typed so far ends in the line that is being collected and that
the commands in the log are the lines before it (`Obeyed`).  One turn of `read_char`
(`ReadCharObeys`) either makes the collected line longer, skips leading white space, or
meets a newline, which adds one line to the text and one command to the log; that
the lines of a longer text begin with those of the shorter one (`LinesGrow`), and
the commands of a longer log with those of the shorter (`CommandsGrow`), are lemmas
about `InOrder`, the elements of a finite set of numbers in order.  The loop over
one read then follows from the lemma about its turns (`ObeyTurns`).  The
theorem needs `NoNULAssumption`, that the text typed holds no NUL: lab4b treats the
buffer as a string, so a NUL in it hides what the same read brought after it.

**`Lab4c_proof`.**  `Said(log)` is what lab4c_tls must have written when `log` is its
log: a recursive function over the entries, of which one lemma (`SaidOfLogged`) says
what one more entry adds.  Every function keeps the globals `Good`: what was written is
what was said, and an exit status 0 comes with `OFF` and `SHUTDOWN` at the end of
the log.  `print_and_log` is where it matters: it writes before it logs, and a write
that fails ends lab4c_tls before the log, so both files grow or neither does; a
report equal to the last entry grows neither.  lab4c_tcp goes on after a failed write
and logs the line; but the socket is then one whose next write is a SIGPIPE, so what
it has written is what it said or all but the last of it.  For lab4c_tls the state of
the socket may change at any moment and is in none of it.  So `LogIsWhatWasWritten` and
`ZeroIsHonest`, for every script and every way of losing the connection.  What the proof needs to know
about the buffer of `read_command` it takes from `Lab4b_proof`, instantiated with
lab4c's text.

**`Lab1_proof`.**  `Collected`: a connection once lost stays lost, an ended server
takes no more steps, and each of its steps goes on, or ends with the shell waited
for, or ends with status 1 and the connection lost (`WellDone`).  The lemma about
`Put`, the write with its SIGPIPE handler, is where the cases meet.

`StreamsAreKept` is about places in texts.  Of the keys typed the client has sent the
first `c`, those up to `d` are in the line it collects, the rest in the terminal.  What
it has sent is a text of its own, the *wire*: the keys, with a NUL behind each plain
batch, so that the wire without its NULs is the beginning of the script (`Wire`).  Of
the wire the first `k` pieces have been written to the shell's pipe, the next up to `m`
are in the server's hand, the rest in packets on the connection (`InputAt`).  That the
pieces which the shell has got, without their NULs, are a beginning of the keys is a
fact about `Without`, which the lemmas `WithoutAgrees` and `WithoutGrows` give. of what the shell has printed
the user has been shown the first `a`, the next up to `b` are in packets, the
next up to `c` in the server's hand, the rest in the pipe (`OutputAt`).  A queue of
packets is a `Stream` from one place to another if there are cuts between which its
packets lie; with `--compress` a packet may hold many pieces, without it one, so
that a read of `n` packets moves the place by `n`.  The invariant (`StreamsInv`)
says that there are such places, and which of them still count when the shell, the
server or the client has ended: after a hang-up the text in hand is gone, but the
text already delivered is still a beginning of the whole.  For every action one
lemma says what it leaves of the types and places of the processes (`World`) and
whether it touches the streams (`InputStill`, `OutputStill`); those that do move one
place each.  What makes the last part of `StreamsKept` hold is that an exit status
of 0 is reached only through `last_read()` with the pipe empty and the connection
whole, and the client's only by a read of the end with an empty queue.

**`Lab3_proof`.**  `IndirectOffsets` compares two descriptions of a file.  In the
code's, `read_indir_block` walks down from a pointer, adding to `offset` at each
level; its calls are three operators here, since the code's recursion ends after
three levels (`lab3.c:141-143`).  In the reference, a place is an inode, a slot and
the positions on the way down, and its offset is 12 and the *number* of places
before it.  `Lists(s, X)` says that `X` is the set of rows in the sequence `s` that
tell of a data block below an indirect one.  It holds of an empty sequence, of a row,
of two sequences joined and of many (`ListsAll`), so it is followed from
`read_indir_block_1` up to `main` (`MainLists`) without a word about the order of the
rows.  On the other side `Ordered` and `Filled` say that `Position`, the positions on
the way down read as digits in base `ptr_per_block` and shifted by the sizes of the
smaller trees, numbers the places of a file from 0, in their order and without a gap;
so the places before one are as many as its `Position` (`OffsetIs`), and that is what
`new_offset` computes (`Offsets`).  `FileLeaves` joins the two.  The behaviour adds
little: no damage makes the image unreadable (`DiskInv`), and the listing is `main` of
the image, where every used inode is one that lab3a looks at (`Listed`, as in the
property).  The assumptions are that a block has 1 to 1024 pointers, which keeps every
offset below 2^32; that every block, read as pointers, leads to data blocks or nowhere,
as the damage leaves it; and that what lies behind the table of inodes, where lab3a
looks for the inode after the last, is not taken for an inode.

**Induction.**  The library's induction theorems take a predicate as a parameter, which
these provers cannot instantiate.  Where a proof needs induction - over a key's
letters, the turns of a loop, a set of threads, a walk along a list - it takes the
least counterexample instead, which exists by the well-foundedness of `<` on `Nat` or
of strict inclusion on finite sets (`WFMin`): a statement about one set that is
defined on the spot, and first-order.

**Only model-checked.**  Liveness (termination, OFF, the lost server, the ends of
a session), which is outside of the prover's fragment.  `BlockComplaintsExact` and
`InodeComplaintsExact`: lab3b's complaints are collected by a fold over all rows and a
recursive function over all pointers, and the properties count them, so that a proof
would have to say what a fold computes for every sequence.

## 6. What is not modelled, and the plan

Not modelled:

- **lab1a without `--shell`** echoes its input until a ^C or a ^D: one loop, one
  actor.
- **lab0** copies bytes.  **lab4a** has no program in the repository.  The shell
  scripts are tests; they were read for what they require.
- **Oversized TLS records** in lab4c, failures before a session begins (`bind`,
  `fork`, `malloc`), and the wording of all output.

Worth doing next: proofs that lab3b's complaints about blocks and inodes are exact, with
the fold over the rows replaced by a function of the row number, so that a least
row can be taken as in `Lab4b_proof`.
