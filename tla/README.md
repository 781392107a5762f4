# A verification of primordium in TLA+

primordium is a Go library that programs link: a lock manager for shared
directories, atomic file replacement, a buffered reader, a shutdown sequence,
and the defaults of logging, HTTP, SSH, error reporting, digests, formatting and
vector arithmetic. This directory models the parts of it that have state and can
go wrong, checks them with TLC on small instances, and proves their main
properties for every instance with TLAPS.

Paths below are relative to `src/`.

## 1. The system

| component | state it keeps | operations | what is hard | what makes it correct |
|---|---|---|---|---|
| `filesystem/refcounted.go` Locker | nothing in memory but `rootDir`; files and flocks below it | `Acquire`, the release function it returns | processes interleave at every system call; two calls (open, flock) per lock; files are unlinked while others wait for them; crashes and errors at every step; release functions are called twice | a held resource stays; makers and removers exclude each other; only the last holder removes; no lock is forgotten; no deadlock; nothing leaks |
| `filesystem/lock.go`, `lock_unix.go`, `lock_windows.go` | open files | `Lock`, `ReadOnlyLock`, `TryLock`, `TryReadOnlyLock`, `Unlock`, `WithLock`, `WithReadOnlyLock` | locks belong to open files and to inodes, not to paths or processes; nested calls; panics in the function; a file that is replaced under its lock; on Windows the lock is on another file | locked parts exclude each other; a call leaves nothing open; goroutines do not wait in circles unless one waits for itself |
| `app/shutdown` | list of handlers, a `sync.Once`, a watcher goroutine per `SetDefaults` | `SetDefaults`, `Register`, `Shutdown`, signals | concurrent callers, late registrations, hanging and panicking handlers, a timeout, signals before, during and after | handlers once and backwards; nobody told too early; a signal ends the process |
| `filesystem/readseeker.go` | a buffer, its offset and end; the source's position | `Read`, `Seek`, `Close` | two positions to keep in step over partial reads and failed seeks; overflow | behaves as the reader it wraps |
| `filesystem/atomic.go` | a temporary file | `WriteFile` | errors at every step, write-back order, power loss, several writers | old or new data, complete, with the right permissions |
| `filesystem/umask.go`, `init.go` | `currentMask` beside the umask of the process | `Inititalize`, `SetUmask`, `GetUmask` | two copies of one value | they agree |
| `filesystem/reader.go`, `readwriter.go` | bufio buffers | `Read`, `Write`, `Close` | one file position under a read and a write buffer; short writes and sticky errors; errors at `Close` | bytes in order and once; nothing written is lost without an error |
| `filesystem/path*.go`, `socket*.go` | none | `ValidatePath`, `ValidatePathComponent`, `ValidateSocketPath` | two systems that split and read names differently; limits at their boundary | an accepted component names an entry of its directory; what follows the volume of an accepted path leads from name to name downwards |
| `filesystem/locations.go`, `size.go` | application name | directory lookups, `DirectorySize` | four systems, seven variables, fallbacks | the cache holds nothing but the cache |
| `network/http.go` | `http.DefaultTransport`, `defaultTransport` | `SetDefaults`, `NewTransport`, `RoundTrip` | once-only initialisation that panics, shared and cloned configuration, requests that several goroutines send | clones are independent; requests are not modified |
| `network/ssh.go` | none | tables | - | - |
| `app/app.go`, `app/logger` | the levels of two loggers; how far `New` has come | `New`, `SetDefaultsForLogger` | a panic in its second step, a second `New` | all is set up once or nothing that stays; both loggers let the same through |
| `reporter` | the Sentry client | `Initialize`, `Capture*`, `Shutdown` | flush within its time | - |
| `digest` | none | `FromString`, `String`, `Hash` | two tables that must agree | what a hash makes is accepted and comes back |
| `format` | none | `PrintAll` of three formatters | maps and slices in each other; special fields | the nesting can be read back |
| `simd` | registers | dot product, matrix-vector product | blocks of sixteen and four, tails, several accumulators | every product once, no load beyond the end |
| `fault`, `filesystem/error.go` | none | error values | - | - |

How they interact: `app.New` calls the logger's, the network's and the shutdown
package's defaults and `filesystem.Inititalize` in that order; the second one may panic
and so be the last. The directory lookups use the name `Inititalize` has
stored. The Locker calls
`Lock`, `ReadOnlyLock`, `TryLock` and `Unlock`, and its caller's factory and
cleanup. `WriteFile` reads the mask `SetUmask` and `Inititalize` keep. Handlers
given to `shutdown.Register` are the program's. Everything else is independent.
`PROJECT.json` lists, under "hazards", what is hard to test in this code, each at
its line and with the properties that answer it.

## 2. The modules

    Flock <- Locker <- MCLocker        (implements RefCounted)
                    <- LockerCleanup
                    <- LockerProofs
    Shutdown <- ShutdownProofs         (implements RunOnce)
    ReadSeeker <- MCReadSeeker         (implements PlainReader)
               <- ReadSeekerProofs
    AtomicFile <- AtomicFileProofs     (implements AtomicRegister)
    Flock <- FileLock <- FileLockProofs
                      <- MCFiles
    ReadWriter <- ReadWriterProofs, MCFiles
    HttpTransport <- App <- AppProofs
                         <- MCLibrary
    Digest, Paths, Locations <- LibraryCalls
    DotProduct, LibraryCalls <- LibraryProofs
                             <- MCLibrary
    Formatters <- MCLibrary

Definitions keep the names of the source where there are any. `PROJECT.json`
gives the lines of each under "map". Definitions whose comment begins with
"Mutant:" are not part of the model: each is one definition of the model with a
plausible bug, and shows that a property can be violated.

**Flock** has the kernel's side of `lock_unix.go`. `handle[c][s]` is the
`*os.File` client c has in its local variable s: the inode it was opened on and
the mode of its lock. A path is resolved when a file is opened, so a lock on a
file that has been unlinked since is a lock on an inode with no path. `Unlock`
is LOCK_UN and Close; on a closed file it does nothing, as in Go. EINTR, on which
`platformLock` tries again, is not visible. A client is a goroutine: two
goroutines of a process have two open files and exclude each other just like two
processes.

**Locker** has one action per system call of `Acquire` and of the function
`buildRelease` makes, and `pc[c]` names the call that is next. The labels `fail*`
and `rFail*` are the Unlocks of the error returns. `OnError` says where each
error goes. `entry`, `lockFile` and `resource` are the disk: the inodes at
`root/key` and `root/key/.lock`, and whether what the factory makes is absent,
partial or complete. The factory takes two steps and is called on every Acquire,
as in the code, and looks for itself whether the resource is there, as the comment
at refcounted.go:108 asks. `RemoveAll` is several steps. `ReleaseAgain` is a
second call of a release function. `Crash` closes every file of a client and
leaves the disk. `CallFails` is every other error. `MkdirAll(rootDir)` and the
validation of the key, whose errors return before any effect, are left out.
The lock on `rootDir` is one step, since nobody removes that directory.

**RefCounted** is what the caller is promised: holders per key, and a resource
that is there while there are any. `LockerCleanup` adds to Locker which cleanup
function each release function keeps.

**Shutdown** has the goroutines of the package: the program's, which call
`Register` and `Shutdown`, and for each `SetDefaults` its watcher w and the
goroutine that the watcher starts to call `Shutdown` (thread w). Every statement
between two points where others can notice is an action. `sync.Once` is `once`
with the guards of `DoFirst` and `DoAgain`; a panic in it counts as done. A handler is
named; registering the same function twice is registering two names. `Hanging`
handlers never return; one that calls `Shutdown` is such a one. A panicking
handler ends the process unless the program recovers around its own call. The
two cases of the select can both be ready, and then either is taken. **RunOnce** is what the
program is promised: one list, a moment from which on it runs backwards, and who has asked and
who has been told. In the refinement that moment is the copy (`Copy`), the plan is the part of the
copy the loop has not been through (`Plan`), a thread is told when its call returns, and
whatever the once, the signals and the timer do before the process ends is a stutter.

**ReadSeeker** names bytes by their place in the source. `base` is a history
variable, the place of `buf[0]`. `out` records the last call, its arguments and
its results. Integers wrap at `MaxInt`, which stands for the largest int; an int64 is taken to fit an int,
as it does on 64-bit systems. The
source (`SourceReads`, `SourceSeeks`) does all an io.ReadSeeker may: reads
short, fails with or without bytes, reports EOF with the last bytes or after
them, seeks beyond its end, is closed. **PlainReader** has one position. In the
refinement it is the source's position less what is buffered; the only freedom
PlainReader gives beyond the interface is that a failed Seek may move the reader
by up to the size of the buffer, which is what the code does.

**AtomicFile** has one action per call in `WriteFile` and the operations on the
mask. `data` is what programs see of a temporary file and `disk` what is on the
medium; `WriteBack` may bring either a file's data or the directory entry there
at any time, in any order, and `Sync` forces the data. `PowerLoss` ends every call
and leaves what is on the medium. Permissions are sets of bits. **AtomicRegister** is what
a caller of `WriteFile` may rely on: a register that each call sets at one moment, to all
its data with its permissions, or not at all, and that a power loss takes back to a value
it had before. In the refinement the register is what is found under the name
(`Found`), and the moment is the rename.

**FileLock** is `lock.go` as a program calls it on one path. `calls[c]` is the
stack of calls goroutine c is in, each with the file it has in `handle[c][k]`; a call
within a locked part is one more frame. `platform` is the build: on Unix the lock is
on the file at the path, on Windows on path + ".lock" (`LockPath`). `file` is
the inode at the path, which `Replace` changes as a rename or a removal does.
The seven functions are `Begin` with an operation and a mode, and then
`OpenLockPath`, `GetLock` or one of the failures, and `FunctionEnds`, whether the
function returns or panics. The owner of a plain `Lock` calls `Unlock`, which is
the same step. `WaitsFor` and `Stuck` say from the open files and their modes who keeps whom
waiting.

**ReadWriter** has both buffers on one `pos`. Bytes of the source are named by
their place and bytes the program writes by their number, so that order, loss and
duplication are visible. `bufio` is a library and modelled from its use here: what
it hands on and when (`HandedOn`), that a large read or write passes an empty buffer
by, that its first write error is kept. The source takes any part of what it is given.
What the program writes goes where the position is, which is beyond what is
buffered for reading: the bytes of a Read and a Write never overlap, but a program that
reads one byte and then writes does not write at the second one.

**HttpTransport** has the default transport, the clones, the requests and the
goroutines that send them. A TLS configuration is a pointer, `tls[t]`, to an object,
`config[p]`, so that sharing one would show. `header` is what the callers'
requests contain: `RoundTrip` puts its token into a clone. The list of retryable
status codes only makes a log entry and is left out.

**App** adds the steps of `New` in their order. `NewPanics` ends it in
`network.SetDefaults`, which rejects a transport it does not know, including its own wrapper
on a second call. `Inititalize` can panic too (init.go:26-28), at a umask that is negative or
does not fit 32 bits; no system it is built for gives one, and the model leaves this out. The levels of zerolog and slog are numbers, translated by the table
in `logger.go`.

**DotProduct** has one action per iteration of each loop, with the counters and
accumulators of either assembly file, or of the one loop in Go; `acc[r][i]` counts how often the product i
is in accumulator r.

**Formatters**, **Digest**, **Paths** and **Locations** are functions. What a
formatter prints is a sequence of pieces, one per `Fprintf`, each with its depth, its label
and its value; the reference definitions (`Leaves`, `ReadIndented`, `ReadTables`,
`Components`, `Navigates`) say what is to be found there. A path is a sequence
of classes of characters, and `VolumeLength` is filepath.VolumeName with each of its cases. **LibraryCalls** has the calls of the last three, with any arguments
that a program can give them (a string has a part at least, a path and an environment are any
strings), and says what each promises. In the runs the limit of a component is scaled down.

**MCFiles** and **MCLibrary** compose small instances of independent modules in one
run each: `part` says which one a behaviour is about, and the variables of the others
keep what they have at first.

## 3. What is checked

Each run is one question, or one per module for the last two; `PROJECT.json` has the same list with the properties.

| run | instance | states | shows |
|---|---|---|---|
| locker_safety | 3 clients, 1 key, 5 inodes, 2 mishaps, symmetric | 28 543 | LockerInv (with LastHolder), HolderProtected, EntryExclusive, LockOrder; RefusedByHolder, CallsAdvance; CountedSpec: Locker implements RefCounted |
| locker_keys | 2 clients, 2 keys, 5 inodes, 1 mishap, symmetric | 116 200 | LockedEntryIsCurrent, NoLockLeft, NoLeak |
| locker_liveness | 3 clients, 1 key, 3 inodes, 1 mishap, fair | 167 116 | EveryCallReturns |
| locker_cleanup | 2 clients, 1 key | finding | CreatorCleanupRuns is violated |
| shutdown | 3 handlers (1 hangs), 2 callers, 1 watcher, 2 signals, fair | 119 444 | ShutdownInv, ReverseOrderOnce, ReturnedMeansRun, SignalEndsProcess, CallsReturn; OnceSpec: Shutdown implements RunOnce (and so OneRunner) |
| shutdown_late | as shutdown | finding | RegisteredHandlersRun is violated |
| readseeker | buffer 3, source 5, MaxInt 31, Reads of 0 to 4, Seeks of -6 to 6 | 18 499 | ReadSeekerInv; PlainSpec: ReadSeeker implements PlainReader |
| readseeker_overflow | the same and a Seek of MaxInt | finding | SeekKeepsOnlyWhatItPasses is violated |
| atomic_file | 2 writers, 2 permission bits, 1 power loss | 167 909 | AtomicFileInv; RegisterSpec: AtomicFile implements AtomicRegister (and so TargetComplete, TargetMode, ErrorLeavesFile) |
| umask | the same without power loss | finding | GetUmaskIsUmask is violated |
| files | 3 goroutines with calls 2 deep, 3 inodes, both platforms, symmetric; buffers of 2 on a source of 4, 7 bytes written | 201 881 | SectionsExclude, NothingLeftOpen, OnlyOwnLocksStick; StreamInOrder, CloseNilMeansWritten, OnePosition |
| library | 2 calls of New, 2 clones, 2 tokens, 1 request, 2 goroutines, symmetric; slices of 0 to 40; all small inputs of the functions | 367 389 | TokensStayHome, ClonesIndependent, AllOrNothing, NameSettled, GatesAgree; EveryProductOnce, WithinBounds; ConsoleReadsBack, MarkdownTablesReadBack, HeadingsNested, DigestRoundTrip, AcceptedPaths, CacheApart |

**Bounds.** `MaxMishaps`, `MaxSignals` and `MaxLosses` bound what the environment
does; everything else is bounded by the sets of clients, keys and so on, and
clients call again and again. Three clients are one that leaves, one that stays
and one that comes; a fourth meets nothing the third does not, since every
property is about one or two of them, and the proofs cover any number. Two keys
show that the global lock is all that keys share. Inodes: an open file or a path
uses one, and those of removed files are used again, which is the hard case.
A mishap can hit any step; two allow a crash that is followed by an error in the
recovery. A source longer than the buffer and shorter than two has full, partial and
missing refills. Goroutines whose calls are two deep have all the pairs of calls that
`SectionsExclude` is about, in one goroutine and in two, and three of them can wait in a circle
of three; three inodes are a file, the one that
replaces it and the lock file. Writes of 1, 2, 3 and 5 bytes leave room in a buffer of 2, fill
it, overflow it and pass it by. Slices of up to 40 have two blocks of sixteen with every tail.
One request in two goroutines is the case of a request that is sent twice. Values have maps and
slices of up to two in each other, three deep, and one value goes beyond the deepest heading.
Paths have up to five characters after each kind of volume or beginning of one, which is enough
for two components at the limit. Each
variable that names a directory is unset, as usual on its system, or a directory of its own. MaxInt 31 is large against the offsets and small against the sum that
overflows.

**Deadlock** is checked for the Locker and the ReadSeeker. A process that has
exited does nothing more, nor do writers that are done, so Shutdown and AtomicFile
switch the check off. So does `library`, whose functions are called once and whose loops
end. `files` checks it.

**Fairness.** The Locker's clients are weakly fair in all they do inside a call
once it is possible: goroutines are scheduled, factories and cleanups return,
and a blocked flock on a directory or lock file is granted when it stays grantable.
Taking the global lock is strongly fair, since with weak fairness alone a waiter
could be passed over by others for ever; flock(2) wakes its waiters in turn.
Nobody is bound to call Acquire or release, fail or crash. In Shutdown the
goroutines inside a call and the watchers are weakly fair and the timer fires;
handlers that hang never return; nobody is bound to register, call or send a signal.
The runs `files` and `library` assume no fairness: nothing is promised of a Lock that others pass by.
flock grants a shared lock past a waiting exclusive one, so that two readers whose locks overlap
again and again keep a writer out for ever, and no property says otherwise.

## 4. What is proved

For any constants that satisfy the named assumptions (the empty inode is no inode,
rootDir has one, a word is larger than the source and the buffer together, and
suchlike), TLAPS proves:

* **LockerProofs**: `LockerInv`, `HolderProtected`, `EntryExclusive`, `LastHolder`,
  `LockedEntryIsCurrent`, `NoLockLeft`, `NoLeak`, `RefusedByHolder`, `LockOrder`, `WaitsEnd`,
  `SomebodyGoes`, `CallsAdvance`, and that Locker implements RefCounted.
  None of these is inductive by itself. `LockerInv` adds to the type of the
  state a `Shape` for each client: which of the four files it has open at each
  label, in which mode, and that the directory and the read lock are on the
  inodes that are at the paths now; and three exclusions, of the labels with the
  global lock, of those with a directory lock, and of the last holder against every other
  read lock. The shapes say what an Unlock gives up and what a flock that is
  granted excludes; the exclusions say that what one client removes is in no other's
  shape. There is one lemma per kind of step (open, flock, unlock, create,
  remove, factory, error, crash), most of which use `QuietStep`: a step that changes
  only one client's files and enters no exclusive region cannot disturb anybody
  else. The refinement maps every step to Acquire (the factory returns), Release
  (the read lock is closed), Destroy (cleanup or the first removal) or a stutter.

  `NoLeak` rests on `LeakInv` besides. As long as nothing has failed, every lock file has
  a client that tends it: one that has a read lock, is about to take one, or is about
  to try whether it is the last (`Tended`). A client stops tending in three ways only. Its
  TryLock is refused: then another client has a lock on this very file, since a lock file
  belongs to one key (`InodesApart`), and tends it. It removes the file itself. Or it
  takes an error return: without mishaps there is none but the one of a release function that
  is called again and finds nothing (`NoErrors`, `PathsThere`), and that one tended nothing.

  `RefusedByHolder` is what remains of this when calls fail and processes die, and leave entries
  behind: a release whose TryLock is refused leaves the entry to another client that holds it
  and has still to release it. What a failed release left therefore goes with the last
  release after it. The lock that refuses is on the inode of this key's lock file: by
  `InodesApart` it is no directory's, and by the exclusions no one's who makes or removes
  the entry, so that it is the read lock of a holder (`RefusalHasHolder`).

  `LockOrder` says whom a client can wait for at the three flocks that block, from what the
  files have open and not from labels: at the global lock for a client between taking and
  giving up that lock; at a directory lock for a client of the same key that has
  given the global one up already, since the waiter itself has got that; at the lock
  file for nobody, since the only exclusive lock on it is a last holder's, which the
  directory lock keeps away. `OrderInv` gives what this needs of inodes: directories of
  different keys, rootDir and lock files are different ones, even a directory that has been
  removed while it is open. Hence `WaitsEnd`: a chain of waits has two links at most, with any
  number of clients and keys; and while some call is in progress, one of those in progress waits for
  nobody (`SomebodyGoes`). `CallsAdvance` is about what such a call does: `Left` counts the steps it
  may still take, with one for each child that `RemoveAll` finds. Each of its steps,
  errors included, takes `Left` down, and no step of another client takes it up, since the
  directory lock keeps everybody else from putting something into what is being emptied
  (`OthersLeaveLeft`). So a call takes a bounded number of steps, there is always a call that no lock keeps from its next,
  and only the starvation of one call by others is left to fairness, and to `EveryCallReturns`.
  TLC has checked `LeakInv` and `OrderInv` as invariants of the instances of locker_safety and
  locker_keys.
* **ShutdownProofs**: `ShutdownInv`, `ReverseOrderOnce`, `ReturnedMeansRun`,
  `OneRunner`, and that Shutdown implements RunOnce. `ShutdownInv` ties `once` to the one thread that runs handlers
  (`OwnerInv`), what has run to the part of the copy the loop is through with and
  the copy to the list (`LoopInv`), and what was due at the first call to the copy
  (`DueInv`, which rests on the once being new as long as nobody has called). In the refinement
  `Register` and the calls map to themselves, `Copy` to Begin, the return of a handler to RunNext
  (`Backwards`: the head of the plan is the copy's last member not run, the tail what the loop
  is left with), `DoReturns` and a panic to Finish and Panic, a caller that waited to
  TellLater, `Exit` and a killing signal to EndProcess, all else to a stutter.
* **ReadSeekerProofs**: `ReadSeekerInv` and that ReadSeeker implements PlainReader,
  both under `ShortSeeks`: no offset comes within the buffer's size of the
  largest int. Without it both are false, as the run readseeker_overflow shows.
  `SeekArithmetic` shows that no other sum wraps, but for backward seeks so long that
  they fail in the source either way.
* **AtomicFileProofs**: `AtomicFileInv`, `TargetComplete`, `TargetMode`,
  `ErrorLeavesFile`. `AtomicFileInv` says of each label what of the temporary
  file is in place, in memory and on the medium. AtomicFile implements AtomicRegister:
  `WriteFile` maps to Start, Rename to Put, every error to Fail, the write-back of
  the directory entry to Flush, PowerLoss to Lose, all else to a stutter. What is found under
  a name depends, by the invariant, on the name and its writer's permissions only
  (`FoundWhole`), so that no step of another call can change it (`ValuesStay`).
* **FileLockProofs**: `SectionsExclude`, `NothingLeftOpen` and `OnlyOwnLocksStick`. `FileLockInv` says of each
  frame of each stack what it has open (`Frame`), that on Windows all open files are the lock
  file, and that any two open files of one inode have compatible locks. `CallStep` shows it for any
  step that changes one frame; each action is an instance of it. For `OnlyOwnLocksStick` the files
  in use get an age (`Ages`): the path leads to the youngest, and of the calls of one goroutine the inner ones
  have the younger files. In a circle of waits take a goroutine that waits for the youngest file any of
  them waits for. It waits for a goroutine d that has a lock on this file; d waits in an inner call, so
  for a file that is no older, and hence for the same one, of which it has a lock already. One
  of the two is for writing (`Compatible`), so that d waits for itself. This rests on a path never
  leading back to a file that is still open somewhere, which `Replace` says of a rename or a removal and
  a program with hard links could break. It is about one path: locks of two paths taken in two
  orders are the program's.
* **ReadWriterProofs**: `OnePosition`, `StreamInOrder`, `CloseNilMeansWritten`, for every size of
  the buffers. The invariant counts: what has been accepted is what has been written
  and what is buffered, in this order, unless the writer has failed, after which nothing goes out.
* **AppProofs**: `TokensStayHome`, `ClonesIndependent`, `AllOrNothing`, `GatesAgree`, `NameSettled`.
  `AppInv` ties `stored`, `watchers` and `name` to the step `New` has reached, separately for the first
  New and for one after it, which cannot get beyond its second step.
* **LibraryProofs**: `EveryProductOnce` and `WithinBounds` for slices of any length, from the
  invariant of the loops: before the merge each product up to `index` is in exactly one
  accumulator, and then in the first; and `index` with what is `left` is the end of the loop.
  `DigestRoundTrip` for any string: the two tables agree, and what FromString accepts has two
  parts. `AcceptedPaths` for paths of any length and any limit on both systems. What
  `ValidatePathComponent` accepts has no separator and no colon, so that it has no volume (`NoVolume`) and is
  its own only component (`OneComponent`), and its last character rules out that it navigates. A component
  of a path, as the system reads what follows the volume, is one that `ValidatePath` has seen. Windows splits at slashes too, which
  `ValidatePath` does not; but every character that separates nothing is in a component
  (`RunAround`, by the least and the greatest place of the run around it), so that one with a slash would
  have been refused (`NoSlash`), and both split an accepted path alike (`SplitAlike`).
  `CacheApart` for any home, name and tidy environment (`Tidy`: each variable is unset, has its
  usual directory, or one that neither holds nor is in the home, tmp or what another variable
  names; otherwise the property is false, see below): the parent of the cache holds none of the
  parents of the others (`ParentsApart`), and on Windows, where they share one, the
  names below it differ. The set `Names` in that proof is STRING with the
  names that the code itself uses, since the provers do not know that a literal is a string.

Only model-checked are the liveness properties `EveryCallReturns`, `SignalEndsProcess` and
`CallsReturn`, since the prover deals neither with fairness nor with ENABLED; and
`ConsoleReadsBack`, `MarkdownTablesReadBack` and `HeadingsNested`: the formatters are recursive on their
data, about which the installed provers have no induction. Every other property of a passing
run is a theorem.

## 5. Where code and documentation differ

* `filesystem/refcounted.go:50` promises that the cleanup function is called when
  the last holder releases. It is called only if the last holder's own factory
  returned it: run locker_cleanup.
* `app/shutdown/shutdown.go:80`: a handler registered once Shutdown has copied
  the list never runs: run shutdown_late.
* `filesystem/readseeker.go:99`: a forward Seek near the largest int overflows and
  leaves a negative read offset: run readseeker_overflow.
* `filesystem/init.go:24`: `Inititalize` leaves the umask of the process at 0
  while `GetUmask` reports the former one: run umask.

Seen while reading, and in no run: refcounted.go:49 and :55 say that the factory is
called when the resource does not exist, and it is called on every Acquire, as
:108 says; readseeker.go:88-89 says that a seek within the buffer needs no
syscall, and :104 asks the source for its position; format/markdown.go:170 says that the spectrogram
fields taken out of the table "will render as image below", but of the two only a spectrogram_path that is not
empty does, and spectrogram_rel_path never; http.go:35-37 says the list of
status codes is used by RoundTripper, which uses another table (:101).
While the later modules were written: two variables that name one directory (XDG_CACHE_HOME
and XDG_DATA_HOME) put the cache in the data, so `CacheApart` is about tidy environments; a custom level below trace gives slog the level of Info (logger.go), so
`GatesAgree` is about the named levels; a slice of maps and scalars in Markdown has its scalars
below the heading of the map before them, so `MarkdownTablesReadBack` is about the rows of tables;
Markdown prints nothing for a value at the top that is neither a map nor a slice
(markdown.go:88-89), which the other formatters print, so that it is about what is below a heading;
on Windows the volume of `\\..\..\a` is `\\..\..` to filepath.VolumeName, which takes any host and
share, and `ValidatePath` does not look at it: `AcceptedPaths` is about what follows the volume, and the tests of
path traversal (path_unix_test.go) are not built there; a second `New` has set the levels of the loggers
before it panics, so `AllOrNothing` leaves them out; on Unix a lock on a path whose file is replaced
excludes nobody who opens the new one, so `SectionsExclude` is about one inode there; the
name given to `Inititalize` is not validated, and the locations are as good as it is.

## 6. What is not modelled, and what is left

Without behaviour: the SSH tables, the error values of `fault` and `filesystem/error.go`, log
messages and the lists behind them. Outside the code: the Sentry client behind
`reporter`, whose calls go straight to it. Without cases: the matrix-vector product, whose 64
rows of 32 elements take the same instructions every time, so that any test visits all of
them. Out of reach: floating-point rounding. Left out: the walk of
`DirectorySize`, a sum over a directory tree that others may change meanwhile. Time is
modelled only as a timer that fires. What a program does with the context that
`SetDefaults` returns is the program's. Of the formatters, the errors of the writer (each
`Fprintf` may be the last one), line breaks and bars inside keys and values, GetFormatter and JSON, which
hands everything to encoding/json, are left out; of Locations, making the directories;
of paths, `ValidateSocketPath`, which is one comparison; of the Locker, a factory or a
cleanup that panics in a caller that recovers (no Unlock is deferred in refcounted.go), and on Windows
the file `key.lock` that stays beside the entry. The run `library` has no gates above
Warn; the proof of `GatesAgree` has them all.

What is left to do: the errors of a formatter's writer; the making of directories with their
permissions under the mask of AtomicFile.

## 7. Running it

    tlc -config LockerSafety.cfg MCLocker.tla
    tlc -config Shutdown.cfg Shutdown.tla
    tlc -config ReadSeeker.cfg MCReadSeeker.tla
    tlc -config AtomicFile.cfg AtomicFile.tla
    tlc -config MCFiles.cfg MCFiles.tla
    tlc -config MCLibrary.cfg MCLibrary.tla
    tlapm LockerProofs.tla

and so on with the other configurations and proof modules. The longest run,
LockerLiveness, takes two to three minutes; LockerProofs and LibraryProofs take about as long
each.
