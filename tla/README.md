# A verification project for libfuse-sys / fuse3 / typed_fuse_core

The repository wraps libfuse for Rust. `src/` and `build.rs` are generated
bindings; the program's own logic is in two crates:

* `typed_fuse_core`: the `NodeFs` trait a filesystem implements, and the
  `Runtime` that keeps inode numbers, generations, lookup/link/open counts and
  open handles for it, safely under many worker threads; `PathNodeFs` adapts a
  path-based filesystem to it;
* `fuse3`: the C callbacks ("shims") that call the runtime and reply to the
  kernel, the conversions at that boundary, the `Session` that mounts and runs
  the event loop, and helpers for passthrough filesystems.

This directory holds TLA+ models of that logic, TLC configurations that check
them on small instances, and TLAPS proofs that hold for every instance.

## Inventory

| Component | State | Operations | What is hard | What makes it correct |
|---|---|---|---|---|
| Handle table (`runtime.rs` 201-325, 511-543, 642-653) | `files`, `dirs`, `next_fh`; per record `active`, `closing`, `taken`, a condvar, a `ManuallyDrop` payload behind an `UnsafeCell` | `file`/`dir` + `acquire`, lease drop, `close_and_take`, record drop | clone-then-acquire races with remove-close-take; wakeups; exactly-once drop of a payload the compiler does not guard | no use after take, taken or dropped exactly once, no leak, no lost wakeup, `release` ends |
| Node table (54-198, 390-440, 498-510) | `map` of slots with four counters, `next_ino`, a free stack with generations | `get`, `NodeRef::drop`, `insert`, `add_link`, `remove_link`, `reparent`, `forget`, `add_open`, `remove_open`, `retain_lookup` | any order of counter changes by any thread; number reuse | a lease pins its slot, nothing droppable stays, (ino, generation) is unique, no number is lost or handed out twice |
| Request protocol (394-423, 534-935) and shims (`session.rs`) | both tables, the kernel's view, the request in each worker's hands | every `Runtime` method, replies, `forget`, readdirplus roll-back | ids re-resolved between critical sections; replies that are not delivered; failures half way | table counts = kernel's counts + requests on their way; nothing the kernel knows is freed; nothing else stays |
| Path adapter (`path_fs.rs` 429-564, 607-754, 828-886, 1039-1134) | `by_name`, `aliases`, `keys`; the `operations` RwLock | lookup, create, remove, rename, link, enumeration with roll-back | readers share the namespace; roll-back of an entry another reader already uses | an id in use has a path; names and links agree |
| Shims (`session.rs` 139-981) | the request in a worker's hands, its leases | decode, call with panics caught, reply | early returns, panics, replies that fail, bytes borrowed from a handle | answered once, never used after the reply, bytes alive, lengths fit, every request ends |
| Dispatch (`session.rs` 1053-1119, `path_fs.rs` 20-30, 1022-1035) | worker pool, `operations` RwLock, record lock | take, enter, wait, reply | waiting inside a lock, waiting with a worker | every call returns, but in the two jams of finding 6 |
| Session (`session.rs` 1125-1291, `ConnInfo`) | session pointer, boxed runtime, `mounted`, handlers, loop configuration | new, mount, run, drop, init, destroy | freeing order, errors half way, two senders of destroy | no stale pointer, freed once, destroy paired with init, only what the kernel can is wanted |
| Record locks (`file_lock.rs`) | none; the host's locks | `to_flock`, `from_flock`, `getlk`, `setlk` | inclusive and open ends, overflow, owners against processes | what was granted is held; `getlk` is exact |
| Attributes (`conv.rs`, `passthrough.rs` 44-85, 426-481) | a file's attributes | SETATTR in, stat out | times before the epoch, "now", which flags win | the reply has what was asked for and nothing else changed |
| Directory listing (`ffi.rs` 192-254, `memory_fs.rs` 632-670) | buffer, cookies | `add`, `readdir` | page boundaries, changes between pages | everything once, pages fit, the listing ends |
| Passthrough helpers (`passthrough.rs` 118-424) | the host's files | xattrs, mode, owner, permission check | two calls with a race between them, links, refused chown | reads are atomic, owners whole, what is said of links |
| Path tree (`path_fs.rs` 433-507, 531-543, 584-1035) | names and parents | every callback with a path | a rename above a path in use | the path leads to the node while it is used |
| `memory_fs` example | entries, `nlink`, the runtime's links and parents | create, link, unlink, rmdir, rename, lookup | rename that moves and replaces | three records of a link agree |
| Other examples, benches, bindings, errno, aliases | | | | not modelled |

Worker threads call the shims; a shim recovers the shared `Runtime`, calls one
method and sends one reply. A method takes the table mutex and the handle
mutex several times, briefly, and calls the filesystem with neither held. The
kernel is the other party: it counts the lookups of the replies it received and
gives them back with `forget`.

## Modules

* `HandleContract`: what a handle promises. A handle is issued, callbacks begin
  and end on it, its payload is consumed at most once, and then with no callback
  on it and none to come.
* `HandleTable`: the lease protocol. One action per critical section of the
  `handles` mutex or of a record's `state` mutex, or per stretch of code between
  two. `pc[t]` says where a worker is in `file()`/`release()`. Arc counts are
  derived: a worker owns an Arc of its record exactly while it is not idle.
  `Close`, `Wake` and `SpuriousWakeup` with the sets `drained[h]` are the condvar;
  `LeaseNode` includes the error path where `release()` fails after removing the
  record. `ImplementsContract` maps it to `HandleContract`.
* `NodeTable`: the inode table. One action per critical section; a trailing
  `maybe_drop` is part of the action (`SetAndMaybeDrop`). Clients have no
  discipline: anybody may call anything with any number. `records` and `history`
  are history variables that name each `Arc<NodeRecord>` and remember each
  (ino, generation) handed out.
* `Runtime` extends `NodeTable`: the requests, step by step, over the same table.
  The filesystem keeps one directory and follows the `NodeFs` contract; the
  kernel counts lookups and may forget at any time. `Serial` says whether
  the kernel's directory lock (Linux: `i_rwsem`, shared for lookup and readdir,
  exclusive for changes) orders directory requests; `faults`, fixed in each
  behaviour, says which replies may be lost and whether `readdirplus` may panic.
  A handle's lease is taken where `file()` linearizes; the protocol below that is `HandleTable`'s. `Revalidate` is
  a lookup of a name the kernel has cached, which comes without the directory
  lock; it alone may find another node under its number, and its reply then
  describes that node, as `KernelInodeLive` checks.
* `PathFs` extends `Runtime`: `PathNodeFs` takes the filesystem's place. `names` is
  `by_name`; `aliases` and `keys` are the namespace's other maps; `store` is the
  inner filesystem, name to object, and `object` remembers which object a node
  was inserted for. An object is what the mount can know to be one: links made
  through the mount share it, while names that were hard links of one file before
  the mount are objects, and get inodes, of their own; `file` says which objects
  are one file, and starts as any partition of the names. The inner filesystem
  tells such links apart in one case, a rename of one over the other, which does
  nothing there (`InnerRename`) while the adapter moves its dentry.
  A request that changes the directory holds `operations` for writing and is one step; a listing is many, and `fresh` and `inserted` are the
  dentries it will take back when the sink refuses an entry or the inner
  filesystem fails. `Parallel` says whether the kernel runs lookups and listings of
  one directory in parallel (`ParallelDirectoryOperations`, which `Session::new`
  enables in the multi-threaded mode). A rename or unlink is of a name the kernel
  has looked up (`KernelHas`). The external parts, the kernel and the inner
  filesystem, do no more than that: nothing changes the store behind the mount.
* `Shims`: the requests of `session.rs` from the callback to the reply, every
  operation of `make_ops`. `ShimTable` has what each shim sends when its call
  succeeds; a call itself is reduced to what it returns, to its lease on the open
  file, and, for `release`, to waiting for the others' leases. `faulty`, fixed in
  each behaviour, says whether replies may fail and destructors may panic.
* `LockDispatch`: clients, the kernel's queue, the pool, and the `operations` lock
  of the path adapter around callbacks, one of which (`setlk` with `sleep`) waits
  for a record lock that the filesystem keeps (`SetlkEffect`, external).
  `max_threads = 1` is the single-threaded mode. `WriterFirst` is the kind of
  `RwLock`: std's lets no reader pass a waiting writer on Linux.
* `Session`: the program's calls, libfuse's loop with its workers, signals and the
  kernel's INIT and DESTROY. `log` is history: calls to init and destroy, frees,
  and whether anything followed a stale pointer. `set_enabled` and `runtime_init`
  are the capability switches. `kmounted` is the mount whose descriptor the session
  has; a second `mount()` replaces it, and `left` counts what was replaced. libfuse
  takes an INIT unless it has taken one since the last DESTROY, and refuses it
  otherwise (`RefuseInit`).
* `FileLock` (the conversions, with the widths of the integers as constants),
  `LockService` (requests through them to a host's `fcntl`, which knows processes
  and not owners; `latest` is history, what was granted last for each byte) and
  `LockOwners` (the same with what each owner was told, `granted`, as a history).
* `TimeConv` (four conversions of times, seconds of `Second` nanoseconds) and
  `AttrService` (SETATTR through `setattr_from_raw` to the in-memory filesystem or
  to the host's, as `store` says, and back through `attr_to_stat`).
* `DirListing`: a directory read in pages through `DirBuffer`, by a kernel that uses
  as much of a page as it likes, while files come and go.
* `XattrRead`: the probe and the read of `getxattr_value_nofollow` (and of
  `listxattr_names_nofollow`, which is the same with names) as two steps.
* `HostPerms`: mode, owner and the permission check of `passthrough.rs`, on a file
  and a link to it, for a daemon that is privileged or not (`root`). `lchown` is on
  the node its path names; `chmod`, `chown` and so `set_ownership_path` are on the
  file, whichever of the two the path names.
* `MemoryFs`: the example's namespace, with the part of the inode table it drives.
  A request is one step, since the kernel holds the locks of what it names.
* `PathTree`: `PathNodeFs` over directories. A callback takes the lock, makes its
  path from the namespace, and the inner filesystem uses the path later; a change
  is two steps, of the inner filesystem and of the namespace. `NodeCalls` says
  for each callback whether it needs a path. Nodes are objects here; numbers are
  `PathFs`'s.
* `HandleTableProofs`, `NodeTableProofs`, `RuntimeProofs`, `PathFsProofs`, `TimeConvProofs`,
  `SessionProofs` (`Session`, `Shims`), `HostSideProofs` (`FileLock`, `LockService`,
  `LockOwners`, `XattrRead`, `HostPerms`, `DirListing`) and `TreeProofs` (`PathTree`,
  `MemoryFs`): theorems about them.
* `MCRuntime`, `MCPathFs`, `MCLockDispatch`, `MCLockOwners`, `MCHostPerms`: what
  TLC runs, with symmetry where it is sound.
* `MCSession` (`Session`, `LockDispatch`, `HandleTable`), `MCHostSide` (`Shims`,
  `LockService`, `AttrService`, `XattrRead`, `HostPerms`, `DirListing`) and
  `MCNodesAndTrees` (`NodeTable`, `MemoryFs`, `PathTree`) put modules side by side
  that share no variable. The variable
  `subject` is chosen at the start and says which of them moves; the others stay
  in an initial state. A behaviour of a component is a behaviour of the sum, and
  an invariant of one says nothing about the rest, so one run asks the questions
  of each.

A definition whose comment starts with "Mutant of" is not part of any
specification: it is a plausible slip in the code, kept to show that the
property it breaks depends on the definition it replaces.

## Runs

| Run | Instance | Shows |
|---|---|---|
| `session`: `HandleTable` | 3 threads, 2 nodes, 2 handles, fairness of `FairSpec` | `NoUseAfterTake`, `ConsumedExactlyOnce`, `NoLostWakeup`; every release ends (`ReleaseCompletes`); the table implements its contract (`ImplementsContract`) |
| `session`: `Session` | 3 workers, pools 0..2 and invalid ones, 2 capabilities, 4 mounts or runs | no stale pointer (`NoStaleUse`), freed once and destroy paired with init as far as libfuse does it (`TornDownOnce`), wanted capabilities there (`SessionOK`) |
| `session`: `LockDispatch` | 3 lockers, 1 maker, 2 workers, path adapter, readers wait for waiting writers, 1 round | every call returns unless one of the two jams of finding 6 has happened (`OnlyJams`) |
| `dispatch_writer` | violation: the same lock | a sleeping `setlk` stops the mount (`Served`) |
| `nodes_and_trees`: `NodeTable` | 2 holders, 3 insertions, clients count up to 1 | the table's promises under arbitrary clients |
| `nodes_and_trees`: `MemoryFs` | 2 names, 4 nodes, 2 lookups | entries, both link counts, parents (`TreeExact`) |
| `nodes_and_trees`: `PathTree` | 2 directories, 1 file with links, 2 components, 2 workers | a path in use is right, and the two trees agree (`PathsExact`) |
| `requests` | 2 threads, 2 names, 2 insertions, 1 handle, 2 lookups per inode, directory lock; readdirplus replies may be lost, or entry and open replies, with panics | the kernel's inodes live, handles bound to their nodes, ids resolved to the node meant, exact open counts, whatever fails; exact lookup counts and nothing leaked where the code recovers |
| `requests_any_order` | 2 threads, 1 name, 2 insertions, 2 handles, no directory lock | an open file keeps some node in its slot, and its release finds one, in whatever order requests come (`HandlePinned`) |
| `lost_entry_reply` | violation | an undelivered entry reply leaks its lookup |
| `paths` | 2 threads, 3 names, hard links of one file or not, 2 insertions, 4 objects, lookups and listings one at a time | names, aliases, links and the inner filesystem agree, and the runtime keeps its promises to the kernel (`AdapterOK`, `DentryRight`); the kernel's inodes have their paths (`PathKnown`) |
| `paths_parallel` | the same with `Parallel`, 2 names, 2 objects | a name leads to a live node that has it as an alias and a link (`DentryBacked`); the theorem shows it for any number of names |
| `path_lost` | violation | a listing takes back a name that a lookup has given to the kernel |
| `host_side`: `Shims` | 2 requests of any operation, sizes 0..1 and one more, faulty or not | one reply each, and in time (`ReqProtocol`), alive and fitting (`ReplyRight`); requests and releases end (`Answered`) |
| `host_side`: `LockService` | offsets 0..2, u64 0..5, the daemon and another process | what `setlk` granted last is what the host holds, and clashes with nothing of the other process (`LocksAgree`), `getlk` is exact (`GetlkExact`) |
| `lock_owners` | violation: 2 owners | two owners are told of locks that clash |
| `host_side`: `AttrService` | two nanoseconds to a second, seconds -2..1, every set of flags, both stores | the reply is what was asked for (`AttrsExact`) |
| `host_side`: `XattrRead` | values of length 0..2 of two texts | a read value was there, whole; errors are true (`ReadsTrue`) |
| `host_side`: `HostPerms` | a file and a link, three users and groups, privileged or not | owners whole, explicit times by owners (`PermsRight`) |
| `chmod_link` | violation: the same instance | `chmod_path` changes the file a link leads to (`ChmodNoFollow`) |
| `host_side`: `DirListing` | 4 names of two lengths, one with a NUL, buffer of 3, 3 changes | a directory that stays is listed once; pages fit (`PagesRight`); listings end (`ListingEnds`) |

Where several invariants say what one thing is, they are parts of one property:
`AttrsExact`, for instance, is the type invariant of `AttrService`, `SetExactly` and
`ChangeRecorded`. Every type invariant is proved as well.

Why the bounds suffice: the lease protocol's races are between one release and
at most two callbacks, and three threads give every such overlap, on one handle
or two. In the node table a number has to be freed, reused and freed again,
with a stale `NodeRef` around: three insertions do it. In `Runtime` two
insertions give one reuse; two threads give every pair of requests, and the
kernel's forgets are a third actor. In `PathFs` three names give a rename of one
of two aliases over the name of another node; two insertions give two known
objects, or a number that is used again, and a fourth object a name that is made
anew, or links of one file that were there before the mount and come apart. `LeakBound` stops faults from
piling up leaked lookups without end.

In `Shims` two requests give a release against any other request, and a size of
zero, the limit and one beyond it. In `LockDispatch` a deadlock needs one sleeper,
one who unlocks and one writer, or as many sleepers as workers: two workers, three
lockers and a maker give both. Each asks once; that a client is not passed over
for ever by others who ask again and again is not covered. In
`Session` four calls give mount, run, a failed run and a run again. In `MemoryFs`
four nodes are the root, two directories and a third to replace or to be moved.
In `DirListing` the buffer ends before, in and after a long entry. `TimeConv` has
seconds at both ends of their range and a fraction that is not zero. In
`PathTree` two directories give one above the other, and a rename of the upper
while the path of the lower is in use.

`EntryIsTarget`, `KernelInodeLive`, `LookupsExact` and `HandleKeepsNode` do need the
directory lock: without it a number may be recycled between the filesystem's
answer and `entry_for`, and `readdirplus` may put an entry in its reply whose
`retain_lookup` then fails. A forget of such an entry can free the node of a
`create` between `entry_for` and `add_open`, which then opens whatever has the number
(`HandleKeepsNode` with `Serial = FALSE`, `MaxRecords = 3`, `MaxFh = 2`); what is left is
`HandlePinned`. The runtime relies on the kernel there, as the README of `fuse3`
says ("no callback ordering"), which is why `Serial` is a constant.

## Fairness

`FairSpec` assumes weak fairness of each thread's own steps: the callbacks
return, and the mutexes are held for one step only, so a thread in the runtime
goes on. Nothing is assumed of new requests or of spurious wakeups.

`Shims` assumes the same of each request's steps: filesystem methods return.
`LockDispatch` assumes that workers run, and that a client that has the record lock
gives it back some time; nothing is assumed of clients that ask, and the lock is
the one std has on Linux. `DirListing`
assumes that a program that lists a directory goes on. `MCSession` and
`MCHostSide` assume these for the component a behaviour is about.

## Proofs

`HandleTableProofs` (for any finite set of threads, any nodes, any `MaxFh`):
`Invariance` proves an inductive invariant that adds to the type the facts that
`active[h]` is the number of threads with a lease on `h`, that `closing` precedes
`taken`, that at most one thread is in `close_and_take` for a record and only
after taking it out of the table, and that `moved` follows from `taken` and the
Arcs left. `NoUseAfterTake`, `ConsumedExactlyOnce` and `NoLostWakeup`
follow; none of them is inductive alone, because each depends on the count of
leases being exact. `Refinement` proves `Spec => ImplementsContract` from the
invariant.

`NodeTableProofs` (any finite set of holders, any bounds, arbitrary clients):
`TableInvariance` proves that `leases` is exactly the number of holders of that
record, that the free stack has distinct numbers disjoint from the map, that
the two cover the numbers handed out, and that every generation in `history` is
below the one on the free stack and at most the one in the map. `LeasePins`,
`NoZombie`, `IdentityUnique`, `FreeListExact` follow, and the action property
`NoTakeover` from the same invariant.

`RuntimeProofs` (any finite sets of threads and names, any bounds, faults and number of
insertions) has an inductive invariant in two layers. `AnyOrderInv` needs no order of
requests: it ties each thread's place in its request to what it has in hand, and each
`opens` count, of every number whether in the table or not, to the kernel's open
files plus the opens and releases on their way. Because the counts are tied for
numbers outside the table too, a number somebody needs cannot leave the table, and
the number `alloc` hands out is needed by nobody: that is what makes the argument
inductive. `TypeCorrect`, `OpensExact` and `HandlePinned` follow. `LockedInv`
assumes `Serial` and adds the same for lookups (`LookupsInv`, with what requests owe,
what is retained in a readdirplus buffer, and what a lost reply leaves), for links
(`FilesInv`), that the node a request was told of is still the one under its number
(`TargetInv`, `RefInv`, `KeepInv`), that buffers name live entries (`ListInv`,
`BufferInv`), and what the kernel's inodes are (`KernelInv`). From it
follow `EntryIsTarget`, `KernelInodeLive`, `LookupsExact`, `HandleKeepsNode` and
`FreedWhenUnreferenced`. None of the parts is inductive alone: that a node is
not freed depends on the exact counts, and that the counts go to the right node on its not
having been freed. What the counts say of a request, the kernel and the table
(`TellInv`, `TellKept`) does not mention the filesystem, and `PathFsProofs` uses it again.

`PathFsProofs` (any finite set of names and threads, any objects, any order of requests,
`Serial` and `Parallel` or not) proves `PathTypeCorrect` and `DentryBackedHolds`. Its
invariant extends the shape and the types of `RuntimeProofs` to the adapter's callbacks
and adds that each name of the namespace is an alias of the number it leads to, that a
number's aliases and names are covered by its links, and that the key of a node in the
table leads to it. The argument goes by what a step does to the namespace: it leaves
it alone, inserts, removes, links or renames (`StepKinds`), and each of these keeps the
invariant by a lemma of its own. Links are only covered, not counted exactly, because in
parallel they are not exact (finding 3).

The second half of `PathFsProofs` assumes what `paths` does, `Serial` and not
`Parallel`, and proves `AdapterOKHolds`, `DentryRightHolds`, `PathKnownHolds` and
`NamespaceExactHolds`. Its invariant `SerialInv` says that

* requests on the directory run one at a time (`OneInv`);
* links and aliases are exact, a name leads to the object it names, an object with two
  names is known by both, and a new object is one no number has had (`DirInv`): names
  that were links of one file before the mount are objects of their own, and a rename
  of one over the other gives the source a new one;
* the kernel's lookups are counted (`TellInv`) and the entries of a listing and the node
  a request was told of are still those (`ListingInv`, `PathTargetInv`);
* the kernel holds what it looks up again (`RevalInv`), and every name of an object it
  holds leads to that object's inode (`AnchorInv`): the source of a rename or an unlink
  is therefore known to the adapter, and a revalidation inserts nothing;
* a name that a listing may roll back is not one of an object the kernel holds
  (`InsertedInv`, `FreshInv`).

The last two carry the argument and need each other. A roll-back is harmless because
no other request has told the kernel of the name meanwhile, and a namespace change
finds its names because no roll-back took them. The proof goes by what a step does to the directory
(`Effects`: it keeps it, gains, loses, rolls back, moves or links a name); while it does
any of these but the first, no other request on the directory runs (`Alone`,
`Undisturbed`). With `Parallel` that step fails, which is finding 3.

`HostSideProofs`:

* locks (any widths with u64 wider than offsets): `ToThenFrom`, `FromThenTo` and
  `SameBytes` say that the conversions lose nothing they accept. `LocksAgreeHolds`
  carries it through `LockService` for any set of owners: typed locks, the daemon's
  being those granted last, and none in the way of another are inductive together,
  and what the owners were told (`LockOwners`) is history. What one owner was told
  before another asked is not safe (finding 5). `GetlkExactHolds` holds for any owners.
  Its core is that a byte with a lock lies in a range that cannot be extended
  (`WholeRange`, from the least and the greatest element of a set of numbers), so
  that `F_GETLK` finds a lock exactly when a byte is blocked, and that the two
  conversions carry it back (`AnswerExact`);
* extended attributes (any texts, lengths, readers): `ReadsTrueHolds`. The invariant
  adds that between its two calls a reader has the size of some value the attribute
  has had since the probe, and that its present value is one of those;
* modes and owners: `PermsRightHolds`, from what one `chown` does to the file when it
  is given a file or a link (`GiveWhole`);
* listings (any finite set of names, any buffer that holds one entry): `PagesRightHolds`.
  The invariant says that, as long as nothing changes, what was read is exactly what
  lies up to the cookie. It rests on cookies being in the order of the names
  (`PlaceOrder`), on a page being closed downwards, and on a page never being empty
  while there is an entry to send (`PageGoesOn`), which is why the end is the end.

`TimeConvProofs` (any resolution and range): the round trips of times, that the two
decoders agree, and `SetattrExact`, that a SETATTR reply is what was asked for, with
ctime moved, in both stores; the invariant adds that times stay in range and that the
last reply is the stat of the stored attributes.

`SessionProofs` (any workers, pool limit, capabilities, number of calls):
`SessionInvariance` says what is allocated in each place of the program, that
handlers, loop configuration and busy workers exist inside the loop only, that a
mount of the kernel is one the Session knows of, and how libfuse's two flags follow
from the calls to init and destroy (init is one ahead while `got_init` is set, and
`got_destroy` is set once there was a destroy). `NoStaleUse` and
`TornDownOnce` follow; they depend on one another, since a callback is safe because
the place of the program says what is live. `SessionWellFormed` adds the types.
`ShimInvariance` (any requests and sizes, any operations supported) says for every
request how far it is, what was sent for it, and whether it has a lease; that a lease
is kept past the method's return by a read with data only; and that the handle is
gone only when nobody leases it. `ReqProtocol` and `ReplyRight` follow.

`TreeProofs` (any directories, files, names and workers, any number of nodes and of
references to them). The prover takes no recursion, so the models have none:
`path_for` is the route from the root on which everything is where its first alias
says, `Walk` the route that a path's components lead along, and what is above a
directory (`Below`, `Under`) is what every set has that has the directory and, with a
member, its parents. That directories are a tree is then that no set of them has the
parents of all its members (`NoRing`, `NoLoop`): rename is the hard case, and there a
ring S through the moved directory, cut with the set T above its new place, which is
without it, would have been a ring before.

* `PathsExactHolds`. `PathTreeInv` says that an object of the namespace has its names in
  directories of it, that the trees are the same but for the one change that is between
  the inner filesystem and the namespace (`HalfDone`), who holds the lock, and that a
  path that is in use leads to the object it was made for (`Located`). It is inductive
  because a change needs the lock that every user of a path shares. Two routes along
  one path are the same, by the least place where they differ (`OneRoute`); an object in
  the tree has a path no longer than there are objects (`PathThere`: the
  directories without one would be a ring), so `path_for`'s recursion ends.
* `TreeExactHolds`. `TreeInv(s, n)` is about any two tables: an entry is in a directory of
  the tree and right about its target, links and `st_nlink` are the counts, a directory
  has one name, in its parent, and `NoLoop`. What a request does is a fresh node
  (`FreshTree`), a name gained (`GainTree`), lost (`LoseTree`) or moved (`MoveTree`), and
  a rename that replaces is a loss and then a move (`RenameOver`); `CommitTree` says that
  what is dropped had no entries and no names. `saturating_sub` never saturates: an
  entry is counted where it is taken away (`EntryThere`). Assumed are a finite set of
  names and bounds above 0: `create` hands the kernel a reference.

Only model-checked: liveness (`ReleaseCompletes`, `OnlyJams`, `Answered`,
`ListingEnds`), which is out of the prover's reach.

## Findings

Five have a run of their own, marked "violation". The others were met with other
constants, which are given, or are exceptions that a property names.

1. `reply_entry` (and the create and open replies) ignore that a reply was not
   delivered; the lookup, open and handle it carried are never given back
   (`lost_entry_reply`). `readdirplus_shim` does handle it.
2. A panic of the filesystem's `readdirplus` after accepted entries leaks their
   lookups; only an `Err` is rolled back (`AlwaysFreed` with `FaultSets = {{"panic"}}`).
3. With parallel directory operations a listing of the path adapter rolls back a
   name it inserted although a concurrent lookup has handed the inode to the
   kernel (`path_lost`): the file is there, its inode has no path. As a further
   consequence `rename` then does not know its source and leaves the old
   dentry of its destination, so `DentryRight` holds in `paths` only. If that
   destination was a hard link, a further rename and `link` over the stale name
   overwrite the dentry without taking the old link away: from three names on the
   links of a node may exceed its names, and `NamespaceExact` holds in `paths` only;
   `DentryBacked` is what is left.
4. In the same situation `retain_lookup` fails for an entry already in the
   readdirplus reply, and nobody counts its lookup (`retained` is false in
   `PlusRetain`; `LookupsExact` fails with `Parallel = TRUE`).
5. `setlk` of `file_lock.rs` drops the owner, so that two owners of one mount both
   get the same lock, although its comment calls it "the whole implementation a
   filesystem needs" (`lock_owners`). What each of them holds afterwards on the host is
   what the last of them asked for (`LocksAgree`).
6. A `setlk` that sleeps does so under the path adapter's read lock: with a
   namespace change waiting, no later call gets in, the unlock included
   (`dispatch_writer`). Without the adapter it still keeps a worker, and as many
   sleepers as workers stop the mount (`Served` with three lockers, no maker,
   `max_threads = 2` and `PathAdapter = FALSE`). These are `ShutOut` and `Occupied`, and
   `OnlyJams` shows that nothing else stops a call.
7. `readdirplus_shim` asks its request for the runtime after a failed reply, which
   has freed it: the exception in `ReqInFlight`.
8. `read_shim` replies inside `catch_unwind` and before the leases are dropped; if
   that drop runs a destructor that panics, it replies again: the exception in
   `AnsweredOnce`.
9. The comment at `holder_of` justifies it by sequential requests; the default is
   a pool (`Begin` of a second worker in `Session`). What it needs is `NoStaleUse`,
   which holds.
10. The cookies of `memory_fs` are positions, so a removal between two pages hides a
    name that stays; `ListedOnce` is about directories that do not change.
11. `to_timespec` makes every time before the epoch the epoch: `Given` in
    `SetExactly`.
12. `chmod_path` follows symbolic links, although documented not to (`chmod_link`);
    `chown_path` does not.
13. `set_ownership_path` is "of a path" and calls `chown(2)`, which follows: given a
    new symbolic link, a privileged daemon gives the file it leads to to the caller,
    and keeps the link: the second half of `OwnerWhole`. An unprivileged one is
    refused and goes on.
14. A session that is mounted again after a DESTROY initializes the filesystem again
    ("Called on filesystem exit", `node_fs.rs:282`, of destroy), and the last
    initialization has no destroy when the session is dropped without a second
    DESTROY: libfuse remembers that there was one. It is the exception in
    `DestroyPaired`. A second `mount()` without an unmount replaces the first, which
    nobody unmounts (`left` in `FreedOnce`), and after an unmount without DESTROY the next
    INIT is refused with EIO (`RefuseInit`).
15. Two names that are hard links of one file before the mount have two inodes
    through it, since the adapter knows links by the calls that made them: what
    `PathKnown` says is about the names the mount knows.

## Not modelled, and the plan

Left to do: `PathFs` with changes of the inner filesystem behind the mount; file
contents and extended attributes of `memory_fs`, the numbers of `ConnInfo`
(`max_write` and the like) and `statfs`.

Left out for good: bindings, build scripts, the hello examples, benchmarks, errno
tables and symbol aliases (no logic of their own), the strings of mount options,
the counters' overflow panics at 2^32 and 2^64, and the passthrough helpers that
are one system call without state (`mknod`, file kinds, names as C strings).
