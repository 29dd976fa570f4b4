---------------------------- MODULE LockDispatch ----------------------------
(***************************************************************************)
(* Waiting requests and the workers that serve them: a pool of at most     *)
(* max_threads workers (session.rs) takes requests from the kernel's       *)
(* queue, the path adapter runs each callback under its `operations` lock  *)
(* (path_fs.rs), and a setlk that may sleep waits inside the callback      *)
(* until the record lock is free.                                          *)
(*                                                                         *)
(* The clients are processes that use the mount, each with one system      *)
(* call at a time: lockers take and give back one record lock, makers      *)
(* create entries and make calls of the other kind, "access": any that     *)
(* the adapter serves under the read lock without waiting inside.          *)
(***************************************************************************)
EXTENDS Naturals, Sequences, FiniteSets

CONSTANTS
  Lockers, Makers,
  max_threads,   \* ThreadPoolConfig.max_threads; 1 is also SingleThreaded
  PathAdapter,   \* whether the filesystem is behind PathNodeFs
  WriterFirst,   \* whether RwLock lets no reader pass a writer that waits,
                 \* as std's does on Linux; its documentation leaves it open
  Rounds         \* bound: system calls of each client that acquire or create

ASSUME PoolAssumption == max_threads \in Nat \ {0} /\ Rounds \in Nat

Clients == Lockers \cup Makers
Nobody == "nobody"

ASSUME NobodyAssumption == Nobody \notin Clients

VARIABLES
  call,      \* call[c]: the system call c is in
  rounds,    \* rounds[c]: so many more locks or entries c will ask for
  queue,     \* kernel: the clients whose request no worker has taken yet
  serving,   \* the clients a worker is busy for
  place,     \* place[c]: how far that worker is
  readers, writer, waiting,   \* PathNodeFs.operations: its holders, and the
                              \* writers that wait for it
  owner,     \* the client that has the record lock
  told       \* told[c]: what c knows: whether it has the lock

dispatchVars == <<call, rounds, queue, serving, place, readers, writer, waiting, owner, told>>

DispatchInit ==
  /\ call = [c \in Clients |-> "none"]
  /\ rounds = [c \in Clients |-> Rounds]
  /\ queue = <<>>
  /\ serving = {}
  /\ place = [c \in Clients |-> "outside"]
  /\ readers = {} /\ writer = Nobody /\ waiting = {}
  /\ owner = Nobody
  /\ told = [c \in Clients |-> FALSE]

opsVars == <<readers, writer, waiting>>

-----------------------------------------------------------------------------
(* The clients, and the kernel's queue *)

Issue(c, k) ==
  /\ call[c] = "none"
  /\ call' = [call EXCEPT ![c] = k]
  /\ queue' = Append(queue, c)
  /\ UNCHANGED <<serving, place, opsVars, owner, told>>

Ask(c, k) ==
  /\ rounds[c] > 0 /\ ~told[c]
  /\ rounds' = [rounds EXCEPT ![c] = @ - 1]
  /\ Issue(c, k)

Unlock(c) == told[c] /\ UNCHANGED rounds /\ Issue(c, "unlock")

\* A worker that is free, or a new one below the limit, takes the next request.
TakeRequest(c) ==
  /\ queue # <<>> /\ Head(queue) = c
  /\ Cardinality(serving) < max_threads
  /\ queue' = Tail(queue)
  /\ serving' = serving \cup {c}
  /\ place' = [place EXCEPT ![c] = "outside"]
  /\ UNCHANGED <<call, rounds, opsVars, owner, told>>

-----------------------------------------------------------------------------
(* The callback *)

Inside(c) == place' = [place EXCEPT ![c] = "inside"]

\* Mutant of EnterRead: setlk takes the lock for writing.
EnterSetlkWrites(c) ==
  LET writes == PathAdapter /\ call[c] \in {"setlk", "setlk_sleep"}
  IN /\ c \in serving /\ place[c] = "outside" /\ call[c] # "mknod"
     /\ PathAdapter => writer = Nobody /\ (WriterFirst => waiting = {})
     /\ writes => readers = {}
     /\ readers' = IF PathAdapter /\ ~writes THEN readers \cup {c} ELSE readers
     /\ writer' = IF writes THEN c ELSE writer
     /\ Inside(c)
     /\ UNCHANGED <<call, rounds, queue, serving, waiting, owner, told>>

\* read_lock(&self.operations)
EnterRead(c) ==
  /\ c \in serving /\ place[c] = "outside" /\ call[c] # "mknod"
  /\ PathAdapter => writer = Nobody /\ (WriterFirst => waiting = {})
  /\ readers' = IF PathAdapter THEN readers \cup {c} ELSE readers
  /\ Inside(c)
  /\ UNCHANGED <<call, rounds, queue, serving, writer, waiting, owner, told>>

\* write_lock(&self.operations), which waits if anybody is inside
WaitWrite(c) ==
  /\ PathAdapter
  /\ c \in serving \ waiting /\ place[c] = "outside" /\ call[c] = "mknod"
  /\ waiting' = waiting \cup {c}
  /\ UNCHANGED <<call, rounds, queue, serving, place, readers, writer, owner, told>>

EnterWrite(c) ==
  /\ c \in serving /\ place[c] = "outside" /\ call[c] = "mknod"
  /\ PathAdapter => c \in waiting /\ writer = Nobody /\ readers = {}
  /\ writer' = IF PathAdapter THEN c ELSE writer
  /\ waiting' = waiting \ {c}
  /\ Inside(c)
  /\ UNCHANGED <<call, rounds, queue, serving, readers, owner, told>>

\* The guard `_g` goes out of scope.
LeaveOps(c) ==
  /\ readers' = readers \ {c}
  /\ writer' = IF writer = c THEN Nobody ELSE writer
  /\ UNCHANGED waiting

\* The record lock as the filesystem keeps it: setlk with sleep waits, without
\* it fails (EAGAIN).
SetlkEffect(c) ==
  \/ call[c] = "unlock" /\ owner' = Nobody
  \/ call[c] \in {"setlk", "setlk_sleep"} /\ owner \in {Nobody, c} /\ owner' = c
  \/ call[c] = "setlk" /\ owner \notin {Nobody, c} /\ UNCHANGED owner

RunCallback(c) ==
  /\ c \in serving /\ place[c] = "inside"
  /\ IF call[c] \in {"mknod", "access"} THEN UNCHANGED owner ELSE SetlkEffect(c)
  /\ LeaveOps(c)
  /\ place' = [place EXCEPT ![c] = "returned"]
  /\ UNCHANGED <<call, rounds, queue, serving, told>>

\* The shim replies and the worker is free again.
Respond(c) ==
  /\ c \in serving /\ place[c] = "returned"
  /\ serving' = serving \ {c}
  /\ call' = [call EXCEPT ![c] = "none"]
  /\ told' = [told EXCEPT ![c] = owner = c]
  /\ UNCHANGED <<rounds, queue, place, opsVars, owner>>

ClientNext(c) ==
  \/ c \in Lockers /\ (Ask(c, "setlk") \/ Ask(c, "setlk_sleep"))
  \/ c \in Makers /\ (Ask(c, "mknod") \/ Ask(c, "access"))

WorkerNext(c) ==
  \/ TakeRequest(c) \/ EnterRead(c) \/ WaitWrite(c) \/ EnterWrite(c) \/ RunCallback(c) \/ Respond(c)

DispatchNext == \E c \in Clients : ClientNext(c) \/ Unlock(c) \/ WorkerNext(c)

\* Workers run, and a client that has the lock gives it back some time.
DispatchFairness ==
  \A c \in Clients : WF_dispatchVars(WorkerNext(c)) /\ WF_dispatchVars(Unlock(c))

DispatchSpec == DispatchInit /\ [][DispatchNext]_dispatchVars /\ DispatchFairness

-----------------------------------------------------------------------------
(* Properties *)

\* Every system call returns: a request is taken by a worker and answered,
\* and a setlk that sleeps wakes up when the lock becomes available
\* (NodeFs::setlk, "block until the lock is available").
Served == \A c \in Clients : call[c] # "none" ~> call[c] = "none"

\* c sleeps in setlk until another client gives the record lock back.
Asleep(c) ==
  /\ c \in serving /\ place[c] = "inside" /\ call[c] = "setlk_sleep"
  /\ owner \notin {Nobody, c}

\* The two ways in which sleepers keep out the unlock they sleep for: under the
\* adapter's lock while a namespace change waits for that, or with every worker.
ShutOut ==
  /\ PathAdapter /\ WriterFirst /\ waiting # {}
  /\ \E c \in readers : Asleep(c)
  /\ ~(call[owner] = "unlock" /\ place[owner] = "inside")
Occupied == Cardinality({c \in serving : Asleep(c)}) = max_threads

\* Nothing else stops a call: with the lock the code uses, which lets no reader
\* pass a writer that waits, and with fewer workers than clients, every call
\* returns or one of the two has happened.
OnlyJams ==
  \A c \in Clients : call[c] # "none" ~> (call[c] = "none" \/ ShutOut \/ Occupied)
=============================================================================
