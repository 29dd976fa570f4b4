---------------------------- MODULE HandleTable ----------------------------
(***************************************************************************)
(* The open-handle table of typed_fuse_core's Runtime and the lease        *)
(* protocol of its records (runtime.rs: HandleRecord, HandleLease,         *)
(* HandleTable, Runtime::file/dir/release/releasedir).                     *)
(*                                                                         *)
(* Every worker thread of the session may run a callback on a handle, or   *)
(* release it, at any time.  A step is one critical section of the         *)
(* `handles` mutex or of a record's `state` mutex, or the code between two *)
(* of them.  Arc<HandleRecord> reference counts are not stored: a thread   *)
(* holds one exactly while it is not idle, and the table holds one for     *)
(* each of its entries, so the last one is gone when neither does.         *)
(***************************************************************************)
EXTENDS Naturals, FiniteSets

CONSTANTS
  Threads,   \* the worker threads of the session
  Nodes,     \* the inode numbers handles are opened on
  MaxFh      \* bound: how many handles are opened (next_fh is a u64)

ASSUME ThreadsFinite == IsFiniteSet(Threads)
ASSUME MaxFhNat == MaxFh \in Nat

Fh == 1..MaxFh
Kinds == {"file", "dir"}

VARIABLES
  table,     \* table[k]: the keys of HandleTable.files and HandleTable.dirs
  next_fh,   \* HandleTable.next_fh, shared by the two maps
  node,      \* node[h]: HandleRecord.node
  active,    \* active[h]: HandleState.active
  closing,   \* closing[h]: HandleState.closing
  taken,     \* taken[h]: HandleState.taken
  drained,   \* drained[h]: the threads asleep on HandleRecord.drained
  moved,     \* history: how often the payload of h was moved out or dropped
  pc,        \* pc[t]: where thread t is in file()/release()
  fh,        \* fh[t]: the handle it is there for
  ino        \* ino[t]: the inode number of its request

record == <<node, active, closing, taken, drained, moved>>
request == <<fh, ino>>
vars == <<table, next_fh, record, pc, request>>

\* "cloned"  has the record's Arc from the table, has not acquired a lease
\* "leased"  holds a HandleLease: the callback is running on the payload
\* "removed" release() took the record out of the table
\* "close"   release() has its node and is about to enter close_and_take
\* "waiting" is in the wait loop of close_and_take
\* "take"    has set `taken` and unlocked, is about to move the payload out
\* "consume" runs the filesystem's release()/releasedir() on the payload
\* "unref"   is about to drop its Arc of the record
PCs == {"idle", "cloned", "leased", "removed", "close", "waiting", "take",
        "consume", "unref"}

TypeOK ==
  /\ table \in [Kinds -> SUBSET Fh]
  /\ next_fh \in 1..(MaxFh + 1)
  /\ node \in [Fh -> Nodes]
  /\ active \in [Fh -> Nat]
  /\ closing \in [Fh -> BOOLEAN]
  /\ taken \in [Fh -> BOOLEAN]
  /\ drained \in [Fh -> SUBSET Threads]
  /\ moved \in [Fh -> Nat]
  /\ pc \in [Threads -> PCs]
  /\ fh \in [Threads -> Nat]
  /\ ino \in [Threads -> Nodes]

Init ==
  /\ table = [k \in Kinds |-> {}]
  /\ next_fh = 1
  /\ node \in [Fh -> Nodes]            \* of a record that does not exist yet
  /\ active = [h \in Fh |-> 0]
  /\ closing = [h \in Fh |-> FALSE]
  /\ taken = [h \in Fh |-> FALSE]
  /\ drained = [h \in Fh |-> {}]
  /\ moved = [h \in Fh |-> 0]
  /\ pc = [t \in Threads |-> "idle"]
  /\ fh = [t \in Threads |-> 0]
  /\ ino \in [Threads -> Nodes]

-----------------------------------------------------------------------------
(* Derived state *)

Issued == {h \in Fh : h < next_fh}

\* The threads whose callback is running on the payload of h.
Leases(h) == {t \in Threads : pc[t] = "leased" /\ fh[t] = h}

\* The threads that own an Arc of the record of h.
ArcHolders(h) == {t \in Threads : pc[t] # "idle" /\ fh[t] = h}

InTable(h) == \E k \in Kinds : h \in table[k]

Goto(t, l) == pc' = [pc EXCEPT ![t] = l]

-----------------------------------------------------------------------------
(* Runtime::open, opendir and create: add_file/add_dir *)

AddHandle(k, n) ==
  /\ next_fh <= MaxFh
  /\ table' = [table EXCEPT ![k] = @ \cup {next_fh}]
  /\ node' = [node EXCEPT ![next_fh] = n]
  /\ next_fh' = next_fh + 1
  /\ UNCHANGED <<active, closing, taken, drained, moved, pc, request>>

-----------------------------------------------------------------------------
(* Runtime::file and dir, the callback, and the end of the lease *)

\* The record is cloned out of the table under the `handles` lock.
GetRecord(t, k, n, h) ==
  /\ pc[t] = "idle"
  /\ h \in table[k]
  /\ fh' = [fh EXCEPT ![t] = h]
  /\ ino' = [ino EXCEPT ![t] = n]
  /\ Goto(t, "cloned")
  /\ UNCHANGED <<table, next_fh, record>>

\* An unknown handle, or a handle of the other kind: EBADF.
BadHandle(t, k, h) ==
  /\ pc[t] = "idle"
  /\ h \notin table[k]
  /\ UNCHANGED vars

\* Mutant of Acquire: the record's `closing` flag is not tested.
AcquireWhileClosing(t) ==
  /\ pc[t] = "cloned"
  /\ node[fh[t]] = ino[t]
  /\ active' = [active EXCEPT ![fh[t]] = @ + 1]
  /\ Goto(t, "leased")
  /\ UNCHANGED <<table, next_fh, node, closing, taken, drained, moved, request>>

\* Once the table is unlocked the record may be closed before this runs.
Acquire(t) ==
  /\ pc[t] = "cloned"
  /\ IF node[fh[t]] = ino[t] /\ ~closing[fh[t]]
       THEN /\ active' = [active EXCEPT ![fh[t]] = @ + 1]
            /\ Goto(t, "leased")
       ELSE /\ Goto(t, "unref")        \* EBADF
            /\ UNCHANGED active
  /\ UNCHANGED <<table, next_fh, node, closing, taken, drained, moved, request>>

\* Mutant of DropLease: no notify_all.
DropLeaseSilently(t) ==
  /\ pc[t] = "leased"
  /\ active' = [active EXCEPT ![fh[t]] = @ - 1]
  /\ Goto(t, "unref")
  /\ UNCHANGED <<table, next_fh, node, closing, taken, drained, moved, request>>

\* The callback returned or panicked: HandleLease::drop.
DropLease(t) ==
  LET h == fh[t]
      left == IF active[h] = 0 THEN 0 ELSE active[h] - 1
  IN /\ pc[t] = "leased"
     /\ active' = [active EXCEPT ![h] = left]
     /\ drained' = IF left = 0 /\ closing[h]
                     THEN [drained EXCEPT ![h] = {}]
                     ELSE drained
     /\ Goto(t, "unref")
     /\ UNCHANGED <<table, next_fh, node, closing, taken, moved, request>>

\* Mutant of DropArc: HandleRecord has no Drop, so ManuallyDrop keeps the payload.
DropArcOnly(t) ==
  /\ pc[t] = "unref"
  /\ Goto(t, "idle")
  /\ fh' = [fh EXCEPT ![t] = 0]
  /\ UNCHANGED <<table, next_fh, record, ino>>

\* An Arc is dropped; with the last one HandleRecord::drop runs, and drops
\* the payload unless it was taken.
DropArc(t) ==
  LET h == fh[t]
      last == ArcHolders(h) = {t} /\ ~InTable(h)
  IN /\ pc[t] = "unref"
     /\ moved' = IF last /\ ~taken[h] THEN [moved EXCEPT ![h] = @ + 1] ELSE moved
     /\ Goto(t, "idle")
     /\ fh' = [fh EXCEPT ![t] = 0]
     /\ UNCHANGED <<table, next_fh, node, active, closing, taken, drained, ino>>

-----------------------------------------------------------------------------
(* Runtime::release and releasedir, HandleRecord::close_and_take *)

\* One critical section: check that h names a handle on n, and remove it.
RemoveRecord(t, k, n, h) ==
  /\ pc[t] = "idle"
  /\ h \in table[k]
  /\ node[h] = n
  /\ table' = [table EXCEPT ![k] = @ \ {h}]
  /\ fh' = [fh EXCEPT ![t] = h]
  /\ ino' = [ino EXCEPT ![t] = n]
  /\ Goto(t, "removed")
  /\ UNCHANGED <<next_fh, record>>

\* h is a handle on another node: EBADF.
WrongNode(t, k, n, h) ==
  /\ pc[t] = "idle"
  /\ h \in table[k]
  /\ node[h] # n
  /\ UNCHANGED vars

\* `self.node(ino)?`: on ENOENT the record is dropped, with the payload, and
\* the filesystem's release() is not called.
LeaseNode(t) ==
  /\ pc[t] = "removed"
  /\ \/ Goto(t, "close")
     \/ Goto(t, "unref")
  /\ UNCHANGED <<table, next_fh, record, request>>

\* Mutant of TestDrained: the payload is taken without waiting.
TakeAtOnce(t) ==
  /\ taken' = [taken EXCEPT ![fh[t]] = TRUE]
  /\ Goto(t, "take")
  /\ UNCHANGED <<table, next_fh, node, active, drained, moved, request>>

\* The wait loop's test, under the record's lock: sleep, or take.
TestDrained(t) ==
  LET h == fh[t]
  IN /\ IF active[h] # 0
          THEN /\ drained' = [drained EXCEPT ![h] = @ \cup {t}]
               /\ Goto(t, "waiting")
               /\ UNCHANGED taken
          ELSE /\ taken' = [taken EXCEPT ![h] = TRUE]
               /\ Goto(t, "take")
               /\ UNCHANGED drained
     /\ UNCHANGED <<table, next_fh, node, active, moved, request>>

Close(t) ==
  /\ pc[t] = "close"
  /\ closing' = [closing EXCEPT ![fh[t]] = TRUE]
  /\ TestDrained(t)

\* Woken up, it holds the lock again and repeats the test.
Wake(t) ==
  /\ pc[t] = "waiting"
  /\ t \notin drained[fh[t]]
  /\ TestDrained(t)
  /\ UNCHANGED closing

\* A Condvar may wake a thread that nobody notified.
SpuriousWakeup(t) ==
  /\ pc[t] = "waiting"
  /\ t \in drained[fh[t]]
  /\ drained' = [drained EXCEPT ![fh[t]] = @ \ {t}]
  /\ UNCHANGED <<table, next_fh, node, active, closing, taken, moved, pc, request>>

\* ManuallyDrop::take
Take(t) ==
  /\ pc[t] = "take"
  /\ moved' = [moved EXCEPT ![fh[t]] = @ + 1]
  /\ Goto(t, "consume")
  /\ UNCHANGED <<table, next_fh, node, active, closing, taken, drained, request>>

\* The filesystem's release()/releasedir() consumes the payload.
Consume(t) ==
  /\ pc[t] = "consume"
  /\ Goto(t, "unref")
  /\ UNCHANGED <<table, next_fh, record, request>>

-----------------------------------------------------------------------------

Step(t) ==
  \/ Acquire(t) \/ DropLease(t) \/ DropArc(t)
  \/ LeaseNode(t) \/ Close(t) \/ Wake(t) \/ Take(t) \/ Consume(t)

Request(t) ==
  \E k \in Kinds, h \in Fh :
    \/ BadHandle(t, k, h)
    \/ \E n \in Nodes :
         \/ GetRecord(t, k, n, h)
         \/ RemoveRecord(t, k, n, h)
         \/ WrongNode(t, k, n, h)

Next ==
  \/ \E k \in Kinds, n \in Nodes : AddHandle(k, n)
  \/ \E t \in Threads : Request(t) \/ Step(t) \/ SpuriousWakeup(t)

Spec == Init /\ [][Next]_vars

\* A thread inside the runtime keeps running: its callbacks return, and the
\* mutexes it needs are only ever held for one of the steps above.
FairSpec == Spec /\ \A t \in Threads : WF_vars(Step(t))

-----------------------------------------------------------------------------
(* Properties *)

\* No callback ever dereferences a payload that release() has moved out or
\* that HandleRecord::drop has dropped (the SAFETY comments of
\* HandleLease::deref and close_and_take).
NoUseAfterTake == \A t \in Threads : pc[t] = "leased" => moved[fh[t]] = 0

\* The payload of a handle is moved out or dropped at most once, whatever the
\* race between release(), late leases and the last Arc (ManuallyDrop gives no
\* protection against a double drop).
ConsumedAtMostOnce == \A h \in Fh : moved[h] <= 1

\* A record nobody can reach any more has had its payload moved out or
\* dropped: ManuallyDrop leaks nothing, on the EBADF and ENOENT paths too.
NoPayloadLeak ==
  \A h \in Issued : ~InTable(h) /\ ArcHolders(h) = {} => moved[h] = 1

\* Together: every payload is given up exactly once by the time its record is
\* out of reach.
ConsumedExactlyOnce == ConsumedAtMostOnce /\ NoPayloadLeak

\* No wakeup is lost: a release() still asleep on the condition variable has a
\* lease to wait for, so a notification is yet to come.
NoLostWakeup ==
  \A h \in Fh : drained[h] # {} => active[h] # 0 /\ Leases(h) # {}

\* Every release() that reaches close_and_take comes to its end, however many
\* callbacks were running and however their ends interleave with it.
ReleaseCompletes ==
  \A t \in Threads : pc[t] \in {"close", "waiting"} ~> pc[t] = "idle"

\* HandleTable implements the contract of HandleContract.
Contract == INSTANCE HandleContract
  WITH born <- Issued,
       users <- [h \in Fh |-> Leases(h)],
       consumed <- moved

ImplementsContract == Contract!Spec
=============================================================================
