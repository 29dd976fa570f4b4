------------------------------ MODULE FileLock ------------------------------
(***************************************************************************)
(* The conversions between a FileLock, with its inclusive u64 range, and   *)
(* a struct flock, with its signed start and length (file_lock.rs).  The   *)
(* widths of the integers are parameters.                                  *)
(***************************************************************************)
EXTENDS Integers

CONSTANTS
  OffMax,   \* libc::off_t::MAX
  UMax,     \* u64::MAX
  PidMax    \* libc::pid_t::MAX

\* An unsigned integer has the bit that its signed sibling gives to the sign.
ASSUME WidthAssumption ==
  /\ OffMax \in Nat \ {0}
  /\ UMax = 2 * OffMax + 1
  /\ PidMax \in Nat \ {0}

Kinds == {"Read", "Write", "Unlock"}
LockTypes == {"F_RDLCK", "F_WRLCK", "F_UNLCK"}
FileLocks == [kind : Kinds, start : 0..UMax, end : 0..UMax, pid : 0..(2 * PidMax + 1)]
Flocks == [l_type : LockTypes \cup {"unknown"}, l_whence : {"SEEK_SET", "SEEK_END"},
           l_start : (-OffMax - 1)..OffMax, l_len : (-OffMax - 1)..OffMax,
           l_pid : (-PidMax - 1)..PidMax]

Ok(v) == [err |-> "none", val |-> v]
Err(e) == [err |-> e]

TypeOf(kind) ==
  CASE kind = "Read" -> "F_RDLCK" [] kind = "Write" -> "F_WRLCK" [] OTHER -> "F_UNLCK"

KindOf(l_type) ==
  CASE l_type = "F_RDLCK" -> "Read" [] l_type = "F_WRLCK" -> "Write" [] OTHER -> "Unlock"

-----------------------------------------------------------------------------

\* Mutant of to_flock: the inclusive end is taken for an exclusive one.
to_flock_exclusive(lock) ==
  LET len == IF lock.end = UMax THEN 0 ELSE lock.end - lock.start
  IN IF lock.end < lock.start THEN Err("EINVAL")
     ELSE IF lock.start > OffMax \/ len > OffMax \/ lock.pid > PidMax THEN Err("EOVERFLOW")
     ELSE Ok([l_type |-> TypeOf(lock.kind), l_whence |-> "SEEK_SET",
              l_start |-> lock.start, l_len |-> len, l_pid |-> lock.pid])

\* A length of zero means "to end of file", which is end = u64::MAX here.
to_flock(lock) ==
  LET len == IF lock.end = UMax THEN 0 ELSE lock.end - lock.start + 1
  IN IF lock.end < lock.start THEN Err("EINVAL")
     ELSE IF lock.start > OffMax \/ len > OffMax \/ lock.pid > PidMax THEN Err("EOVERFLOW")
     ELSE Ok([l_type |-> TypeOf(lock.kind), l_whence |-> "SEEK_SET",
              l_start |-> lock.start, l_len |-> len, l_pid |-> lock.pid])

\* A negative pid is what an open file description lock reports.
from_flock(raw) ==
  LET end == IF raw.l_len = 0 THEN UMax ELSE raw.l_start + raw.l_len - 1
  IN IF \/ raw.l_whence # "SEEK_SET" \/ raw.l_start < 0 \/ raw.l_len < 0
        \/ raw.l_type \notin LockTypes \/ end > UMax
     THEN Err("EINVAL")
     ELSE Ok([kind |-> KindOf(raw.l_type), start |-> raw.l_start, end |-> end,
              pid |-> IF raw.l_pid < 0 THEN 0 ELSE raw.l_pid])

\* The shims copy field by field between libfuse's flock and libc's.
lock_from_raw(raw) == from_flock(raw)
lock_to_raw(lock) == to_flock(lock)

-----------------------------------------------------------------------------
(* What the two types mean: bytes of a file, which has offsets 0..OffMax *)

Bytes == 0..OffMax
RawBytes(raw) ==
  {b \in Bytes : b >= raw.l_start /\ (raw.l_len = 0 \/ b <= raw.l_start + raw.l_len - 1)}
LockBytes(lock) == {b \in Bytes : b >= lock.start /\ b <= lock.end}
=============================================================================
