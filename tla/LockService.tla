---------------------------- MODULE LockService ----------------------------
(***************************************************************************)
(* Record locks passed through to a file of the host: an owner's request   *)
(* goes through getlk_shim or setlk_shim (session.rs), the runtime, and    *)
(* file_lock::getlk or file_lock::setlk, which the filesystem uses as its  *)
(* whole implementation, to fcntl() on the backing file, and the answer    *)
(* comes back the same way.                                                *)
(*                                                                         *)
(* The host's locks belong to processes, so all that the filesystem locks  *)
(* belongs to the one process that serves the mount ("daemon"), whichever  *)
(* owner asked: file_lock::setlk takes no owner.  Another process ("other")*)
(* locks the backing file directly.                                        *)
(***************************************************************************)
EXTENDS FileLock

Processes == {"daemon", "other"}

VARIABLES
  held,     \* held[p][b]: the kind of lock process p has on byte b of the file
  latest,   \* latest[b]: the kind that the last request granted for byte b asked for
  reply     \* the last getlk: its request and its answer

lockVars == <<held, latest, reply>>

NoLocks == [b \in Bytes |-> "Unlock"]

LockTypeOK ==
  /\ held \in [Processes -> [Bytes -> Kinds]]
  /\ latest \in [Bytes -> Kinds]

LockInit ==
  /\ held = [p \in Processes |-> NoLocks]
  /\ latest = NoLocks
  /\ reply = {}

-----------------------------------------------------------------------------
(* fcntl(2), of the host *)

Clash(k1, k2) == /\ k1 # "Unlock" /\ k2 # "Unlock"
                 /\ k1 = "Write" \/ k2 = "Write"

Blocked(p, f) ==
  \E q \in Processes \ {p} : \E b \in RawBytes(f) : Clash(KindOf(f.l_type), held[q][b])

Apply(locks, f) == [b \in Bytes |-> IF b \in RawBytes(f) THEN KindOf(f.l_type) ELSE locks[b]]

SetLock(p, f) == held' = [held EXCEPT ![p] = Apply(@, f)]

\* The locks F_GETLK may report: a whole range of another process that has a
\* byte in the way, by a process or by an open file description (pid -1).
Blocking(p, f) ==
  {g \in [l_type : {"F_RDLCK", "F_WRLCK"}, l_whence : {"SEEK_SET"}, l_start : Bytes,
          l_len : Bytes, l_pid : {-1, 1}] :
     \E q \in Processes \ {p} :
       /\ RawBytes(g) # {}
       /\ \A b \in RawBytes(g) : held[q][b] = KindOf(g.l_type)
       /\ \A b \in Bytes \ RawBytes(g) :
            b - 1 \in RawBytes(g) \/ b + 1 \in RawBytes(g) => held[q][b] # KindOf(g.l_type)
       /\ (OffMax \in RawBytes(g)) <=> (g.l_len = 0)
       /\ \E b \in RawBytes(g) \cap RawBytes(f) : Clash(KindOf(f.l_type), KindOf(g.l_type))}

-----------------------------------------------------------------------------
(* The daemon *)

\* What libfuse makes of a request: from the start, in the range of
\* off_t, and with length zero when it reaches the largest offset.
Requests ==
  {r \in [l_type : LockTypes, l_whence : {"SEEK_SET"}, l_start : Bytes, l_len : Bytes,
          l_pid : {1}] : r.l_len > 0 => r.l_start + r.l_len - 1 < OffMax}

\* What file_lock::setlk makes of a request, and whether the host grants it.
Asked(raw) == to_flock(lock_from_raw(raw).val)
Granted(raw) == /\ lock_from_raw(raw).err = "none"
                /\ Asked(raw).err = "none"
                /\ ~Blocked("daemon", Asked(raw).val)

\* F_SETLK fails where a lock is in the way (EAGAIN), F_SETLKW waits for it.
Setlk(raw, sleep) ==
  /\ \/ Granted(raw) /\ SetLock("daemon", Asked(raw).val) /\ latest' = Apply(latest, raw)
     \/ ~Granted(raw) /\ UNCHANGED <<held, latest>>
  /\ sleep => \/ Granted(raw)
              \/ lock_from_raw(raw).err # "none" \/ Asked(raw).err # "none"
  /\ reply' = {}

\* Without a lock in the way F_GETLK changes nothing but the type.
Getlk(raw) ==
  LET lock == lock_from_raw(raw)
      f == Asked(raw)
      found == Blocking("daemon", f.val)
      back(g) == LET l == from_flock(g) IN IF l.err = "none" THEN lock_to_raw(l.val) ELSE l
  IN /\ raw.l_type # "F_UNLCK"
     /\ IF lock.err # "none" THEN reply' = {[asked |-> raw, answer |-> lock]}
        ELSE IF f.err # "none" THEN reply' = {[asked |-> raw, answer |-> f]}
        ELSE \E g \in IF found = {} THEN {[f.val EXCEPT !.l_type = "F_UNLCK"]} ELSE found :
               reply' = {[asked |-> raw, answer |-> back(g)]}
     /\ UNCHANGED <<held, latest>>

\* The other process locks or unlocks the backing file.
HostSetlk(f) ==
  /\ ~Blocked("other", f)
  /\ SetLock("other", f)
  /\ reply' = {}
  /\ UNCHANGED latest

LockNext ==
  \/ \E raw \in Requests : \/ Getlk(raw)
                           \/ \E sleep \in BOOLEAN : Setlk(raw, sleep)
  \/ \E f \in Requests : HostSetlk(f)

LockSpec == LockInit /\ [][LockNext]_lockVars

-----------------------------------------------------------------------------
(* Properties *)

\* What setlk answered is what the host enforces, whoever the owners are:
\* the daemon has locked exactly the bytes, to the end of the file or not, and
\* in exactly the way, that the last request granted for each asked for,
\* through both conversions (file_lock::setlk).
LatestHeld == held["daemon"] = latest

\* The lock that was granted last never clashes with one of the other process.
LatestCompatible == \A b \in Bytes : ~Clash(latest[b], held["other"][b])

\* getlk's answer: an error never; F_UNLCK with the range that was asked for
\* if no byte of it is blocked; otherwise a lock that the other process has on
\* every byte of the range answered, and that clashes with the request.
GetlkExact ==
  \A r \in reply :
    LET asked == r.asked
        answer == r.answer.val
        blocked == {b \in RawBytes(asked) :
                      Clash(KindOf(asked.l_type), held["other"][b])}
    IN /\ r.answer.err = "none"
       /\ answer.l_pid >= 0
       /\ IF blocked = {}
            THEN answer.l_type = "F_UNLCK" /\ RawBytes(answer) = RawBytes(asked)
            ELSE /\ RawBytes(answer) \cap blocked # {}
                 /\ \A b \in RawBytes(answer) : held["other"][b] = KindOf(answer.l_type)

\* The answers, the daemon's locks and the host's agree byte for byte.
LocksAgree == LockTypeOK /\ LatestHeld /\ LatestCompatible
=============================================================================
