--------------------------- MODULE HostSideProofs ---------------------------
(***************************************************************************)
(* Proofs about what comes to and from the host: the lock conversions for  *)
(* integers of any width and what follows for getlk and setlk, extended    *)
(* attributes read in two calls, the helpers that change modes and owners, *)
(* and directories read in pages.                                          *)
(***************************************************************************)
EXTENDS LockOwners, XattrRead, HostPerms, DirListing, FiniteSetTheorems, TLAPS

\* The two translations of a lock's kind undo each other.
LEMMA KindNames ==
  /\ \A k \in Kinds : TypeOf(k) \in LockTypes /\ KindOf(TypeOf(k)) = k
  /\ \A t \in LockTypes : KindOf(t) \in Kinds /\ TypeOf(KindOf(t)) = t
BY DEF Kinds, LockTypes, TypeOf, KindOf

\* A FileLock that to_flock accepts comes back from from_flock unchanged: the
\* range, the end of the file and the pid survive the narrower flock.
THEOREM ToThenFrom ==
  ASSUME NEW l \in FileLocks, to_flock(l).err = "none"
  PROVE  from_flock(to_flock(l).val) = Ok(l)
<1> DEFINE len == IF l.end = UMax THEN 0 ELSE l.end - l.start + 1
           f == [l_type |-> TypeOf(l.kind), l_whence |-> "SEEK_SET",
                 l_start |-> l.start, l_len |-> len, l_pid |-> l.pid]
<1>1. /\ OffMax \in Nat /\ UMax = 2 * OffMax + 1 /\ PidMax \in Nat
      /\ l.start \in 0..UMax /\ l.end \in 0..UMax /\ l.pid \in Nat
      /\ l.kind \in Kinds
  BY WidthAssumption DEF FileLocks
<1>2. ~(l.end < l.start) /\ ~(l.start > OffMax \/ len > OffMax \/ l.pid > PidMax)
  BY DEF to_flock, Err, Ok
<1>3. to_flock(l) = Ok(f)
  BY <1>2 DEF to_flock
<1>4. to_flock(l).val = f
  BY <1>3 DEF Ok
<1>5. len \in Nat /\ (len = 0 <=> l.end = UMax) /\ (len # 0 => l.start + len - 1 = l.end)
  BY <1>1, <1>2
<1>6. TypeOf(l.kind) \in LockTypes /\ KindOf(TypeOf(l.kind)) = l.kind
  BY <1>1, KindNames
<1>7. from_flock(f) = Ok([kind |-> l.kind, start |-> l.start, end |-> l.end, pid |-> l.pid])
  <2>0. /\ f.l_type = TypeOf(l.kind) /\ f.l_whence = "SEEK_SET" /\ f.l_start = l.start
        /\ f.l_len = len /\ f.l_pid = l.pid
    OBVIOUS
  <2>1. (IF f.l_len = 0 THEN UMax ELSE f.l_start + f.l_len - 1) = l.end
    BY <1>5, <2>0
  <2>2. ~(f.l_start < 0) /\ ~(f.l_len < 0) /\ ~(f.l_pid < 0) /\ ~(l.end > UMax)
    BY <1>1, <1>5, <2>0
  <2> HIDE DEF f
  <2> QED BY <1>6, <2>0, <2>1, <2>2 DEF from_flock
<1>8. l = [kind |-> l.kind, start |-> l.start, end |-> l.end, pid |-> l.pid]
  BY DEF FileLocks
<1> QED BY <1>4, <1>7, <1>8

\* An flock that from_flock accepts comes back from to_flock unchanged, unless
\* its pid was negative.  In particular no finite range becomes the mark for
\* the end of the file, and no length overflows.
THEOREM FromThenTo ==
  ASSUME NEW f \in Flocks, from_flock(f).err = "none", f.l_pid >= 0
  PROVE  to_flock(from_flock(f).val) = Ok(f)
<1> DEFINE end == IF f.l_len = 0 THEN UMax ELSE f.l_start + f.l_len - 1
           l == [kind |-> KindOf(f.l_type), start |-> f.l_start, end |-> end,
                 pid |-> IF f.l_pid < 0 THEN 0 ELSE f.l_pid]
<1>1. /\ OffMax \in Nat /\ OffMax > 0 /\ UMax = 2 * OffMax + 1 /\ PidMax \in Nat
      /\ f.l_start \in Int /\ f.l_len \in Int /\ f.l_pid \in Int
      /\ f.l_start <= OffMax /\ f.l_len <= OffMax /\ f.l_pid <= PidMax
  BY WidthAssumption DEF Flocks
<1>2. /\ f.l_whence = "SEEK_SET" /\ ~(f.l_start < 0) /\ ~(f.l_len < 0)
      /\ f.l_type \in LockTypes /\ ~(end > UMax)
  BY DEF from_flock, Err, Ok
<1>3. from_flock(f) = Ok(l)
  BY <1>2 DEF from_flock
<1>4. from_flock(f).val = l
  BY <1>3 DEF Ok
<1>5. end \in Int /\ (end = UMax <=> f.l_len = 0)
      /\ (f.l_len # 0 => end - f.l_start + 1 = f.l_len)
      /\ ~(end < f.l_start)
  BY <1>1, <1>2
<1>6. TypeOf(KindOf(f.l_type)) = f.l_type
  BY <1>2, KindNames
<1>7. (IF l.end = UMax THEN 0 ELSE l.end - l.start + 1) = f.l_len
  BY <1>5
<1>8. ~(l.start > OffMax \/ f.l_len > OffMax \/ l.pid > PidMax) /\ l.pid = f.l_pid
  BY <1>1
<1>9. to_flock(l) = Ok([l_type |-> f.l_type, l_whence |-> "SEEK_SET", l_start |-> f.l_start,
                        l_len |-> f.l_len, l_pid |-> f.l_pid])
  BY <1>5, <1>6, <1>7, <1>8 DEF to_flock
<1>10. f = [l_type |-> f.l_type, l_whence |-> "SEEK_SET", l_start |-> f.l_start,
            l_len |-> f.l_len, l_pid |-> f.l_pid]
  BY <1>2 DEF Flocks
<1> QED BY <1>4, <1>9, <1>10

\* The two descriptions of a lock cover the same bytes of the file.
THEOREM SameBytes ==
  ASSUME NEW f \in Flocks, from_flock(f).err = "none"
  PROVE  LockBytes(from_flock(f).val) = RawBytes(f)
<1> DEFINE end == IF f.l_len = 0 THEN UMax ELSE f.l_start + f.l_len - 1
<1>1. /\ OffMax \in Nat /\ UMax = 2 * OffMax + 1
      /\ f.l_start \in Int /\ f.l_len \in Int
  BY WidthAssumption DEF Flocks
<1>2. /\ from_flock(f).val.start = f.l_start
      /\ from_flock(f).val.end = end
  BY DEF from_flock, Err, Ok
<1>3. \A b \in Bytes : b <= end <=> (f.l_len = 0 \/ b <= f.l_start + f.l_len - 1)
  BY <1>1 DEF Bytes
<1> QED BY <1>2, <1>3 DEF LockBytes, RawBytes

-----------------------------------------------------------------------------

\* Requests lose nothing on their way to fcntl().
LEMMA RequestExact ==
  ASSUME NEW raw \in Requests
  PROVE  /\ lock_from_raw(raw).err = "none"
         /\ to_flock(lock_from_raw(raw).val) = Ok(raw)
<1>1. /\ OffMax \in Nat /\ OffMax > 0 /\ PidMax \in Nat /\ PidMax > 0 /\ UMax = 2 * OffMax + 1
  BY WidthAssumption
<1>2. raw \in Flocks /\ raw.l_pid >= 0
  BY <1>1 DEF Requests, Flocks, Bytes
<1>3. from_flock(raw).err = "none"
  BY <1>1 DEF Requests, Bytes, from_flock, Ok, Err
<1> QED BY <1>2, <1>3, FromThenTo DEF lock_from_raw

\* fcntl(F_SETLK) leaves every byte with a kind of lock.
LEMMA ApplyType ==
  ASSUME NEW locks \in [Bytes -> Kinds], NEW f, f.l_type \in LockTypes
  PROVE  Apply(locks, f) \in [Bytes -> Kinds]
BY KindNames DEF Apply

\* A lock that is not blocked clashes with nothing the other process has.
LEMMA ApplyClash ==
  ASSUME NEW p \in Processes, NEW q \in Processes, p # q,
         NEW f, ~Blocked(p, f), LockTypeOK,
         \A b \in Bytes : ~Clash(held[p][b], held[q][b])
  PROVE  \A b \in Bytes : ~Clash(Apply(held[p], f)[b], held[q][b])
BY DEF Apply, Blocked, LockTypeOK

\* Whether two locks clash does not depend on which comes first.
LEMMA ClashSym == \A k1, k2 : Clash(k1, k2) <=> Clash(k2, k1)
BY DEF Clash

\* A request that is granted has the range and the kind it was made with.
LEMMA SetlkStep ==
  ASSUME LocksAgree, NEW raw \in Requests, NEW sleep, Setlk(raw, sleep)
  PROVE  \/ UNCHANGED <<held, latest>>
         \/ /\ ~Blocked("daemon", raw)
            /\ held' = [held EXCEPT !["daemon"] = Apply(held["daemon"], raw)]
            /\ latest' = Apply(latest, raw)
<1> DEFINE f == Asked(raw)
<1>1. lock_from_raw(raw).err = "none" /\ f = Ok(raw)
  BY RequestExact DEF Asked
<1> HIDE DEF f
<1>2. f.err = "none" /\ f.val = raw
  BY <1>1 DEF Ok
<1> USE DEF f
<1> QED BY <1>2 DEF Setlk, SetLock, Granted

\* Every request, granted or not, and every lock of the other process keep the
\* daemon's locks those that were granted last.
LEMMA LocksAgreeStep == LocksAgree /\ [LockNext]_lockVars => LocksAgree'
<1> SUFFICES ASSUME LocksAgree, [LockNext]_lockVars PROVE LocksAgree'
  OBVIOUS
<1> USE DEF LocksAgree, LatestHeld, LatestCompatible
<1>0. "daemon" \in Processes /\ "other" \in Processes
  BY DEF Processes
<1>1. CASE UNCHANGED <<held, latest>>
  BY <1>1 DEF LockTypeOK, Clash
<1>2. ASSUME NEW raw \in Requests, ~Blocked("daemon", raw),
             held' = [held EXCEPT !["daemon"] = Apply(held["daemon"], raw)],
             latest' = Apply(latest, raw)
      PROVE  LocksAgree'
  <2>1. Apply(held["daemon"], raw) \in [Bytes -> Kinds]
    BY <1>0, ApplyType DEF LockTypeOK, Requests
  <2>2. LockTypeOK' /\ held'["other"] = held["other"] /\ latest' = held'["daemon"]
        /\ held'["daemon"] = Apply(held["daemon"], raw)
    BY <1>0, <1>2, <2>1 DEF LockTypeOK
  <2>3. \A b \in Bytes : ~Clash(Apply(held["daemon"], raw)[b], held["other"][b])
    BY <1>0, <1>2, ApplyClash
  <2> QED BY <2>2, <2>3 DEF Clash
<1>3. ASSUME NEW f \in Requests, HostSetlk(f) PROVE LocksAgree'
  <2>1. held' = [held EXCEPT !["other"] = Apply(held["other"], f)] /\ latest' = latest
    BY <1>3 DEF HostSetlk, SetLock
  <2>2. Apply(held["other"], f) \in [Bytes -> Kinds]
    BY <1>0, ApplyType DEF LockTypeOK, Requests
  <2>3. LockTypeOK' /\ held'["daemon"] = held["daemon"]
        /\ held'["other"] = Apply(held["other"], f)
    BY <1>0, <2>1, <2>2 DEF LockTypeOK
  <2>4. \A b \in Bytes : ~Clash(held["other"][b], held["daemon"][b])
    BY ClashSym
  <2>5. \A b \in Bytes : ~Clash(Apply(held["other"], f)[b], held["daemon"][b])
    BY <1>0, <1>3, <2>4, ApplyClash DEF HostSetlk
  <2>6. \A b \in Bytes : ~Clash(held["daemon"][b], Apply(held["other"], f)[b])
    BY <2>5, ClashSym
  <2> QED BY <2>1, <2>3, <2>6 DEF Clash
<1> QED BY <1>1, <1>2, <1>3, SetlkStep DEF LockNext, lockVars, Getlk

LEMMA LocksAgreeBase == LockInit => LocksAgree
BY DEF LockInit, LocksAgree, LatestHeld, LatestCompatible, LockTypeOK, NoLocks, Clash, Kinds,
       Processes

\* For every width of the integers and every set of lock owners: the daemon has
\* locked exactly what the last request granted for each byte asked for, of
\* whichever owner, and that clashes with no lock of another process.  (What an
\* owner was told before is not safe from another owner of the mount:
\* OwnersExclude is violated.)
THEOREM LocksAgreeHolds == OwnersSpec => []LocksAgree
<1>1. OwnersInit => LocksAgree
  BY LocksAgreeBase DEF OwnersInit
<1>2. [OwnersNext]_ownerVars => [LockNext]_lockVars
  BY DEF OwnersNext, OwnerSetlk, ownerVars, lockVars, LockNext
<1> QED BY <1>1, <1>2, LocksAgreeStep, PTL DEF OwnersSpec

-----------------------------------------------------------------------------
(* getlk *)

\* The least element of a set of numbers.
LEMMA LeastNumber ==
  ASSUME NEW T \in SUBSET Nat, T # {}
  PROVE  \E x \in T : \A y \in T : x <= y
<1> DEFINE R == OpToRel(<, Nat)
<1>1. IsWellFoundedOn(R, Nat)
  BY NatLessThanWellFounded
<1>2. R = {ss \in Nat \X Nat : ss[1] < ss[2]}
  BY DEF OpToRel
<1> HIDE DEF R
<1>3. PICK x \in T : \A y \in T : ~(<<y, x>> \in R)
  BY <1>1, WFMin
<1>4. \A y \in T : ~(y < x)
  BY <1>2, <1>3
<1> QED BY <1>4

\* The greatest element of a set of numbers with a bound.
LEMMA GreatestNumber ==
  ASSUME NEW n \in Nat, NEW T \in SUBSET (0..n), T # {}
  PROVE  \E x \in T : \A y \in T : y <= x
<1> DEFINE D == {m \in Nat : n - m \in T}
<1>1. D \in SUBSET Nat /\ D # {}
  <2>1. PICK x : x \in T
    OBVIOUS
  <2>2. n - x \in Nat /\ n - (n - x) = x
    BY <2>1
  <2>3. n - x \in D
    BY <2>1, <2>2
  <2> QED BY <2>3
<1>2. PICK m \in D : \A k \in D : m <= k
  BY <1>1, LeastNumber
<1>3. \A y \in T : n - y \in D
  <2> TAKE y \in T
  <2>1. n - y \in Nat /\ n - (n - y) = y
    OBVIOUS
  <2> QED BY <2>1
<1>4. \A y \in T : y <= n - m
  BY <1>2, <1>3
<1> QED BY <1>2, <1>4

\* A byte with a lock is in a range with that kind of lock that cannot be
\* extended to either side.
LEMMA WholeRange ==
  ASSUME NEW locks \in [Bytes -> Kinds], NEW b \in Bytes
  PROVE  \E s, e \in Bytes :
           /\ s <= b /\ b <= e
           /\ \A x \in s..e : locks[x] = locks[b]
           /\ s > 0 => locks[s - 1] # locks[b]
           /\ e < OffMax => locks[e + 1] # locks[b]
<1> USE DEF Bytes
<1>0. OffMax \in Nat
  BY WidthAssumption
<1> DEFINE Down == {s \in 0..b : \A x \in s..b : locks[x] = locks[b]}
           Up == {e \in b..OffMax : \A x \in b..e : locks[x] = locks[b]}
<1>1. b \in Down /\ Down \in SUBSET Nat
  BY <1>0
<1>2. b \in Up /\ Up \in SUBSET (0..OffMax)
  BY <1>0
<1>3. PICK s \in Down : \A y \in Down : s <= y
  BY <1>1, LeastNumber
<1>4. PICK e \in Up : \A y \in Up : y <= e
  BY <1>0, <1>2, GreatestNumber
<1>5. \A x \in s..e : locks[x] = locks[b]
  BY <1>0, <1>3, <1>4
<1>6. ASSUME s > 0 PROVE locks[s - 1] # locks[b]
  <2> SUFFICES ASSUME locks[s - 1] = locks[b] PROVE FALSE
    OBVIOUS
  <2>1. s - 1 \in 0..b /\ \A x \in (s - 1)..b : x = s - 1 \/ x \in s..b
    BY <1>0, <1>3, <1>6
  <2>2. s - 1 \in Down
    BY <2>1
  <2> QED BY <1>3, <2>2
<1>7. ASSUME e < OffMax PROVE locks[e + 1] # locks[b]
  <2> SUFFICES ASSUME locks[e + 1] = locks[b] PROVE FALSE
    OBVIOUS
  <2>1. e + 1 \in b..OffMax /\ \A x \in b..(e + 1) : x = e + 1 \/ x \in b..e
    BY <1>0, <1>4, <1>7
  <2>2. e + 1 \in Up
    BY <2>1
  <2> QED BY <1>4, <2>2
<1>8. s \in Bytes /\ e \in Bytes /\ s <= b /\ b <= e
  BY <1>0, <1>3, <1>4
<1> QED BY <1>5, <1>6, <1>7, <1>8

\* fcntl(F_GETLK) finds a lock where a byte of the range is taken.
LEMMA BlockingFound ==
  ASSUME LockTypeOK, NEW f, NEW b \in RawBytes(f), Clash(KindOf(f.l_type), held["other"][b])
  PROVE  Blocking("daemon", f) # {}
<1> USE DEF Bytes
<1>0. OffMax \in Nat /\ OffMax > 0 /\ b \in Bytes /\ held["other"] \in [Bytes -> Kinds]
  BY WidthAssumption DEF RawBytes, LockTypeOK, Processes
<1> DEFINE locks == held["other"]
<1>1. PICK s, e \in Bytes :
        /\ s <= b /\ b <= e
        /\ \A x \in s..e : locks[x] = locks[b]
        /\ s > 0 => locks[s - 1] # locks[b]
        /\ e < OffMax => locks[e + 1] # locks[b]
  BY <1>0, WholeRange
<1> DEFINE len == IF e = OffMax THEN 0 ELSE e - s + 1
           g == [l_type |-> TypeOf(locks[b]), l_whence |-> "SEEK_SET", l_start |-> s,
                 l_len |-> len, l_pid |-> 1]
<1>2. len \in Bytes /\ (len = 0 <=> e = OffMax) /\ (len # 0 => s + len - 1 = e)
  BY <1>0, <1>1
<1>3. locks[b] \in {"Read", "Write"}
  BY <1>0 DEF Clash, Kinds
<1>4. TypeOf(locks[b]) \in {"F_RDLCK", "F_WRLCK"} /\ KindOf(TypeOf(locks[b])) = locks[b]
  BY <1>3 DEF TypeOf, KindOf
<1>5. g \in [l_type : {"F_RDLCK", "F_WRLCK"}, l_whence : {"SEEK_SET"}, l_start : Bytes,
             l_len : Bytes, l_pid : {-1, 1}]
  <2> HIDE DEF len
  <2> QED BY <1>1, <1>2, <1>4
<1>6. g.l_start = s /\ g.l_len = len /\ g.l_type = TypeOf(locks[b])
  OBVIOUS
<1> HIDE DEF g, len
<1>7. RawBytes(g) = s..e
  BY <1>0, <1>1, <1>2, <1>6 DEF RawBytes
<1>8. b \in RawBytes(g)
  BY <1>0, <1>1, <1>7
<1>9. \A x \in RawBytes(g) : held["other"][x] = KindOf(g.l_type)
  BY <1>1, <1>4, <1>6, <1>7
<1>10. ASSUME NEW x \in Bytes \ RawBytes(g), x - 1 \in RawBytes(g) \/ x + 1 \in RawBytes(g)
       PROVE  held["other"][x] # KindOf(g.l_type)
  <2>1. (x = s - 1 /\ s > 0) \/ (x = e + 1 /\ e < OffMax)
    BY <1>0, <1>1, <1>7, <1>10
  <2> QED BY <1>1, <1>4, <1>6, <2>1
<1>11. (OffMax \in RawBytes(g)) <=> (g.l_len = 0)
  BY <1>0, <1>1, <1>2, <1>6, <1>7
<1>12. Clash(KindOf(f.l_type), KindOf(g.l_type))
  BY <1>4, <1>6
<1>13. "other" \in Processes \ {"daemon"}
  BY DEF Processes
<1>14. g \in Blocking("daemon", f)
  BY <1>5, <1>8, <1>9, <1>10, <1>11, <1>12, <1>13 DEF Blocking
<1> QED BY <1>14

\* The way back of an answer: a lock that F_GETLK reports comes to the
\* caller as it was, but for the pid of an open file description lock.
LEMMA AnswerExact ==
  ASSUME NEW g, g \in [l_type : LockTypes, l_whence : {"SEEK_SET"}, l_start : Bytes,
                       l_len : Bytes, l_pid : {-1, 1}],
         g.l_len # 0 => g.l_start + g.l_len - 1 < OffMax
  PROVE  /\ from_flock(g).err = "none"
         /\ lock_to_raw(from_flock(g).val).err = "none"
         /\ lock_to_raw(from_flock(g).val).val =
              [g EXCEPT !.l_pid = IF g.l_pid < 0 THEN 0 ELSE g.l_pid]
<1>0. /\ OffMax \in Nat /\ OffMax > 0 /\ PidMax \in Nat /\ PidMax > 0 /\ UMax = 2 * OffMax + 1
  BY WidthAssumption
<1> DEFINE pid == IF g.l_pid < 0 THEN 0 ELSE g.l_pid
           h == [g EXCEPT !.l_pid = pid]
<1>1. /\ h.l_type = g.l_type /\ h.l_whence = g.l_whence /\ h.l_start = g.l_start
      /\ h.l_len = g.l_len /\ h.l_pid = pid /\ pid \in {0, 1}
      /\ g.l_type \in LockTypes /\ g.l_whence = "SEEK_SET" /\ g.l_start \in 0..OffMax
      /\ g.l_len \in 0..OffMax
  BY DEF Bytes
<1>2. h \in Flocks
  <2>1. h = [l_type |-> g.l_type, l_whence |-> "SEEK_SET", l_start |-> g.l_start,
             l_len |-> g.l_len, l_pid |-> pid]
    BY <1>1
  <2> HIDE DEF h, pid
  <2> QED BY <1>0, <1>1, <2>1 DEF Flocks
<1>3. from_flock(h) = from_flock(g)
  BY <1>1 DEF from_flock
<1>4. from_flock(h).err = "none"
  <2> HIDE DEF h, pid
  <2> QED BY <1>0, <1>1 DEF from_flock, Ok
<1>5. to_flock(from_flock(h).val) = Ok(h)
  <2> HIDE DEF h
  <2>1. h.l_pid >= 0
    BY <1>1
  <2> QED BY <1>2, <1>4, <2>1, FromThenTo
<1> HIDE DEF h
<1>6. to_flock(from_flock(g).val).err = "none" /\ to_flock(from_flock(g).val).val = h
  BY <1>3, <1>5 DEF Ok
<1> QED BY <1>3, <1>4, <1>6 DEF lock_to_raw, h

\* F_GETLK reports whole ranges, so the length of what it reports ends before
\* the last offset or is zero.
LEMMA BlockingShape ==
  ASSUME NEW f, NEW g \in Blocking("daemon", f)
  PROVE  /\ g \in [l_type : LockTypes, l_whence : {"SEEK_SET"}, l_start : Bytes,
                   l_len : Bytes, l_pid : {-1, 1}]
         /\ g.l_len # 0 => g.l_start + g.l_len - 1 < OffMax
         /\ \A b \in RawBytes(g) : held["other"][b] = KindOf(g.l_type)
         /\ \E b \in RawBytes(g) \cap RawBytes(f) : Clash(KindOf(f.l_type), held["other"][b])
<1>1. OffMax \in Nat
  BY WidthAssumption
<1>2. g \in [l_type : {"F_RDLCK", "F_WRLCK"}, l_whence : {"SEEK_SET"}, l_start : Bytes,
             l_len : Bytes, l_pid : {-1, 1}]
  BY DEF Blocking
<1>3. PICK q \in Processes \ {"daemon"} :
        /\ \A b \in RawBytes(g) : held[q][b] = KindOf(g.l_type)
        /\ (OffMax \in RawBytes(g)) <=> (g.l_len = 0)
        /\ \E b \in RawBytes(g) \cap RawBytes(f) : Clash(KindOf(f.l_type), KindOf(g.l_type))
  BY DEF Blocking
<1>4. q = "other"
  BY DEF Processes
<1>5. g \in [l_type : LockTypes, l_whence : {"SEEK_SET"}, l_start : Bytes,
             l_len : Bytes, l_pid : {-1, 1}]
  BY <1>2 DEF LockTypes
<1>6. g.l_start \in 0..OffMax /\ g.l_len \in 0..OffMax
  BY <1>2 DEF Bytes
<1>7. ASSUME g.l_len # 0 PROVE g.l_start + g.l_len - 1 < OffMax
  <2>1. OffMax \notin RawBytes(g)
    BY <1>3, <1>7
  <2> QED BY <1>1, <1>6, <1>7, <2>1 DEF RawBytes, Bytes
<1> QED BY <1>3, <1>4, <1>5, <1>7

\* What getlk answers to a request that nothing blocks, and to one that is
\* blocked.
LEMMA GetlkAnswers ==
  ASSUME LockTypeOK, NEW raw \in Requests, Getlk(raw)
  PROVE  GetlkExact'
<1> DEFINE fl == to_flock(lock_from_raw(raw).val)
           found == Blocking("daemon", raw)
           none == [raw EXCEPT !.l_type = "F_UNLCK"]
           back(g) == LET l == from_flock(g) IN IF l.err = "none" THEN lock_to_raw(l.val) ELSE l
           blocked == {b \in RawBytes(raw) : Clash(KindOf(raw.l_type), held["other"][b])}
<1>0. OffMax \in Nat
  BY WidthAssumption
<1>1. lock_from_raw(raw).err = "none" /\ fl.err = "none" /\ fl.val = raw
  <2>1. lock_from_raw(raw).err = "none" /\ fl = Ok(raw)
    BY RequestExact
  <2> HIDE DEF fl
  <2> QED BY <2>1 DEF Ok
<1>2. PICK g \in IF found = {} THEN {none} ELSE found : reply' = {[asked |-> raw, answer |-> back(g)]}
  BY <1>1 DEF Getlk, Asked
<1>3. held' = held
  BY DEF Getlk
<1> HIDE DEF found
<1>4. /\ raw \in [l_type : LockTypes, l_whence : {"SEEK_SET"}, l_start : Bytes, l_len : Bytes,
                  l_pid : {1}]
      /\ raw.l_len # 0 => raw.l_start + raw.l_len - 1 < OffMax
  BY <1>0 DEF Requests, Bytes
<1>5. ASSUME NEW h, h \in [l_type : LockTypes, l_whence : {"SEEK_SET"}, l_start : Bytes,
                           l_len : Bytes, l_pid : {-1, 1}],
             h.l_len # 0 => h.l_start + h.l_len - 1 < OffMax
      PROVE  /\ back(h).err = "none" /\ back(h).val.l_pid >= 0
             /\ back(h).val.l_type = h.l_type /\ RawBytes(back(h).val) = RawBytes(h)
  <2> DEFINE pid == IF h.l_pid < 0 THEN 0 ELSE h.l_pid
             k == [h EXCEPT !.l_pid = pid]
  <2>1. back(h).err = "none" /\ back(h).val = k
    BY <1>5, AnswerExact
  <2>2. k.l_pid = pid /\ pid >= 0 /\ k.l_type = h.l_type /\ k.l_start = h.l_start /\ k.l_len = h.l_len
    BY <1>5
  <2>3. RawBytes(k) = RawBytes(h)
    BY <2>2 DEF RawBytes
  <2> HIDE DEF k, back
  <2> QED BY <2>1, <2>2, <2>3
<1> HIDE DEF back
<1>6. CASE found = {}
  <2>1. g = none
    BY <1>2, <1>6
  <2>2. /\ none \in [l_type : LockTypes, l_whence : {"SEEK_SET"}, l_start : Bytes,
                     l_len : Bytes, l_pid : {-1, 1}]
        /\ none.l_type = "F_UNLCK" /\ none.l_start = raw.l_start /\ none.l_len = raw.l_len
    BY <1>4 DEF LockTypes
  <2>3. RawBytes(none) = RawBytes(raw)
    BY <2>2 DEF RawBytes
  <2>4. /\ back(g).err = "none" /\ back(g).val.l_pid >= 0
        /\ back(g).val.l_type = "F_UNLCK" /\ RawBytes(back(g).val) = RawBytes(raw)
    BY <1>4, <1>5, <2>1, <2>2, <2>3
  <2>5. blocked = {}
    BY <1>6, BlockingFound DEF found
  <2> QED BY <1>2, <1>3, <2>4, <2>5 DEF GetlkExact
<1>7. CASE found # {}
  <2>1. g \in Blocking("daemon", raw)
    BY <1>2, <1>7 DEF found
  <2>2. /\ \A b \in RawBytes(g) : held["other"][b] = KindOf(g.l_type)
        /\ \E b \in RawBytes(g) \cap RawBytes(raw) : Clash(KindOf(raw.l_type), held["other"][b])
    BY <2>1, BlockingShape
  <2>3. /\ back(g).err = "none" /\ back(g).val.l_pid >= 0
        /\ back(g).val.l_type = g.l_type /\ RawBytes(back(g).val) = RawBytes(g)
    BY <1>5, <2>1, BlockingShape
  <2>4. RawBytes(g) \cap blocked # {}
    BY <2>2
  <2> QED BY <1>2, <1>3, <2>2, <2>3, <2>4 DEF GetlkExact
<1> QED BY <1>6, <1>7

\* For every width of the integers and every lock: getlk never fails, answers
\* a request nothing blocks with the range that was asked for, and another one
\* with a lock that is there on every byte of the range answered.
THEOREM GetlkExactHolds == LockSpec => []GetlkExact
<1> DEFINE Inv == LocksAgree /\ GetlkExact
<1>1. LockInit => Inv
  BY LocksAgreeBase DEF LockInit, GetlkExact
<1>2. Inv /\ [LockNext]_lockVars => Inv'
  <2> SUFFICES ASSUME Inv, [LockNext]_lockVars PROVE Inv'
    OBVIOUS
  <2>1. LocksAgree'
    BY LocksAgreeStep
  <2>2. GetlkExact'
    <3>1. ASSUME NEW raw \in Requests, Getlk(raw) PROVE GetlkExact'
      BY <3>1, GetlkAnswers DEF LocksAgree
    <3>2. CASE reply' = {}
      BY <3>2 DEF GetlkExact
    <3>3. CASE UNCHANGED lockVars
      BY <3>3 DEF GetlkExact, lockVars
    <3> QED BY <3>1, <3>2, <3>3 DEF LockNext, Setlk, HostSetlk
  <2> QED BY <2>1, <2>2
<1> QED BY <1>1, <1>2, PTL DEF LockSpec

-----------------------------------------------------------------------------
(* Modes and owners: HostPerms *)

\* A node the daemon creates is its own, and the other node is as it was.
LEMMA MadeOwn ==
  ASSUME PermTypeOK, NEW n \in Nodes
  PROVE  /\ Made(n) \in [Nodes -> [uid : Ids, gid : Ids, writers : Writers]]
         /\ Made(n)[n].uid = Daemon /\ Made(n)[n].gid = Daemon
         /\ \A m \in Nodes \ {n} : Made(n)[m] = host[m]
<1> DEFINE old == host[n]
           own == [old EXCEPT !.uid = Daemon, !.gid = Daemon]
<1>1. host \in [Nodes -> [uid : Ids, gid : Ids, writers : Writers]] /\ Daemon \in Ids
  BY DEF PermTypeOK, Daemon, Ids
<1>2. old \in [uid : Ids, gid : Ids, writers : Writers]
  BY <1>1
<1>3. Made(n) = [host EXCEPT ![n] = own]
  BY DEF Made
<1> HIDE DEF old
<1>4. own \in [uid : Ids, gid : Ids, writers : Writers] /\ own.uid = Daemon /\ own.gid = Daemon
  BY <1>1, <1>2
<1> HIDE DEF own
<1> QED BY <1>1, <1>3, <1>4

\* Each helper leaves the file and the link with ids and modes, and records
\* what it was called with.
LEMMA PermTypeStep == PermTypeOK /\ [PermNext]_permVars => PermTypeOK'
<1> SUFFICES ASSUME PermTypeOK, [PermNext]_permVars PROVE PermTypeOK'
  OBVIOUS
<1> USE DEF PermTypeOK, Changed, Nodes, Daemon, Ids
<1>1. ASSUME NEW n \in Nodes, NEW w \in Writers, chmod_path(n, w) PROVE PermTypeOK'
  BY <1>1 DEF chmod_path
<1>2. ASSUME NEW n \in Nodes, NEW u \in OptionalIds, NEW g \in OptionalIds, chown_path(n, u, g)
      PROVE  PermTypeOK'
  <2>1. \A id \in OptionalIds, old \in Ids : IdOr(id, old) \in Ids
    BY DEF OptionalIds, kSubset, IdOr
  <2>2. CASE root
    BY <1>2, <2>1, <2>2 DEF chown_path
  <2>3. CASE ~root
    BY <1>2, <2>3 DEF chown_path
  <2> QED BY <2>2, <2>3
<1>3. ASSUME NEW n \in Nodes, NEW u \in Ids, NEW g \in Ids, NEW err, Give(n, u, g, err)
      PROVE  PermTypeOK'
  <2> DEFINE skip == u = Daemon /\ g = Daemon
             Recs == [uid : Ids, gid : Ids, writers : Writers]
             made == Made(n)
             given == [made["file"] EXCEPT !.uid = u, !.gid = g]
             touched == {m \in Nodes : host'[m] # host[m]}
  <2>2. made \in [Nodes -> Recs]
    BY MadeOwn
  <2>3. host' = made \/ host' = [made EXCEPT !["file"] = given]
    BY <1>3 DEF Give
  <2>4. given \in Recs
    <3> HIDE DEF made
    <3> QED BY <2>2
  <2>5. host' \in [Nodes -> Recs] /\ root' \in BOOLEAN
    <3>1. root' \in BOOLEAN
      BY <1>3 DEF Give
    <3> HIDE DEF made, given
    <3> QED BY <2>2, <2>3, <2>4, <3>1
  <2>6. change' = [op |-> "ownership", path |-> n, uid |-> u, gid |-> g,
                   err |-> ~skip /\ err = "EIO", touched |-> touched]
    BY <1>3, Zenon DEF Give
  <2>7. change' \in [op : {"none", "chmod", "chown", "ownership"}, path : Nodes,
                     uid : Ids, gid : Ids, err : BOOLEAN, touched : SUBSET Nodes]
    <3>1. touched \in SUBSET Nodes /\ (~skip /\ err = "EIO") \in BOOLEAN
      OBVIOUS
    <3> HIDE DEF touched
    <3> QED BY <2>6, <3>1
  <2> QED BY <2>5, <2>7
<1>4. ASSUME NEW u \in Ids, NEW g \in Ids, NEW set, CheckTimes(u, g, set) PROVE PermTypeOK'
  BY <1>4 DEF CheckTimes, NoChange
<1>5. CASE UNCHANGED permVars
  BY <1>5 DEF permVars
<1> QED BY <1>1, <1>2, <1>3, <1>4, <1>5 DEF PermNext, set_ownership_fd, set_ownership_path

\* The one system call of Give sets both ids or none.
LEMMA GiveWhole ==
  ASSUME PermTypeOK, NEW n \in Nodes, NEW u \in Ids, NEW g \in Ids, NEW err \in Outcomes,
         Give(n, u, g, err)
  PROVE  OwnerWhole'
<1> DEFINE skip == u = Daemon /\ g = Daemon
           made == Made(n)
           touched == {m \in Nodes : host'[m] # host[m]}
<1>1. "file" \in Nodes /\ "link" \in Nodes /\ n \in {"file", "link"} /\ Daemon = 1
  BY DEF Nodes, Daemon
<1>2. /\ made \in [Nodes -> [uid : Ids, gid : Ids, writers : Writers]]
      /\ made[n].uid = Daemon /\ made[n].gid = Daemon
      /\ \A m \in Nodes \ {n} : made[m] = host[m]
  BY MadeOwn
<1>3. change'.op = "ownership" /\ change'.path = n /\ change'.uid = u /\ change'.gid = g
  BY DEF Give, Changed
<1>4. change'.touched = touched
  BY Zenon DEF Give, Changed
<1>5. change'.err = (~skip /\ err = "EIO")
  BY Zenon DEF Give, Changed
<1>6. root' = root
  BY DEF Give, Changed
<1>7. CASE skip \/ err # "none"
  <2>1. host' = made
    BY <1>7 DEF Give
  <2>2. n = "link" => "file" \notin touched
    BY <1>1, <1>2, <2>1
  <2>3. change'.err \/ skip \/ ~root
    BY <1>5, <1>7 DEF Outcomes
  <2> HIDE DEF made, touched
  <2> QED BY <1>1, <1>2, <1>3, <1>4, <1>6, <2>1, <2>2, <2>3 DEF OwnerWhole
<1>8. CASE ~skip /\ err = "none"
  <2>1. host' = [made EXCEPT !["file"] = [made["file"] EXCEPT !.uid = u, !.gid = g]]
    BY <1>8 DEF Give
  <2> HIDE DEF made, touched
  <2>2. made["file"] \in [uid : Ids, gid : Ids, writers : Writers]
    BY <1>1, <1>2
  <2>3. host'["file"].uid = u /\ host'["file"].gid = g
    BY <1>1, <1>2, <2>1, <2>2
  <2>4. host'["link"] = made["link"]
    BY <1>1, <1>2, <2>1
  <2> QED BY <1>1, <1>2, <1>3, <2>3, <2>4 DEF OwnerWhole
<1> QED BY <1>7, <1>8

\* Whatever the helpers were called with before: a new file belongs to its
\* caller as a whole or to the daemon as a whole, a new symbolic link to the
\* daemon, and times are set only for who may set them.
THEOREM PermsRightHolds == PermSpec => []PermsRight
<1>1. PermInit => PermsRight
  BY DEF PermInit, PermsRight, PermTypeOK, OwnerWhole, ExplicitByOwner, NoChange, Nodes, Ids,
         Daemon, Writers
<1>2. PermsRight /\ [PermNext]_permVars => PermsRight'
  <2> SUFFICES ASSUME PermsRight, [PermNext]_permVars PROVE PermsRight'
    OBVIOUS
  <2>0. PermTypeOK /\ PermTypeOK'
    BY PermTypeStep DEF PermsRight
  <2>1. OwnerWhole'
    <3>1. ASSUME NEW n \in Nodes, NEW u \in Ids, NEW g \in Ids, NEW err \in Outcomes,
                 Give(n, u, g, err)
          PROVE  OwnerWhole'
      BY <2>0, <3>1, GiveWhole
    <3>2. CASE change'.op # "ownership"
      BY <3>2 DEF OwnerWhole
    <3>3. CASE UNCHANGED permVars
      BY <3>3 DEF PermsRight, OwnerWhole, permVars
    <3>4. ASSUME NEW n, NEW w, chmod_path(n, w) PROVE change'.op = "chmod"
      BY <3>4 DEF chmod_path, Changed
    <3>5. ASSUME NEW n, NEW u, NEW g, chown_path(n, u, g) PROVE change'.op = "chown"
      BY <3>5 DEF chown_path, Changed
    <3>6. ASSUME NEW u, NEW g, NEW set, CheckTimes(u, g, set) PROVE change'.op = "none"
      BY <3>6 DEF CheckTimes, NoChange
    <3> QED
      BY <3>1, <3>2, <3>3, <3>4, <3>5, <3>6
      DEF PermNext, set_ownership_fd, set_ownership_path, Nodes
  <2>2. ExplicitByOwner'
    <3>1. ASSUME NEW u \in Ids, NEW g \in Ids, NEW set \in SUBSET {"now", "explicit"},
                 CheckTimes(u, g, set)
          PROVE  ExplicitByOwner'
      <4> DEFINE allowed == utimens_permission_check(u, g, host["file"], set)
      <4>1. times' = {[uid |-> u, file |-> host["file"], set |-> set, allowed |-> allowed]}
        BY <3>1 DEF CheckTimes
      <4>2. allowed /\ u # 0 /\ u # host["file"].uid /\ set # {} =>
              set = {"now"} /\ host["file"].writers # {}
        BY DEF utimens_permission_check, MayWrite
      <4> HIDE DEF allowed
      <4>3. ASSUME NEW t \in times'
            PROVE  t.uid = u /\ t.file = host["file"] /\ t.set = set /\ t.allowed = allowed
        <5>1. t = [uid |-> u, file |-> host["file"], set |-> set, allowed |-> allowed]
          BY <4>1, <4>3
        <5>2. t.uid = u /\ t.file = host["file"] /\ t.set = set
          BY <5>1
        <5>3. t.allowed = allowed
          BY <5>1, Zenon
        <5> QED BY <5>2, <5>3
      <4> QED BY <4>2, <4>3, Zenon DEF ExplicitByOwner
    <3>2. CASE times' = {}
      BY <3>2 DEF ExplicitByOwner
    <3>3. CASE UNCHANGED permVars
      BY <3>3 DEF PermsRight, ExplicitByOwner, permVars
    <3> QED
      BY <3>1, <3>2, <3>3
      DEF PermNext, set_ownership_fd, set_ownership_path, Give, chmod_path, chown_path, Changed
  <2> QED BY <2>0, <2>1, <2>2 DEF PermsRight
<1> QED BY <1>1, <1>2, PTL DEF PermSpec

-----------------------------------------------------------------------------
(* Extended attributes read in two calls: XattrRead *)

Stored == {Absent} \cup Values
Errors == {"none", "ENODATA", "ERANGE"}

\* Between its two calls a reader has a size that some value it may answer has,
\* and among those values is the one the attribute has now.
CallInv(c) ==
  call[c] # NoCall =>
    /\ value \in call[c].values /\ IsFiniteSet(call[c].values)
    /\ \E v \in call[c].values : v \in Values /\ Length(v) = call[c].size

XattrInv ==
  /\ value \in Stored
  /\ call \in [Callers -> [size : 0..MaxLen, values : SUBSET Stored]]
  /\ got \in [Callers -> [err : Errors, val : Values, values : SUBSET Stored]]
  /\ \A c \in Callers : CallInv(c)
  /\ ReadAtomic /\ ReadErrorTrue

\* A value is a text with its length, or empty, and never the mark of absence.
LEMMA ValueShape ==
  /\ \A v \in Values : Length(v) \in 0..MaxLen /\ v = Prefix(v[1], Length(v)) /\ v # Absent
  /\ \A v \in Values : Length(v) = 0 => v = Prefix("", 0)
  /\ \A t : Prefix(t, 0) = Prefix("", 0)
  /\ Prefix("", 0) \in Values
BY LenAssumption DEF Values, Prefix, Length, Absent

\* A finite set with two members is larger than one.
LEMMA TwoMembers ==
  ASSUME NEW S, IsFiniteSet(S), NEW a \in S, NEW b \in S, a # b
  PROVE  Cardinality(S) > 1
<1>1. IsFiniteSet({a}) /\ Cardinality({a}) = 1
  BY FS_Singleton
<1>2. {a} \in SUBSET S /\ {a} # S
  OBVIOUS
<1>3. Cardinality({a}) <= Cardinality(S) /\ Cardinality(S) # Cardinality({a})
  BY <1>2, FS_Subset
<1>4. Cardinality(S) \in Nat
  BY FS_CardinalityType
<1> QED BY <1>1, <1>3, <1>4

\* A write, or a removal: those who are reading may answer one more value.
LEMMA StoreKeeps ==
  ASSUME XattrInv, NEW v \in Stored, Store(v)
  PROVE  XattrInv'
<1> USE DEF XattrInv
<1>1. /\ value' = v /\ got' = got
      /\ call' = [c \in Callers |-> IF call[c] = NoCall THEN NoCall
                                    ELSE [call[c] EXCEPT !.values = @ \cup {v}]]
  BY DEF Store
<1>2. NoCall \in [size : 0..MaxLen, values : SUBSET Stored]
  BY LenAssumption DEF NoCall
<1>3. ASSUME NEW c \in Callers, call[c] # NoCall
      PROVE  /\ call'[c] \in [size : 0..MaxLen, values : SUBSET Stored]
             /\ call'[c].size = call[c].size /\ call'[c].values = call[c].values \cup {v}
  BY <1>1, <1>3
<1>4. call' \in [Callers -> [size : 0..MaxLen, values : SUBSET Stored]]
  BY <1>1, <1>2, <1>3
<1>5. ASSUME NEW c \in Callers, call'[c] # NoCall PROVE CallInv(c)'
  <2>1. call[c] # NoCall
    BY <1>1, <1>5
  <2>2. IsFiniteSet(call[c].values \cup {v})
    BY <2>1, FS_AddElement DEF CallInv
  <2> QED BY <1>1, <1>3, <2>1, <2>2 DEF CallInv
<1>6. \A c \in Callers : CallInv(c)'
  BY <1>5 DEF CallInv
<1> QED BY <1>1, <1>4, <1>6 DEF ReadAtomic, ReadErrorTrue

\* The probe either fails at once, or has the size of the value there is.
LEMMA ProbeKeeps ==
  ASSUME XattrInv, NEW c \in Callers, Probe(c)
  PROVE  XattrInv'
<1> USE DEF XattrInv
<1>1. CASE value = Absent
  <2>1. /\ UNCHANGED <<value, call>>
        /\ got' = [got EXCEPT ![c] = [err |-> "ENODATA", val |-> Prefix("", 0), values |-> {value}]]
    BY <1>1 DEF Probe, getxattr_nofollow
  <2>2. got' \in [Callers -> [err : Errors, val : Values, values : SUBSET Stored]]
    BY <2>1, ValueShape DEF Errors
  <2> QED BY <1>1, <2>1, <2>2 DEF CallInv, ReadAtomic, ReadErrorTrue
<1>2. CASE value # Absent
  <2>1. /\ UNCHANGED <<value, got>>
        /\ call' = [call EXCEPT ![c] = [size |-> Length(value), values |-> {value}]]
    BY <1>2 DEF Probe, getxattr_nofollow
  <2>2. value \in Values /\ Length(value) \in 0..MaxLen /\ IsFiniteSet({value})
    BY <1>2, ValueShape, FS_Singleton DEF Stored
  <2>3. call' \in [Callers -> [size : 0..MaxLen, values : SUBSET Stored]]
    BY <2>1, <2>2
  <2>4. \A d \in Callers : CallInv(d)'
    BY <2>1, <2>2 DEF CallInv
  <2> QED BY <2>1, <2>3, <2>4 DEF ReadAtomic, ReadErrorTrue
<1> QED BY <1>1, <1>2

\* The second call: what it reads is whole, or it fails for a reason.
LEMMA FetchKeeps ==
  ASSUME XattrInv, NEW c \in Callers, Fetch(c)
  PROVE  XattrInv'
<1> USE DEF XattrInv
<1> DEFINE size == call[c].size
           err == getxattr_nofollow(size)
           val == IF err = "none" THEN Fetched(size) ELSE Prefix("", 0)
<1>1. /\ value' = value /\ call' = [call EXCEPT ![c] = NoCall] /\ call[c] # NoCall
      /\ got' = [got EXCEPT ![c] = [err |-> err, values |-> call[c].values, val |-> val]]
  BY DEF Fetch
<1>2. /\ value \in call[c].values /\ IsFiniteSet(call[c].values)
      /\ size \in 0..MaxLen /\ call[c].values \in SUBSET Stored
  BY <1>1 DEF CallInv
<1>3. PICK v \in call[c].values : v \in Values /\ Length(v) = size
  BY <1>1 DEF CallInv
<1>4. err = "none" => value \in Values /\ (size = 0 \/ Length(value) <= size)
  <2> SUFFICES ASSUME err = "none" PROVE value \in Values /\ (size = 0 \/ Length(value) <= size)
    OBVIOUS
  <2>1. value # Absent /\ ~(size > 0 /\ Length(value) > size)
    BY DEF getxattr_nofollow
  <2>2. value \in Values /\ Length(value) \in 0..MaxLen
    BY <1>2, <2>1, ValueShape DEF Stored
  <2> QED BY <1>2, <2>1, <2>2, LenAssumption
<1>5. err = "none" => val \in call[c].values /\ val \in Values
  <2> SUFFICES ASSUME err = "none" PROVE val \in call[c].values /\ val \in Values
    OBVIOUS
  <2>1. value \in Values /\ Length(value) \in 0..MaxLen /\ value = Prefix(value[1], Length(value))
    BY <1>4, ValueShape
  <2>2. CASE size = 0
    <3>1. val = Prefix("", 0)
      <4>1. val = Prefix(value[1], 0)
        BY <2>1, <2>2 DEF Fetched
      <4> QED BY <4>1, ValueShape
    <3>2. v = Prefix("", 0)
      BY <1>3, <2>2, ValueShape
    <3> QED BY <1>3, <3>1, <3>2
  <2>3. CASE size # 0
    <3>1. val = Prefix(value[1], Length(value))
      <4>1. Length(value) <= size
        BY <1>4, <2>3
      <4>2. (IF Length(value) < size THEN Length(value) ELSE size) = Length(value)
        <5>1. \A a, b \in Int : a <= b => (IF a < b THEN a ELSE b) = a
          OBVIOUS
        <5>2. Length(value) \in Int /\ size \in Int
          BY <1>2, <2>1, LenAssumption
        <5> HIDE DEF size
        <5> QED BY <4>1, <5>1, <5>2
      <4> QED BY <4>2 DEF Fetched
    <3> QED BY <1>2, <2>1, <3>1
  <2> QED BY <2>2, <2>3
<1>6. err \in Errors /\ val \in Values
  BY <1>5, ValueShape DEF getxattr_nofollow, Errors
<1>7. err = "ENODATA" => Absent \in call[c].values
  BY <1>2 DEF getxattr_nofollow
<1>8. err = "ERANGE" => Cardinality(call[c].values) > 1
  <2> SUFFICES ASSUME err = "ERANGE" PROVE Cardinality(call[c].values) > 1
    OBVIOUS
  <2>1. Length(value) > size /\ value # Absent
    BY DEF getxattr_nofollow
  <2>2. value # v
    BY <1>2, <1>3, <2>1
  <2> QED BY <1>2, <1>3, <2>2, TwoMembers
<1> HIDE DEF err, val
<1>9. got' \in [Callers -> [err : Errors, val : Values, values : SUBSET Stored]]
  BY <1>1, <1>2, <1>6
<1>10. NoCall \in [size : 0..MaxLen, values : SUBSET Stored]
  BY LenAssumption DEF NoCall
<1>11. call' \in [Callers -> [size : 0..MaxLen, values : SUBSET Stored]]
  BY <1>1, <1>10
<1>12. \A d \in Callers : CallInv(d)'
  BY <1>1 DEF CallInv
<1>13. ReadAtomic'
  BY <1>1, <1>5 DEF ReadAtomic
<1>14. ReadErrorTrue'
  BY <1>1, <1>7, <1>8 DEF ReadErrorTrue
<1> QED BY <1>1, <1>9, <1>11, <1>12, <1>13, <1>14

\* For every length and any number of readers and writers: a value that is read
\* in two calls is one the attribute had meanwhile, and an error a true one.
THEOREM ReadsTrueHolds == XattrSpec => []ReadsTrue
<1>1. XattrInit => XattrInv
  <2> SUFFICES ASSUME XattrInit PROVE XattrInv
    OBVIOUS
  <2> DEFINE first == [err |-> "none", val |-> Prefix("", 0), values |-> {Prefix("", 0)}]
  <2>1. NoCall \in [size : 0..MaxLen, values : SUBSET Stored]
    BY LenAssumption DEF NoCall
  <2>2. first \in [err : Errors, val : Values, values : SUBSET Stored]
    BY ValueShape DEF Errors, Stored
  <2>3. value \in Stored /\ call = [c \in Callers |-> NoCall] /\ got = [c \in Callers |-> first]
    BY DEF XattrInit, Stored
  <2> QED BY <2>1, <2>2, <2>3 DEF XattrInv, CallInv, ReadAtomic, ReadErrorTrue
<1>2. XattrInv /\ [XattrNext]_xattrVars => XattrInv'
  <2> SUFFICES ASSUME XattrInv, [XattrNext]_xattrVars PROVE XattrInv'
    OBVIOUS
  <2>1. ASSUME NEW v \in Values, NEW flag, setxattr_nofollow(v, flag) PROVE XattrInv'
    BY <2>1, StoreKeeps DEF setxattr_nofollow, Stored
  <2>2. CASE removexattr_nofollow
    BY <2>2, StoreKeeps DEF removexattr_nofollow, Stored
  <2>3. CASE UNCHANGED xattrVars
    BY <2>3 DEF xattrVars, XattrInv, CallInv, ReadAtomic, ReadErrorTrue
  <2> QED BY <2>1, <2>2, <2>3, ProbeKeeps, FetchKeeps DEF XattrNext
<1>3. XattrInv => ReadsTrue
  BY DEF XattrInv, ReadsTrue, XattrTypeOK, Stored, Errors
<1> QED BY <1>1, <1>2, <1>3, PTL DEF XattrSpec
-----------------------------------------------------------------------------
(* Directories read in pages: DirListing *)

\* What is left to read from a cookie on, and the part of it up to a name.
Rest(from) == {n \in Dots \cup entries : Place(n) > from}
UpTo(from, n) == {m \in Rest(from) : m <= n}

LEMMA PageIs ==
  \A from : Page(from) = {n \in Rest(from) : \A m \in UpTo(from, n) :
                            Space(UpTo(from, m)) <= Capacity} \ NulNames
BY DEF Page, Rest, UpTo, add

\* The directory is finite, and its names are numbers that are no dots.
LEMMA EntriesFinite ==
  ASSUME ListingTypeOK
  PROVE  /\ IsFiniteSet(Names) /\ IsFiniteSet(entries) /\ entries \subseteq Names
         /\ Cardinality(Names) \in Nat /\ Cardinality(entries) \in Nat
         /\ Cardinality(entries) <= Cardinality(Names)
         /\ Names \subseteq Nat \ {0} /\ NulNames \subseteq Names
         /\ Dots \cap Names = {} /\ Dots \cup entries \subseteq Int
<1>1. IsFiniteSet(Names) /\ entries \subseteq Names /\ Names \subseteq Nat \ {0}
      /\ NulNames \subseteq Names
  BY ListingAssumption DEF ListingTypeOK
<1>2. IsFiniteSet(entries) /\ Cardinality(entries) <= Cardinality(Names)
  BY <1>1, FS_Subset
<1>3. Cardinality(Names) \in Nat /\ Cardinality(entries) \in Nat
  BY <1>1, <1>2, FS_CardinalityType
<1>4. Dots \cap Names = {} /\ Dots \cup entries \subseteq Int
  BY <1>1 DEF Dots
<1> QED BY <1>1, <1>2, <1>3, <1>4

\* The cookie of a name is a number up to the number of entries, more than
\* that of the dots.
LEMMA PlaceRange ==
  ASSUME ListingTypeOK, NEW n \in Dots \cup entries
  PROVE  /\ Place(n) \in 1..(2 + Cardinality(Names))
         /\ n \in Dots => Place(n) = n + 2
         /\ n \notin Dots => Place(n) > 2
<1>1. CASE n \in Dots
  BY <1>1, EntriesFinite DEF Place, Dots
<1>2. CASE n \notin Dots
  <2> DEFINE S == {m \in entries : m <= n}
  <2>1. IsFiniteSet(S) /\ Cardinality(S) <= Cardinality(entries) /\ Cardinality(S) \in Nat
    <3>1. S \in SUBSET entries
      OBVIOUS
    <3> HIDE DEF S
    <3> QED BY <3>1, EntriesFinite, FS_Subset, FS_CardinalityType
  <2>2. n \in S
    BY <1>2, EntriesFinite
  <2>3. Cardinality(S) # 0
    BY <2>1, <2>2, FS_EmptySet
  <2>4. Place(n) = 2 + Cardinality(S)
    BY <1>2 DEF Place
  <2> HIDE DEF S
  <2> QED BY <1>2, <2>1, <2>3, <2>4, EntriesFinite
<1> QED BY <1>1, <1>2

\* Cookies are in the order of the names.
LEMMA PlaceOrder ==
  ASSUME ListingTypeOK, NEW m \in Dots \cup entries, NEW n \in Dots \cup entries
  PROVE  m <= n <=> Place(m) <= Place(n)
<1>0. /\ m \in Int /\ n \in Int /\ Place(m) \in Int /\ Place(n) \in Int
      /\ entries \subseteq Nat \ {0}
  BY EntriesFinite, PlaceRange
<1>1. ASSUME NEW a \in entries, NEW b \in entries, a <= b
      PROVE  Place(a) <= Place(b) /\ (a # b => Place(a) < Place(b))
  <2> DEFINE A == {k \in entries : k <= a}
             B == {k \in entries : k <= b}
  <2>1. a \notin Dots /\ b \notin Dots /\ a \in Int /\ b \in Int
    BY EntriesFinite
  <2>2. IsFiniteSet(B) /\ IsFiniteSet(A) /\ A \in SUBSET B
    <3>1. A \in SUBSET entries /\ B \in SUBSET entries
      OBVIOUS
    <3>2. A \in SUBSET B
      <4>1. \A k \in entries : k <= a => k <= b
        BY <1>0, <1>1, <2>1
      <4> QED BY <4>1
    <3> HIDE DEF A, B
    <3> QED BY <3>1, <3>2, EntriesFinite, FS_Subset
  <2>3. a # b => A # B
    <3>1. b \in B /\ (a # b => b \notin A)
      BY <1>0, <1>1, <2>1
    <3> HIDE DEF A, B
    <3> QED BY <3>1
  <2>4. Place(a) = 2 + Cardinality(A) /\ Place(b) = 2 + Cardinality(B)
    BY <2>1 DEF Place
  <2> HIDE DEF A, B
  <2>5. /\ Cardinality(A) <= Cardinality(B) /\ Cardinality(A) \in Nat /\ Cardinality(B) \in Nat
        /\ (a # b => Cardinality(A) # Cardinality(B))
    BY <2>2, <2>3, FS_Subset, FS_CardinalityType
  <2> QED BY <2>4, <2>5
<1>2. CASE m \in Dots /\ n \in Dots
  BY <1>0, <1>2, PlaceRange
<1>3. CASE m \in Dots /\ n \notin Dots
  <2>1. m <= 0 /\ n > 0 /\ Place(m) <= 2 /\ Place(n) > 2
    BY <1>0, <1>3, PlaceRange DEF Dots
  <2> QED BY <1>0, <2>1
<1>4. CASE m \notin Dots /\ n \in Dots
  <2>1. n <= 0 /\ m > 0 /\ Place(n) <= 2 /\ Place(m) > 2
    BY <1>0, <1>4, PlaceRange DEF Dots
  <2> QED BY <1>0, <2>1
<1>5. CASE m \notin Dots /\ n \notin Dots
  <2>1. m \in entries /\ n \in entries
    BY <1>5
  <2>2. CASE m <= n
    BY <1>1, <2>1, <2>2
  <2>3. CASE ~(m <= n)
    <3>1. n <= m /\ n # m
      BY <1>0, <2>3
    <3>2. Place(n) < Place(m)
      BY <1>1, <2>1, <3>1
    <3> QED BY <1>0, <2>3, <3>2
  <2> QED BY <2>2, <2>3
<1> QED BY <1>2, <1>3, <1>4, <1>5

\* The space of entries counts none with a NUL.
LEMMA SpaceReal ==
  ASSUME NEW S, NEW T, S \ NulNames = T \ NulNames
  PROVE  Space(S) = Space(T)
<1>1. (S \cap Long) \ NulNames = (T \cap Long) \ NulNames
  OBVIOUS
<1> QED BY <1>1 DEF Space

\* One entry and those with a NUL take two units of space at most.
LEMMA SpaceOfOne ==
  ASSUME NEW S, NEW m, S \ NulNames \subseteq {m}
  PROVE  Space(S) \in 0..2
<1>1. ASSUME NEW T \in SUBSET {m} PROVE Cardinality(T) \in 0..1
  <2>1. IsFiniteSet({m}) /\ Cardinality({m}) = 1
    BY FS_Singleton
  <2>2. IsFiniteSet(T) /\ Cardinality(T) <= 1
    BY <2>1, FS_Subset
  <2> QED BY <2>2, FS_CardinalityType
<1>2. S \ NulNames \in SUBSET {m} /\ (S \cap Long) \ NulNames \in SUBSET {m}
  OBVIOUS
<1>3. Cardinality(S \ NulNames) \in 0..1 /\ Cardinality((S \cap Long) \ NulNames) \in 0..1
  BY <1>1, <1>2
<1> QED BY <1>3 DEF Space

\* Where there is an entry to send, the page has one: the first always fits.
LEMMA PageGoesOn ==
  ASSUME ListingTypeOK, NEW from, NEW n \in Rest(from) \ NulNames
  PROVE  Page(from) # {}
<1> DEFINE T == {p \in Nat : \E k \in Rest(from) \ NulNames : p = Place(k)}
<1>1. \A k \in Rest(from) : k \in Dots \cup entries /\ Place(k) \in Nat
  BY PlaceRange DEF Rest
<1>2. T \in SUBSET Nat /\ T # {}
  <2>1. Place(n) \in T
    BY <1>1
  <2> QED BY <2>1
<1>3. PICK p \in T : \A q \in T : p <= q
  BY <1>2, LeastNumber
<1>4. PICK m \in Rest(from) \ NulNames : p = Place(m)
  BY <1>3
<1>5. \A k \in Rest(from) \ NulNames : Place(m) <= Place(k)
  BY <1>1, <1>3, <1>4
<1>6. \A k \in Rest(from) \ NulNames : m <= k
  BY <1>1, <1>4, <1>5, PlaceOrder
<1>7. \A k \in Rest(from) \cup {m} : k \in Int
  BY <1>1, <1>4, EntriesFinite
<1>8. ASSUME NEW k \in UpTo(from, m) PROVE Space(UpTo(from, k)) <= Capacity
  <2>1. UpTo(from, k) \ NulNames \subseteq {m}
    BY <1>6, <1>7 DEF UpTo
  <2>2. Space(UpTo(from, k)) \in 0..2
    BY <2>1, SpaceOfOne
  <2> QED BY <2>2, ListingAssumption
<1>9. m \in Page(from)
  BY <1>4, <1>8, PageIs
<1> QED BY <1>9

\* A page is what is left up to its last entry, but for those with a NUL.
LEMMA PageClosed ==
  ASSUME ListingTypeOK, NEW from, NEW last \in Page(from), NEW n \in Rest(from) \ NulNames,
         n <= last
  PROVE  n \in Page(from)
<1>1. last \in Rest(from) /\ \A m \in UpTo(from, last) : Space(UpTo(from, m)) <= Capacity
  BY PageIs
<1>2. Rest(from) \subseteq Int
  BY EntriesFinite DEF Rest
<1>3. UpTo(from, n) \subseteq UpTo(from, last)
  BY <1>1, <1>2 DEF UpTo
<1> QED BY <1>1, <1>3, PageIs

\* It fits into the buffer.
LEMMA PageSpace ==
  ASSUME ListingTypeOK, NEW from
  PROVE  Space(Page(from)) <= Capacity
<1>1. CASE Page(from) = {}
  <2>1. {} \ NulNames \subseteq {0}
    OBVIOUS
  <2>2. Space({}) \in 0..2
    BY <2>1, SpaceOfOne
  <2> QED BY <1>1, <2>2, ListingAssumption
<1>2. CASE Page(from) # {}
  <2> DEFINE top == 2 + Cardinality(Names)
             T == {p \in 0..top : \E k \in Page(from) : p = Place(k)}
  <2>0. Page(from) \subseteq Rest(from) \ NulNames /\ top \in Nat
    BY PageIs, EntriesFinite
  <2>1. \A k \in Rest(from) : k \in Dots \cup entries /\ k \in Int /\ Place(k) \in 0..top
    BY PlaceRange, EntriesFinite DEF Rest
  <2>2. T \in SUBSET (0..top) /\ T # {}
    <3>1. PICK n : n \in Page(from)
      BY <1>2
    <3>2. Place(n) \in T
      BY <2>0, <2>1, <3>1
    <3> QED BY <3>2
  <2> HIDE DEF top
  <2>3. PICK p \in T : \A q \in T : q <= p
    BY <2>0, <2>2, GreatestNumber
  <2>4. PICK last \in Page(from) : p = Place(last)
    BY <2>3
  <2>5. \A k \in Page(from) : Place(k) <= Place(last)
    BY <2>0, <2>1, <2>3, <2>4
  <2>6. \A k \in Page(from) : k <= last
    BY <2>0, <2>1, <2>4, <2>5, PlaceOrder
  <2>7. last \in UpTo(from, last)
    BY <2>0, <2>1, <2>4 DEF UpTo
  <2>8. Space(UpTo(from, last)) <= Capacity
    BY <2>4, <2>7, PageIs
  <2>9. Page(from) \ NulNames = UpTo(from, last) \ NulNames
    BY <2>0, <2>4, <2>6, PageClosed DEF UpTo
  <2> QED BY <2>8, <2>9, SpaceReal
<1> QED BY <1>1, <1>2
\* As long as nothing changes, the names that were read are those up to the
\* cookie, and at the end that is all of them.
ReadSoFar ==
  changes = 0 =>
    /\ \A n \in Dots \cup Names :
         seen[n] = IF n \in Dots \cup (entries \ NulNames) /\ Place(n) <= offset THEN 1 ELSE 0
    /\ done => \A n \in Dots \cup (entries \ NulNames) : Place(n) <= offset

ListingInv == ListingTypeOK /\ ReadSoFar /\ PageFits

\* A page read: its entries are those after the cookie, each read once.
LEMMA ReadPageKeeps ==
  ASSUME ListingInv, ReadPage
  PROVE  ListingInv'
<1> USE DEF ListingInv
<1>0. /\ Page(offset) \subseteq Rest(offset) \ NulNames /\ entries' = entries /\ changes' = changes
      /\ \A n : Place(n)' = Place(n)
  BY PageIs DEF ReadPage, Place
<1>1. PageFits'
  BY PageSpace DEF ReadPage, PageFits
<1>2. Dots \cup entries \subseteq Int /\ DOMAIN seen = Dots \cup Names /\ entries \subseteq Names
  BY EntriesFinite DEF ListingTypeOK
<1>3. CASE Page(offset) = {}
  <2>1. done' = TRUE /\ offset' = offset /\ seen' = seen
    BY <1>3 DEF ReadPage
  <2>2. ListingTypeOK'
    BY <1>0, <2>1 DEF ListingTypeOK
  <2>3. Rest(offset) \ NulNames = {}
    BY <1>3, PageGoesOn
  <2>4. \A n \in Dots \cup (entries \ NulNames) : n \in Dots \cup entries /\ n \notin NulNames
    BY EntriesFinite
  <2>5. \A n \in Dots \cup (entries \ NulNames) : ~(Place(n) > offset)
    BY <2>3, <2>4 DEF Rest
  <2>6. \A n \in Dots \cup (entries \ NulNames) : Place(n) <= offset
    <3> TAKE n \in Dots \cup (entries \ NulNames)
    <3>1. Place(n) \in Int /\ offset \in Int
      BY <2>4, PlaceRange, EntriesFinite DEF ListingTypeOK
    <3> QED BY <2>5, <3>1
  <2>7. ReadSoFar'
    BY <1>0, <2>1, <2>6 DEF ReadSoFar
  <2> QED BY <1>1, <2>2, <2>7
<1>4. CASE Page(offset) # {}
  <2>1. PICK last \in Page(offset) :
          /\ seen' = [n \in DOMAIN seen |-> IF n \in Page(offset) /\ n <= last /\ seen[n] < 2
                                            THEN seen[n] + 1 ELSE seen[n]]
          /\ offset' = Place(last)
          /\ done' = done
    BY <1>4 DEF ReadPage, next_offset
  <2>2. last \in Dots \cup entries /\ Place(last) > offset
    BY <1>0, <2>1 DEF Rest
  <2>3. Place(last) \in 0..(2 + Cardinality(Names)) /\ offset \in Int
    BY <2>2, PlaceRange, EntriesFinite DEF ListingTypeOK
  <2>4. seen' \in [Dots \cup Names -> 0..2]
    <3>1. \A n \in Dots \cup Names : seen[n] \in 0..2
      BY DEF ListingTypeOK
    <3> QED BY <1>2, <2>1, <3>1
  <2>5. ListingTypeOK'
    BY <1>0, <2>1, <2>3, <2>4 DEF ListingTypeOK
  <2>6. ASSUME changes = 0, NEW n \in Dots \cup Names
        PROVE  seen'[n] = IF n \in Dots \cup (entries \ NulNames) /\ Place(n) <= Place(last)
                          THEN 1 ELSE 0
    <3>1. seen[n] = IF n \in Dots \cup (entries \ NulNames) /\ Place(n) <= offset THEN 1 ELSE 0
      BY <2>6 DEF ReadSoFar
    <3>2. seen'[n] = IF n \in Page(offset) /\ n <= last /\ seen[n] < 2
                     THEN seen[n] + 1 ELSE seen[n]
      BY <1>2, <2>1
    <3>3. CASE n \notin Dots \cup (entries \ NulNames)
      <4>1. n \notin Page(offset)
        BY <1>0, <3>3 DEF Rest
      <4> QED BY <3>1, <3>2, <3>3, <4>1
    <3>4. CASE n \in Dots \cup (entries \ NulNames)
      <4>1. n \in Dots \cup entries /\ n \notin NulNames
        BY <3>4, EntriesFinite
      <4>2. Place(n) \in Int /\ n \in Int /\ last \in Int
        BY <1>2, <2>2, <4>1, PlaceRange
      <4>3. n <= last <=> Place(n) <= Place(last)
        BY <2>2, <4>1, PlaceOrder
      <4>4. n \in Page(offset) /\ n <= last <=> Place(n) > offset /\ n <= last
        BY <1>0, <2>1, <4>1, PageClosed DEF Rest
      <4>5. CASE Place(n) <= offset
        <5>1. seen[n] = 1 /\ ~(n \in Page(offset) /\ n <= last) /\ Place(n) <= Place(last)
          BY <2>2, <2>3, <3>1, <3>4, <4>2, <4>4, <4>5
        <5> QED BY <3>2, <3>4, <5>1
      <4>6. CASE Place(n) > offset
        <5>1. seen[n] = 0
          BY <2>3, <3>1, <4>2, <4>6
        <5>2. n \in Page(offset) /\ n <= last <=> Place(n) <= Place(last)
          BY <4>3, <4>4, <4>6
        <5> QED BY <3>2, <3>4, <5>1, <5>2
      <4> QED BY <2>3, <4>2, <4>5, <4>6
    <3> QED BY <3>3, <3>4
  <2>7. ~done
    BY DEF ReadPage
  <2>8. ReadSoFar'
    BY <1>0, <2>1, <2>6, <2>7 DEF ReadSoFar
  <2> QED BY <1>1, <2>5, <2>8
<1> QED BY <1>3, <1>4

\* For every directory, every buffer and all sizes of entries: a directory that
\* does not change is listed whole, each name once, in replies of the size that
\* was asked for.
THEOREM PagesRightHolds == ListingSpec => []PagesRight
<1>1. ListingInit => ListingInv
  <2> SUFFICES ASSUME ListingInit PROVE ListingInv
    OBVIOUS
  <2>1. Cardinality(Names) \in Nat /\ MaxChanges \in Nat /\ Capacity \in Nat
    BY ListingAssumption, FS_CardinalityType
  <2>2. ListingTypeOK /\ PageFits
    <3>1. done \in BOOLEAN
      BY DEF ListingInit
    <3>2. /\ entries \subseteq Names /\ offset \in 0..(2 + Cardinality(Names))
          /\ seen \in [Dots \cup Names -> 0..2] /\ changes \in 0..MaxChanges /\ filled <= Capacity
      BY <2>1 DEF ListingInit
    <3> QED BY <3>1, <3>2 DEF ListingTypeOK, PageFits
  <2>3. \A n \in Dots \cup (entries \ NulNames) : ~(Place(n) <= offset)
    <3> TAKE n \in Dots \cup (entries \ NulNames)
    <3>1. Place(n) \in 1..(2 + Cardinality(Names)) /\ offset = 0
      BY <2>2, PlaceRange DEF ListingInit
    <3> QED BY <2>1, <3>1
  <2> QED BY <2>2, <2>3 DEF ListingInv, ReadSoFar, ListingInit
<1>2. ListingInv /\ [ListingNext]_listingVars => ListingInv'
  <2> SUFFICES ASSUME ListingInv, [ListingNext]_listingVars PROVE ListingInv'
    OBVIOUS
  <2>1. ASSUME NEW n \in Names, Change(n) PROVE ListingInv'
    <3>1. changes' \in 0..MaxChanges /\ changes' # 0
      BY <2>1, ListingAssumption DEF Change, ListingInv, ListingTypeOK
    <3>2. entries' \subseteq Names
      BY <2>1 DEF Change, ListingInv, ListingTypeOK
    <3> QED
      BY <2>1, <3>1, <3>2 DEF Change, ListingInv, ListingTypeOK, ReadSoFar, PageFits
  <2>2. CASE UNCHANGED listingVars
    BY <2>2 DEF listingVars, ListingInv, ListingTypeOK, ReadSoFar, PageFits, Place
  <2> QED BY <2>1, <2>2, ReadPageKeeps DEF ListingNext
<1>3. ListingInv => PagesRight
  <2> SUFFICES ASSUME ListingInv PROVE PagesRight
    OBVIOUS
  <2>1. ListedOnce
    BY DEF ListingInv, ReadSoFar, ListedOnce
  <2> QED BY <2>1 DEF ListingInv, PagesRight
<1> QED BY <1>1, <1>2, <1>3, PTL DEF ListingSpec
=============================================================================
