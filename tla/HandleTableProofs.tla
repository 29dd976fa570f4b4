------------------------- MODULE HandleTableProofs -------------------------
(***************************************************************************)
(* Proofs about HandleTable, for any number of threads, nodes and handles. *)
(***************************************************************************)
EXTENDS HandleTable, FiniteSetTheorems, TLAPS

\* A thread between taking the record out of the table and consuming it.
Releasing(t) == pc[t] \in {"removed", "close", "waiting", "take", "consume"}

\* A busy thread is there for an issued handle.
BusyInv == \A t \in Threads : pc[t] # "idle" => fh[t] \in Issued

\* A handle is in at most one of the two maps, and only once it was issued.
TableInv ==
  /\ \A k \in Kinds : table[k] \subseteq Issued
  /\ \A h \in Fh : ~(h \in table["file"] /\ h \in table["dir"])

\* One thread at most releases a handle, and it is out of the table by then.
ReleaserInv ==
  /\ \A t \in Threads : Releasing(t) => ~InTable(fh[t])
  /\ \A t, u \in Threads :
       Releasing(t) /\ Releasing(u) /\ fh[t] = fh[u] => t = u

\* The counter of a record is the number of its leases.
ActiveInv == \A h \in Fh : active[h] = Cardinality(Leases(h))

\* A closed record is out of the table for good; a taken one was drained.
ClosedInv ==
  /\ \A h \in Fh : closing[h] => h \in Issued /\ ~InTable(h)
  /\ \A h \in Fh : taken[h] => closing[h] /\ Leases(h) = {}
  /\ \A t \in Threads : pc[t] \in {"waiting", "take", "consume"} => closing[fh[t]]
  /\ \A t \in Threads : pc[t] \in {"take", "consume"} => taken[fh[t]]
  /\ \A t \in Threads : pc[t] \in {"removed", "close", "waiting"} => ~taken[fh[t]]

\* The payload was given up when the taker took it or the last Arc was
\* dropped, and then once.
Held(h) == InTable(h) \/ ArcHolders(h) # {}
Taking(h) == \E t \in Threads : pc[t] = "take" /\ fh[t] = h
GivenUp(h) == h \in Issued /\ (~Held(h) \/ (taken[h] /\ ~Taking(h)))

MovedInv ==
  \A h \in Fh : moved[h] = IF GivenUp(h) THEN 1 ELSE 0

\* Only threads in the wait loop sleep, and they have a lease to wait for.
SleepInv ==
  \A h \in Fh : \A t \in drained[h] :
    /\ pc[t] = "waiting" /\ fh[t] = h
    /\ active[h] # 0

IInv ==
  /\ TypeOK
  /\ BusyInv
  /\ TableInv
  /\ ReleaserInv
  /\ ActiveInv
  /\ ClosedInv
  /\ MovedInv
  /\ SleepInv

-----------------------------------------------------------------------------

LEMMA InitIInv == Init => IInv
<1> SUFFICES ASSUME Init PROVE IInv
  OBVIOUS
<1> USE MaxFhNat, ThreadsFinite
<1>1. TypeOK
  BY DEF Init, TypeOK, Fh, PCs, Kinds
<1>2. \A h \in Fh : Leases(h) = {} /\ ArcHolders(h) = {}
  BY DEF Init, Leases, ArcHolders
<1>3. ActiveInv
  BY <1>2, FS_EmptySet DEF Init, ActiveInv
<1>4. MovedInv
  <2>1. Issued = {}
    BY DEF Init, Issued, Fh
  <2> QED
    BY <2>1 DEF Init, MovedInv, GivenUp
<1>5. BusyInv /\ TableInv /\ ReleaserInv /\ ClosedInv /\ SleepInv
  BY DEF Init, BusyInv, TableInv, ReleaserInv, ClosedInv, SleepInv, Releasing,
         Kinds
<1> QED
  BY <1>1, <1>3, <1>4, <1>5 DEF IInv

\* A step that neither starts nor ends a lease leaves the counters right.
LEMMA SameLeases ==
  ASSUME IInv, active' = active,
         \A h \in Fh : Leases(h)' = Leases(h)
  PROVE  ActiveInv'
BY DEF IInv, ActiveInv

LEMMA AddHandleIInv ==
  ASSUME IInv, NEW k \in Kinds, NEW n \in Nodes, AddHandle(k, n)
  PROVE  IInv'
<1> USE MaxFhNat
<1>1. TypeOK'
  BY DEF IInv, TypeOK, AddHandle, Fh, Kinds, record, request
<1>2. \A h \in Fh : Leases(h)' = Leases(h) /\ ArcHolders(h)' = ArcHolders(h)
  BY DEF AddHandle, Leases, ArcHolders, request
<1>3. ActiveInv'
  BY <1>2, SameLeases DEF AddHandle
<1>4. /\ next_fh \in Fh
      /\ Issued' = Issued \cup {next_fh}
      /\ next_fh \notin Issued
  BY DEF IInv, TypeOK, AddHandle, Issued, Fh
<1>5. \A h \in Fh : InTable(h)' <=> (InTable(h) \/ h = next_fh)
  BY DEF AddHandle, InTable, IInv, TypeOK
<1>6. BusyInv'
  BY <1>4 DEF IInv, BusyInv, AddHandle, request
<1>7. TableInv'
  BY <1>4 DEF IInv, TypeOK, TableInv, AddHandle, Kinds
<1>8. ReleaserInv'
  BY <1>4, <1>5 DEF IInv, TypeOK, ReleaserInv, BusyInv, Releasing, AddHandle, request,
     Issued
<1>9. ClosedInv'
  BY <1>2, <1>4, <1>5 DEF IInv, ClosedInv, AddHandle, request
<1>10. MovedInv'
  <2>1. \A h \in Fh : Taking(h)' <=> Taking(h)
    BY DEF Taking, AddHandle, request
  <2>2. ArcHolders(next_fh) = {} 
    BY <1>4 DEF ArcHolders, IInv, BusyInv
  <2>3. ~taken[next_fh]
    BY <1>4 DEF IInv, ClosedInv
  <2>4. \A h \in Fh : GivenUp(h)' <=> GivenUp(h)
    BY <1>2, <1>4, <1>5, <2>1, <2>2, <2>3 DEF GivenUp, Held, AddHandle
  <2> QED
    BY <2>4 DEF IInv, MovedInv, AddHandle
<1>11. SleepInv'
  BY DEF IInv, SleepInv, AddHandle, request
<1> QED
  BY <1>1, <1>3, <1>6, <1>7, <1>8, <1>9, <1>10, <1>11 DEF IInv

LEMMA GetRecordIInv ==
  ASSUME IInv, NEW t \in Threads, NEW k \in Kinds, NEW n \in Nodes, NEW h \in Fh,
         GetRecord(t, k, n, h)
  PROVE  IInv'
<1> USE MaxFhNat DEF GetRecord, Goto, record
<1>1. TypeOK'
  BY DEF IInv, TypeOK, Fh, PCs
<1>2. h \in Issued /\ InTable(h)
  BY DEF IInv, TableInv, InTable
<1>3. \A g \in Fh : Leases(g)' = Leases(g)
  BY DEF Leases, IInv, TypeOK
<1>4. \A g \in Fh : g # h => ArcHolders(g)' = ArcHolders(g)
  BY DEF ArcHolders, IInv, TypeOK
<1>5. \A g \in Fh : (InTable(g)' <=> InTable(g)) /\ (Taking(g)' <=> Taking(g))
  BY DEF InTable, Taking, IInv, TypeOK
<1>6. Issued' = Issued
  BY DEF Issued
<1>7. ActiveInv'
  BY <1>3, SameLeases
<1>8. BusyInv'
  BY <1>2, <1>6 DEF IInv, BusyInv, TypeOK
<1>9. TableInv'
  BY <1>6 DEF IInv, TableInv
<1>10. ReleaserInv'
  BY <1>5 DEF IInv, ReleaserInv, Releasing, BusyInv, TypeOK, Issued
<1>11. ClosedInv'
  BY <1>3, <1>5, <1>6 DEF IInv, ClosedInv, TypeOK
<1>12. MovedInv'
  <2>1. \A g \in Fh : GivenUp(g)' <=> GivenUp(g)
    BY <1>2, <1>4, <1>5, <1>6 DEF GivenUp, Held
  <2> QED
    BY <2>1 DEF IInv, MovedInv
<1>13. SleepInv'
  BY DEF IInv, SleepInv, TypeOK
<1> QED
  BY <1>1, <1>7, <1>8, <1>9, <1>10, <1>11, <1>12, <1>13 DEF IInv

LEMMA AcquireIInv ==
  ASSUME IInv, NEW t \in Threads, Acquire(t)
  PROVE  IInv'
<1> DEFINE h == fh[t]
<1> USE MaxFhNat DEF Acquire, Goto, request
<1>1. TypeOK'
  BY DEF IInv, TypeOK, PCs, BusyInv, Issued
<1>2. h \in Issued /\ h \in Fh
  BY DEF IInv, BusyInv, Issued
<1>3. \A g \in Fh : (InTable(g)' <=> InTable(g)) /\ (Taking(g)' <=> Taking(g))
  BY DEF InTable, Taking, IInv, TypeOK
<1>4. \A g \in Fh : ArcHolders(g)' = ArcHolders(g)
  BY DEF ArcHolders, IInv, TypeOK
<1>5. Issued' = Issued
  BY DEF Issued
<1>6. \A g \in Fh :
        Leases(g)' = IF g = h /\ pc'[t] = "leased" THEN Leases(g) \cup {t} ELSE Leases(g)
  BY DEF Leases, IInv, TypeOK
<1>7. ActiveInv'
  <2>1. CASE pc'[t] = "leased"
    <3>1. t \notin Leases(h) /\ IsFiniteSet(Leases(h))
      BY ThreadsFinite, FS_Subset DEF Leases
    <3>2. Cardinality(Leases(h) \cup {t}) = Cardinality(Leases(h)) + 1
      BY <3>1, FS_AddElement
    <3>3. active' = [active EXCEPT ![h] = @ + 1]
      BY <2>1 DEF IInv, TypeOK
    <3> QED
      BY <1>2, <1>6, <2>1, <3>2, <3>3 DEF IInv, ActiveInv, TypeOK
  <2>2. CASE pc'[t] # "leased"
    <3>1. active' = active
      BY <2>2 DEF IInv, TypeOK
    <3> QED
      BY <1>6, <2>2, <3>1, SameLeases
  <2> QED
    BY <2>1, <2>2
<1>8. BusyInv'
  BY <1>5 DEF IInv, BusyInv, TypeOK
<1>9. TableInv'
  BY <1>5 DEF IInv, TableInv
<1>10. ReleaserInv'
  BY <1>3 DEF IInv, ReleaserInv, Releasing, BusyInv, TypeOK, Issued
<1>11. ClosedInv'
  <2>1. taken[h] => pc'[t] # "leased"
    BY <1>2 DEF IInv, TypeOK, ClosedInv
  <2> QED
    BY <1>2, <1>3, <1>5, <1>6, <2>1 DEF IInv, ClosedInv, TypeOK
<1>12. MovedInv'
  <2>1. \A g \in Fh : GivenUp(g)' <=> GivenUp(g)
    BY <1>3, <1>4, <1>5 DEF GivenUp, Held
  <2> QED
    BY <2>1 DEF IInv, MovedInv
<1>13. SleepInv'
  BY <1>2 DEF IInv, SleepInv, TypeOK
<1> QED
  BY <1>1, <1>7, <1>8, <1>9, <1>10, <1>11, <1>12, <1>13 DEF IInv

LEMMA DropLeaseIInv ==
  ASSUME IInv, NEW t \in Threads, DropLease(t)
  PROVE  IInv'
<1> DEFINE h == fh[t]
<1> USE MaxFhNat DEF DropLease, Goto, request
<1>1. TypeOK'
  BY DEF IInv, TypeOK, PCs, BusyInv, Issued
<1>2. h \in Issued /\ h \in Fh
  BY DEF IInv, BusyInv, Issued
<1>3. \A g \in Fh : (InTable(g)' <=> InTable(g)) /\ (Taking(g)' <=> Taking(g))
  BY DEF InTable, Taking, IInv, TypeOK
<1>4. \A g \in Fh : ArcHolders(g)' = ArcHolders(g)
  BY DEF ArcHolders, IInv, TypeOK
<1>5. Issued' = Issued
  BY DEF Issued
<1>6. \A g \in Fh : Leases(g)' = IF g = h THEN Leases(g) \ {t} ELSE Leases(g)
  BY DEF Leases, IInv, TypeOK
<1>7. ActiveInv' /\ active[h] # 0 /\ active' = [active EXCEPT ![h] = @ - 1]
  <2>1. t \in Leases(h) /\ IsFiniteSet(Leases(h))
    BY ThreadsFinite, FS_Subset DEF Leases
  <2>2. Cardinality(Leases(h) \ {t}) = Cardinality(Leases(h)) - 1
    BY <2>1, FS_RemoveElement
  <2>3. active[h] # 0
    BY <1>2, <2>1, FS_EmptySet DEF IInv, ActiveInv
  <2>4. active' = [active EXCEPT ![h] = @ - 1]
    BY <1>2, <2>3 DEF IInv, TypeOK
  <2> QED
    BY <1>2, <1>6, <2>2, <2>3, <2>4 DEF IInv, ActiveInv, TypeOK
<1>8. BusyInv'
  BY <1>5 DEF IInv, BusyInv, TypeOK
<1>9. TableInv'
  BY <1>5 DEF IInv, TableInv
<1>10. ReleaserInv'
  BY <1>3 DEF IInv, ReleaserInv, Releasing, BusyInv, TypeOK, Issued
<1>11. ClosedInv'
  BY <1>3, <1>5, <1>6 DEF IInv, ClosedInv, TypeOK
<1>12. MovedInv'
  <2>1. \A g \in Fh : GivenUp(g)' <=> GivenUp(g)
    BY <1>3, <1>4, <1>5 DEF GivenUp, Held
  <2> QED
    BY <2>1 DEF IInv, MovedInv
<1>13. SleepInv'
  \* whoever sleeps on h has closed it, so the last lease empties the wait set
  <2>1. \A u \in drained[h] : closing[h]
    BY <1>2 DEF IInv, SleepInv, ClosedInv, TypeOK
  <2>2. \A g \in Fh : \A u \in drained'[g] : u \in drained[g] /\ active'[g] # 0
    BY <1>2, <1>7, <2>1 DEF IInv, SleepInv, TypeOK
  <2> QED
    BY <2>2 DEF IInv, SleepInv, TypeOK
<1> QED
  BY <1>1, <1>7, <1>8, <1>9, <1>10, <1>11, <1>12, <1>13 DEF IInv

LEMMA DropArcIInv ==
  ASSUME IInv, NEW t \in Threads, DropArc(t)
  PROVE  IInv'
<1> USE MaxFhNat DEF DropArc, Goto
<1>0. PICK h \in Issued : h = fh[t]
  BY DEF IInv, BusyInv
<1> USE <1>0
<1>1. TypeOK'
  BY DEF IInv, TypeOK, PCs, BusyInv, Issued
<1>2. h \in Issued /\ h \in Fh
  BY DEF Issued
<1>3. \A g \in Fh : (InTable(g)' <=> InTable(g)) /\ (Taking(g)' <=> Taking(g))
  BY DEF InTable, Taking, IInv, TypeOK
<1>4. \A g \in Fh : ArcHolders(g)' = IF g = h THEN ArcHolders(g) \ {t} ELSE ArcHolders(g)
  BY DEF ArcHolders, IInv, TypeOK
<1>5. Issued' = Issued
  BY DEF Issued
<1>6. \A g \in Fh : Leases(g)' = Leases(g)
  BY DEF Leases, IInv, TypeOK
<1>7. ActiveInv'
  BY <1>6, SameLeases
<1>8. BusyInv'
  BY <1>5 DEF IInv, BusyInv, TypeOK
<1>9. TableInv'
  BY <1>5 DEF IInv, TableInv
<1>10. ReleaserInv'
  BY <1>3 DEF IInv, ReleaserInv, Releasing, BusyInv, TypeOK, Issued
<1>11. ClosedInv'
  BY <1>3, <1>5, <1>6 DEF IInv, ClosedInv, TypeOK
<1>12. MovedInv'
  <2>1. \A g \in Fh \ {h} : GivenUp(g)' <=> GivenUp(g)
    BY <1>3, <1>4, <1>5 DEF GivenUp, Held
  <2>2. t \in ArcHolders(h)
    BY DEF ArcHolders
  <2>3. CASE ArcHolders(h) = {t} /\ ~InTable(h)
    <3>1. ~Taking(h)
      BY <2>3 DEF Taking, ArcHolders
    <3>2. GivenUp(h)' /\ (GivenUp(h) <=> taken[h])
      BY <1>2, <1>3, <1>4, <1>5, <2>2, <2>3, <3>1 DEF GivenUp, Held
    <3>3. moved'[h] = 1
      BY <1>2, <2>3, <3>2 DEF IInv, MovedInv, TypeOK
    <3> QED
      BY <1>2, <2>1, <3>2, <3>3 DEF IInv, MovedInv, TypeOK
  <2>4. CASE ~(ArcHolders(h) = {t} /\ ~InTable(h))
    <3>1. GivenUp(h)' <=> GivenUp(h)
      BY <1>2, <1>3, <1>4, <1>5, <2>2, <2>4 DEF GivenUp, Held
    <3> QED
      BY <2>1, <2>4, <3>1 DEF IInv, MovedInv
  <2> QED
    BY <2>3, <2>4
<1>13. SleepInv'
  BY DEF IInv, SleepInv, TypeOK
<1> QED
  BY <1>1, <1>7, <1>8, <1>9, <1>10, <1>11, <1>12, <1>13 DEF IInv

LEMMA RemoveRecordIInv ==
  ASSUME IInv, NEW t \in Threads, NEW k \in Kinds, NEW n \in Nodes, NEW h \in Fh,
         RemoveRecord(t, k, n, h)
  PROVE  IInv'
<1> USE MaxFhNat DEF RemoveRecord, Goto, record
<1>1. TypeOK'
  BY DEF IInv, TypeOK, Fh, PCs, Kinds
<1>2. h \in Issued /\ InTable(h)
  BY DEF IInv, TableInv, InTable
<1>3. \A g \in Fh : Leases(g)' = Leases(g)
  BY DEF Leases, IInv, TypeOK
<1>4. \A g \in Fh : ArcHolders(g)' = IF g = h THEN ArcHolders(g) \cup {t} ELSE ArcHolders(g)
  BY DEF ArcHolders, IInv, TypeOK
<1>5. \A g \in Fh : (InTable(g)' <=> InTable(g) /\ g # h) /\ (Taking(g)' <=> Taking(g))
  <2>1. \A g \in Fh : Taking(g)' <=> Taking(g)
    BY DEF Taking, IInv, TypeOK
  <2>2. \A j \in Kinds : table'[j] = table[j] \ {h}
    BY DEF IInv, TypeOK, TableInv, Kinds
  <2> QED
    BY <2>1, <2>2 DEF InTable
<1>6. Issued' = Issued
  BY DEF Issued
<1>7. ActiveInv'
  BY <1>3, SameLeases
<1>8. BusyInv'
  BY <1>2, <1>6 DEF IInv, BusyInv, TypeOK
<1>9. TableInv'
  BY <1>6 DEF IInv, TableInv, TypeOK, Kinds
<1>10. ReleaserInv'
  \* h was in the table, so nobody else was releasing it
  <2>1. \A u \in Threads : Releasing(u) => fh[u] # h /\ fh[u] \in Fh
    BY <1>2 DEF IInv, ReleaserInv, BusyInv, Releasing, Issued
  <2>2. fh'[t] = h /\ \A u \in Threads \ {t} : fh'[u] = fh[u] /\ pc'[u] = pc[u]
    BY DEF IInv, TypeOK
  <2>3. \A u \in Threads \ {t} : Releasing(u)' <=> Releasing(u)
    BY <2>2 DEF Releasing
  <2>4. \A u \in Threads : Releasing(u)' => ~InTable(fh[u])'
    BY <1>5, <2>1, <2>2, <2>3 DEF IInv, ReleaserInv
  <2>5. \A u, v \in Threads :
          Releasing(u)' /\ Releasing(v)' /\ fh'[u] = fh'[v] => u = v
    BY <2>1, <2>2, <2>3 DEF IInv, ReleaserInv
  <2> QED
    BY <2>4, <2>5 DEF ReleaserInv
<1>11. ClosedInv'
  BY <1>2, <1>3, <1>5, <1>6 DEF IInv, ClosedInv, TypeOK
<1>12. MovedInv'
  <2>1. \A g \in Fh : GivenUp(g)' <=> GivenUp(g)
    BY <1>2, <1>4, <1>5, <1>6 DEF GivenUp, Held
  <2> QED
    BY <2>1 DEF IInv, MovedInv
<1>13. SleepInv'
  BY DEF IInv, SleepInv, TypeOK
<1> QED
  BY <1>1, <1>7, <1>8, <1>9, <1>10, <1>11, <1>12, <1>13 DEF IInv

\* The steps of release() between the removal and the drop of the Arc, but for
\* the ones that touch the record.
LEMMA LeaseNodeConsumeIInv ==
  ASSUME IInv, NEW t \in Threads, LeaseNode(t) \/ Consume(t)
  PROVE  IInv'
<1> USE MaxFhNat
<1>0. /\ pc[t] \in {"removed", "consume"}
      /\ \/ pc' = [pc EXCEPT ![t] = "unref"]
         \/ pc[t] = "removed" /\ pc' = [pc EXCEPT ![t] = "close"]
      /\ UNCHANGED <<table, next_fh, node, active, closing, taken, drained, moved,
                     fh, ino>>
  BY DEF LeaseNode, Consume, Goto, record, request
<1> USE <1>0
<1>1. TypeOK'
  BY DEF IInv, TypeOK, PCs
<1>2. /\ \A g \in Fh : InTable(g)' <=> InTable(g)
      /\ \A g \in Fh : Taking(g)' <=> Taking(g)
      /\ \A g \in Fh : ArcHolders(g)' = ArcHolders(g)
      /\ \A g \in Fh : Leases(g)' = Leases(g)
  <2>1. \A g \in Fh : InTable(g)' <=> InTable(g)
    BY DEF InTable
  <2>2. \A g \in Fh : Taking(g)' <=> Taking(g)
    BY DEF Taking, IInv, TypeOK
  <2>3. \A g \in Fh : ArcHolders(g)' = ArcHolders(g)
    BY DEF ArcHolders, IInv, TypeOK
  <2>4. \A g \in Fh : Leases(g)' = Leases(g)
    BY DEF Leases, IInv, TypeOK
  <2> QED
    BY <2>1, <2>2, <2>3, <2>4
<1>3. Issued' = Issued
  BY DEF Issued
<1>4. ActiveInv'
  BY <1>2, SameLeases
<1>5. BusyInv'
  BY <1>3 DEF IInv, BusyInv, TypeOK
<1>6. TableInv'
  BY <1>3 DEF IInv, TableInv
<1>7. ReleaserInv'
  BY <1>2 DEF IInv, ReleaserInv, Releasing, BusyInv, TypeOK, Issued
<1>8. ClosedInv'
  BY <1>2, <1>3 DEF IInv, ClosedInv, TypeOK
<1>9. MovedInv'
  <2>1. \A g \in Fh : GivenUp(g)' <=> GivenUp(g)
    BY <1>2, <1>3 DEF GivenUp, Held
  <2> QED
    BY <2>1 DEF IInv, MovedInv
<1>10. SleepInv'
  BY DEF IInv, SleepInv, TypeOK
<1> QED
  BY <1>1, <1>4, <1>5, <1>6, <1>7, <1>8, <1>9, <1>10 DEF IInv

\* Close and Wake: the wait loop's test, `closing` being set or already set.
LEMMA TestDrainedIInv ==
  ASSUME IInv, NEW t \in Threads, Close(t) \/ Wake(t)
  PROVE  IInv'
<1> USE MaxFhNat
<1>0. PICK h \in Issued : h = fh[t]
  BY DEF IInv, BusyInv, Close, Wake
<1>2. h \in Issued /\ h \in Fh /\ Releasing(t) /\ ~InTable(h) /\ ~taken[h]
  BY <1>0 DEF IInv, Issued, ReleaserInv, Releasing, ClosedInv, Close, Wake
<1>5. closing' = [closing EXCEPT ![h] = TRUE]
  BY <1>0, <1>2 DEF IInv, ClosedInv, TypeOK, Close, Wake
<1>a. /\ pc[t] \in {"close", "waiting"}
      /\ \/ /\ active[h] # 0
            /\ drained' = [drained EXCEPT ![h] = @ \cup {t}]
            /\ pc' = [pc EXCEPT ![t] = "waiting"]
            /\ taken' = taken
         \/ /\ active[h] = 0
            /\ taken' = [taken EXCEPT ![h] = TRUE]
            /\ pc' = [pc EXCEPT ![t] = "take"]
            /\ drained' = drained
      /\ UNCHANGED <<table, next_fh, node, active, moved, fh, ino>>
  BY <1>0 DEF Close, Wake, TestDrained, Goto, request
<1> USE <1>a, <1>0
<1>1. TypeOK'
  <2>1. closing' \in [Fh -> BOOLEAN]
    BY <1>2, <1>5 DEF IInv, TypeOK
  <2>2. taken' \in [Fh -> BOOLEAN]
    BY <1>2 DEF IInv, TypeOK
  <2>3. drained' \in [Fh -> SUBSET Threads]
    BY <1>2 DEF IInv, TypeOK
  <2>4. pc' \in [Threads -> PCs]
    BY DEF IInv, TypeOK, PCs
  <2> QED
    BY <2>1, <2>2, <2>3, <2>4 DEF IInv, TypeOK
<1>3. /\ \A g \in Fh : InTable(g)' <=> InTable(g)
      /\ \A g \in Fh : ArcHolders(g)' = ArcHolders(g)
      /\ \A g \in Fh : Leases(g)' = Leases(g)
  <2>1. \A g \in Fh : InTable(g)' <=> InTable(g)
    BY DEF InTable
  <2>2. \A g \in Fh : ArcHolders(g)' = ArcHolders(g)
    BY DEF ArcHolders, IInv, TypeOK
  <2>3. \A g \in Fh : Leases(g)' = Leases(g)
    BY DEF Leases, IInv, TypeOK
  <2> QED
    BY <2>1, <2>2, <2>3
<1>4. Issued' = Issued
  BY DEF Issued
<1>6. ActiveInv'
  BY <1>3, SameLeases
<1>7. BusyInv'
  BY <1>4 DEF IInv, BusyInv, TypeOK
<1>8. TableInv'
  BY <1>4 DEF IInv, TableInv
<1>9. \A u \in Threads : Releasing(u)' <=> Releasing(u)
  BY <1>2 DEF IInv, TypeOK, Releasing
<1>10. ReleaserInv'
  <2>1. \A u \in Threads : Releasing(u) => fh[u] \in Fh
    BY DEF IInv, BusyInv, Releasing, Issued
  <2> QED
    BY <1>3, <1>9, <2>1 DEF IInv, ReleaserInv
<1>11. CASE active[h] # 0
  <2>1. /\ drained' = [drained EXCEPT ![h] = @ \cup {t}]
        /\ pc' = [pc EXCEPT ![t] = "waiting"]
        /\ taken' = taken
    BY <1>11
  <2>2. ClosedInv'
    BY <1>2, <1>3, <1>4, <1>5, <2>1 DEF IInv, ClosedInv, TypeOK
  <2>3. MovedInv'
    <3>1. \A g \in Fh : Taking(g)' <=> Taking(g)
      BY <2>1 DEF Taking, IInv, TypeOK
    <3>2. \A g \in Fh : GivenUp(g)' <=> GivenUp(g)
      BY <1>3, <1>4, <2>1, <3>1 DEF GivenUp, Held
    <3> QED
      BY <3>2 DEF IInv, MovedInv
  <2>4. SleepInv'
    BY <1>2, <1>11, <2>1 DEF IInv, SleepInv, TypeOK
  <2> QED
    BY <1>1, <1>6, <1>7, <1>8, <1>10, <2>2, <2>3, <2>4 DEF IInv
<1>12. CASE active[h] = 0
  <2>1. /\ drained' = drained
        /\ pc' = [pc EXCEPT ![t] = "take"]
        /\ taken' = [taken EXCEPT ![h] = TRUE]
    BY <1>12
  <2>2. Leases(h) = {}
    <3>1. IsFiniteSet(Leases(h))
      BY ThreadsFinite, FS_Subset DEF Leases
    <3> QED
      BY <1>2, <1>12, <3>1, FS_EmptySet DEF IInv, ActiveInv
  <2>3. ClosedInv'
    \* t is the only releaser of h
    <3>1. \A u \in Threads : Releasing(u) /\ fh[u] = h => u = t
      BY <1>2 DEF IInv, ReleaserInv
    <3>2. \A u \in Threads :
            /\ pc'[u] \in {"waiting", "take", "consume"} => closing'[fh'[u]]
            /\ pc'[u] \in {"take", "consume"} => taken'[fh'[u]]
      BY <1>2, <1>5, <2>1 DEF IInv, ClosedInv, TypeOK, BusyInv, Issued
    <3>3. \A u \in Threads :
            pc'[u] \in {"removed", "close", "waiting"} => ~taken'[fh'[u]]
      BY <1>2, <2>1, <3>1 DEF IInv, ClosedInv, TypeOK, Releasing
    <3>4. \A g \in Fh :
            /\ closing'[g] => g \in Issued' /\ ~InTable(g)'
            /\ taken'[g] => closing'[g] /\ Leases(g)' = {}
      BY <1>2, <1>3, <1>4, <1>5, <2>1, <2>2 DEF IInv, ClosedInv, TypeOK
    <3> QED
      BY <3>2, <3>3, <3>4 DEF ClosedInv
  <2>4. MovedInv'
    <3>1. Taking(h)' /\ \A g \in Fh \ {h} : Taking(g)' <=> Taking(g)
      BY <2>1 DEF Taking, IInv, TypeOK
    <3>2. Held(h) /\ Held(h)'
      BY <1>2, <1>3 DEF Held, ArcHolders, Releasing
    <3>3. \A g \in Fh : GivenUp(g)' <=> GivenUp(g)
      BY <1>2, <1>3, <1>4, <2>1, <3>1, <3>2 DEF GivenUp, Held, IInv, TypeOK
    <3> QED
      BY <3>3 DEF IInv, MovedInv
  <2>5. SleepInv'
    BY <1>2, <1>12, <2>1 DEF IInv, SleepInv, TypeOK
  <2> QED
    BY <1>1, <1>6, <1>7, <1>8, <1>10, <2>3, <2>4, <2>5 DEF IInv
<1> QED
  BY <1>11, <1>12

LEMMA SpuriousWakeupIInv ==
  ASSUME IInv, NEW t \in Threads, SpuriousWakeup(t)
  PROVE  IInv'
<1> USE MaxFhNat DEF SpuriousWakeup, request
<1>1. fh[t] \in Fh
  BY DEF IInv, BusyInv, Issued
<1>2. TypeOK'
  BY <1>1 DEF IInv, TypeOK
<1>3. ActiveInv'
  BY SameLeases DEF Leases
<1>4. BusyInv' /\ TableInv' /\ ReleaserInv' /\ ClosedInv'
  BY DEF IInv, BusyInv, TableInv, ReleaserInv, ClosedInv, Issued, Releasing, InTable, Leases
<1>5. MovedInv'
  BY DEF IInv, MovedInv, GivenUp, Held, Taking, Issued, InTable, ArcHolders
<1>6. SleepInv'
  BY <1>1 DEF IInv, SleepInv, TypeOK
<1> QED
  BY <1>2, <1>3, <1>4, <1>5, <1>6 DEF IInv

LEMMA TakeIInv ==
  ASSUME IInv, NEW t \in Threads, Take(t)
  PROVE  IInv'
<1> USE MaxFhNat DEF Take, Goto, request
<1>0. PICK h \in Issued : h = fh[t]
  BY DEF IInv, BusyInv
<1> USE <1>0
<1>1. h \in Fh /\ Releasing(t) /\ taken[h]
  BY DEF Issued, Releasing, IInv, ClosedInv
<1>2. TypeOK'
  BY <1>1 DEF IInv, TypeOK, PCs
<1>3. \A g \in Fh : Leases(g)' = Leases(g) /\ ArcHolders(g)' = ArcHolders(g)
  BY DEF Leases, ArcHolders, IInv, TypeOK
<1>4. \A g \in Fh : InTable(g)' <=> InTable(g)
  BY DEF InTable
<1>5. Issued' = Issued
  BY DEF Issued
<1>6. ActiveInv'
  BY <1>3, SameLeases
<1>7. BusyInv'
  BY <1>5 DEF IInv, BusyInv, TypeOK
<1>8. TableInv'
  BY <1>5 DEF IInv, TableInv
<1>9. ReleaserInv'
  BY <1>4 DEF IInv, ReleaserInv, Releasing, BusyInv, TypeOK, Issued
<1>10. ClosedInv'
  BY <1>3, <1>4, <1>5 DEF IInv, ClosedInv, TypeOK
<1>11. MovedInv'
  <2>1. \A u \in Threads : Releasing(u) /\ fh[u] = h => u = t
    BY <1>1 DEF IInv, ReleaserInv
  <2>2. Taking(h) /\ ~Taking(h)'
    BY <2>1 DEF Taking, Releasing, IInv, TypeOK
  <2>3. \A g \in Fh \ {h} : Taking(g)' <=> Taking(g)
    BY DEF Taking, IInv, TypeOK
  <2>4. t \in ArcHolders(h)
    BY DEF ArcHolders
  <2>5. ~GivenUp(h) /\ GivenUp(h)'
    BY <1>1, <1>3, <1>5, <2>2, <2>4 DEF GivenUp, Held
  <2>6. \A g \in Fh \ {h} : GivenUp(g)' <=> GivenUp(g)
    BY <1>3, <1>4, <1>5, <2>3 DEF GivenUp, Held
  <2> QED
    BY <1>1, <2>5, <2>6 DEF IInv, MovedInv, TypeOK
<1>12. SleepInv'
  BY DEF IInv, SleepInv, TypeOK
<1> QED
  BY <1>2, <1>6, <1>7, <1>8, <1>9, <1>10, <1>11, <1>12 DEF IInv

\* Every step of the runtime's handle table preserves the invariant.
LEMMA NextIInv == IInv /\ [Next]_vars => IInv'
<1> SUFFICES ASSUME IInv, [Next]_vars PROVE IInv'
  OBVIOUS
<1>1. CASE UNCHANGED vars
  <2> USE <1>1 DEF vars, record, request
  <2>1. TypeOK' /\ BusyInv' /\ TableInv' /\ ReleaserInv' /\ ClosedInv' /\ SleepInv'
    BY DEF IInv, TypeOK, BusyInv, TableInv, ReleaserInv, ClosedInv, SleepInv,
           Issued, InTable, Releasing, Leases
  <2>2. ActiveInv' /\ MovedInv'
    BY DEF IInv, ActiveInv, MovedInv, GivenUp, Held, Taking, Issued, InTable,
           ArcHolders, Leases
  <2> QED
    BY <2>1, <2>2 DEF IInv
<1>2. ASSUME NEW k \in Kinds, NEW n \in Nodes, AddHandle(k, n)
      PROVE  IInv'
  BY <1>2, AddHandleIInv
<1>3. ASSUME NEW t \in Threads, Request(t)
      PROVE  IInv'
  <2>1. PICK k \in Kinds, h \in Fh :
          \/ BadHandle(t, k, h)
          \/ \E n \in Nodes :
               \/ GetRecord(t, k, n, h)
               \/ RemoveRecord(t, k, n, h)
               \/ WrongNode(t, k, n, h)
    BY <1>3 DEF Request
  <2>2. CASE BadHandle(t, k, h)
    BY <1>1, <2>2 DEF BadHandle
  <2>3. ASSUME NEW n \in Nodes, GetRecord(t, k, n, h)
        PROVE  IInv'
    BY <2>3, GetRecordIInv
  <2>4. ASSUME NEW n \in Nodes, RemoveRecord(t, k, n, h)
        PROVE  IInv'
    BY <2>4, RemoveRecordIInv
  <2>5. ASSUME NEW n \in Nodes, WrongNode(t, k, n, h)
        PROVE  IInv'
    BY <1>1, <2>5 DEF WrongNode
  <2> QED
    BY <2>1, <2>2, <2>3, <2>4, <2>5
<1>4. ASSUME NEW t \in Threads, Step(t)
      PROVE  IInv'
  BY <1>4, AcquireIInv, DropLeaseIInv, DropArcIInv, LeaseNodeConsumeIInv,
     TestDrainedIInv, TakeIInv DEF Step
<1>5. ASSUME NEW t \in Threads, SpuriousWakeup(t)
      PROVE  IInv'
  BY <1>5, SpuriousWakeupIInv
<1> QED
  BY <1>1, <1>2, <1>3, <1>4, <1>5 DEF Next

-----------------------------------------------------------------------------

\* The inductive invariant holds throughout, for every number of worker
\* threads and handles.
THEOREM Invariance == Spec => []IInv
BY InitIInv, NextIInv, PTL DEF Spec

\* Every variable keeps its type: the counters never leave the naturals and a
\* record only ever exists for an issued handle.
THEOREM TypeCorrect == Spec => []TypeOK
<1>1. IInv => TypeOK
  BY DEF IInv
<1> QED
  BY <1>1, Invariance, PTL

\* A callback never dereferences a payload that was moved out or dropped:
\* what the SAFETY comments of HandleLease::deref and close_and_take claim.
THEOREM NoUseAfterTakeHolds == Spec => []NoUseAfterTake
<1>1. IInv => NoUseAfterTake
  <2> SUFFICES ASSUME IInv, NEW t \in Threads, pc[t] = "leased"
               PROVE  moved[fh[t]] = 0
    BY DEF NoUseAfterTake
  <2>1. PICK h \in Fh : h = fh[t] /\ t \in Leases(h) /\ t \in ArcHolders(h)
    BY DEF IInv, BusyInv, Issued, Leases, ArcHolders
  <2>2. ~taken[h]
    BY <2>1 DEF IInv, ClosedInv
  <2>3. ~GivenUp(h)
    BY <2>1, <2>2 DEF GivenUp, Held
  <2> QED
    BY <2>1, <2>3 DEF IInv, MovedInv
<1> QED
  BY <1>1, Invariance, PTL

\* release() and HandleRecord::drop between them give a payload up at most
\* once, and a record out of everybody's reach has given its payload up.
THEOREM ConsumedExactlyOnceHolds == Spec => []ConsumedExactlyOnce
<1>1. IInv => ConsumedAtMostOnce
  BY DEF IInv, MovedInv, ConsumedAtMostOnce
<1>2. IInv => NoPayloadLeak
  BY DEF IInv, MovedInv, NoPayloadLeak, GivenUp, Held, Issued
<1>3. IInv => ConsumedExactlyOnce
  BY <1>1, <1>2 DEF ConsumedExactlyOnce
<1> QED
  BY <1>3, Invariance, PTL

\* A release() asleep in close_and_take always has a lease to wait for.
THEOREM NoLostWakeupHolds == Spec => []NoLostWakeup
<1>1. IInv => NoLostWakeup
  <2> SUFFICES ASSUME IInv, NEW h \in Fh, drained[h] # {}
               PROVE  active[h] # 0 /\ Leases(h) # {}
    BY DEF NoLostWakeup
  <2>1. active[h] # 0
    BY DEF IInv, SleepInv
  <2>2. Leases(h) # {}
    BY <2>1, FS_EmptySet DEF IInv, ActiveInv
  <2> QED
    BY <2>1, <2>2
<1> QED
  BY <1>1, Invariance, PTL

-----------------------------------------------------------------------------
(* Refinement *)

Users == [h \in Fh |-> Leases(h)]

\* A step that changes neither the leases nor a payload is a stutter.
LEMMA StutterStep ==
  ASSUME Issued' = Issued, moved' = moved, \A h \in Fh : Leases(h)' = Leases(h)
  PROVE  UNCHANGED Contract!vars
<1>1. Users' = Users
  BY DEF Users, Fh
<1> QED
  BY <1>1 DEF Contract!vars, Users

\* Every step is a step of the contract or a stutter.
LEMMA ContractStep == IInv /\ [Next]_vars => [Contract!Next]_(Contract!vars)
<1> SUFFICES ASSUME IInv, [Next]_vars
             PROVE  Contract!Next \/ UNCHANGED Contract!vars
  OBVIOUS
<1> USE MaxFhNat
<1>1. CASE UNCHANGED vars
  BY <1>1, StutterStep DEF vars, record, request, Issued, Leases
<1>2. ASSUME NEW k \in Kinds, NEW n \in Nodes, AddHandle(k, n)
      PROVE  Contract!Next
  <2>1. \A h \in Fh : Leases(h)' = Leases(h)
    BY <1>2 DEF AddHandle, Leases, request
  <2>2. /\ next_fh \in Fh
        /\ Issued' = Issued \cup {next_fh}
        /\ next_fh \notin Issued
    BY <1>2 DEF IInv, TypeOK, AddHandle, Issued, Fh
  <2>3. Contract!Issue(next_fh)
    BY <1>2, <2>1, <2>2 DEF Contract!Issue, AddHandle, Fh
  <2> QED
    BY <2>2, <2>3 DEF Contract!Next
<1>3. ASSUME NEW t \in Threads, Request(t)
      PROVE  UNCHANGED Contract!vars
  <2>1. Issued' = Issued /\ moved' = moved
    BY <1>3 DEF Request, BadHandle, GetRecord, RemoveRecord, WrongNode, vars, record,
       request, Issued
  <2>2. \A h \in Fh : Leases(h)' = Leases(h)
    BY <1>3 DEF Request, BadHandle, GetRecord, RemoveRecord, WrongNode, vars, record,
       request, Leases, Goto, IInv, TypeOK
  <2> QED
    BY <2>1, <2>2, StutterStep
<1>4. ASSUME NEW t \in Threads, Acquire(t)
      PROVE  Contract!Next \/ UNCHANGED Contract!vars
  <2>1. PICK h \in Issued : h = fh[t]
    BY <1>4 DEF IInv, BusyInv, Acquire
  <2>2. Issued' = Issued /\ moved' = moved /\ h \in Fh
    BY <1>4 DEF Acquire, Issued
  <2>3. \A g \in Fh :
          Leases(g)' = IF g = h /\ pc'[t] = "leased" THEN Leases(g) \cup {t} ELSE Leases(g)
    BY <1>4, <2>1 DEF Acquire, Goto, request, Leases, IInv, TypeOK
  <2>4. CASE pc'[t] # "leased"
    BY <2>2, <2>3, <2>4, StutterStep
  <2>5. CASE pc'[t] = "leased"
    <3>1. ~closing[h]
      BY <1>4, <2>1, <2>5 DEF Acquire, Goto, IInv, TypeOK
    <3>2. ~taken[h] /\ t \in ArcHolders(h)
      BY <1>4, <2>1, <2>2, <3>1 DEF IInv, ClosedInv, Acquire, ArcHolders
    <3>3. moved[h] = 0
      BY <2>2, <3>2 DEF IInv, MovedInv, GivenUp, Held
    <3>4. t \notin Leases(h)
      BY <1>4 DEF Acquire, Leases
    <3>5. Users' = [Users EXCEPT ![h] = @ \cup {t}]
      BY <2>2, <2>3, <2>5 DEF Users, Fh
    <3>6. Contract!Begin(t, h)
      BY <2>1, <2>2, <3>3, <3>4, <3>5 DEF Contract!Begin, Users
    <3> QED
      BY <2>2, <3>6 DEF Contract!Next
  <2> QED
    BY <2>4, <2>5
<1>5. ASSUME NEW t \in Threads, DropLease(t)
      PROVE  Contract!Next
  <2>1. PICK h \in Issued : h = fh[t]
    BY <1>5 DEF IInv, BusyInv, DropLease
  <2>2. Issued' = Issued /\ moved' = moved /\ h \in Fh /\ t \in Leases(h)
    BY <1>5, <2>1 DEF DropLease, Issued, Leases
  <2>3. \A g \in Fh : Leases(g)' = IF g = h THEN Leases(g) \ {t} ELSE Leases(g)
    BY <1>5, <2>1 DEF DropLease, Goto, request, Leases, IInv, TypeOK
  <2>4. Users' = [Users EXCEPT ![h] = @ \ {t}]
    BY <2>2, <2>3 DEF Users, Fh
  <2>5. Contract!End(t, h)
    BY <2>2, <2>4 DEF Contract!End, Users
  <2> QED
    BY <2>2, <2>5 DEF Contract!Next
<1>6. ASSUME NEW t \in Threads, DropArc(t) \/ Take(t)
      PROVE  Contract!Next \/ UNCHANGED Contract!vars
  <2>1. PICK h \in Issued : h = fh[t]
    BY <1>6 DEF IInv, BusyInv, DropArc, Take
  <2>2. Issued' = Issued /\ h \in Fh /\ t \in ArcHolders(h)
    BY <1>6, <2>1 DEF DropArc, Take, Issued, ArcHolders
  <2>3. \A g \in Fh : Leases(g)' = Leases(g)
    BY <1>6 DEF DropArc, Take, Goto, request, Leases, IInv, TypeOK
  <2>4. CASE moved' = moved
    BY <2>2, <2>3, <2>4, StutterStep
  <2>5. CASE moved' # moved
    \* both the last Arc's drop and the take find an undisposed payload that
    \* nobody is using
    <3>1. moved' = [moved EXCEPT ![h] = @ + 1]
      BY <1>6, <2>1, <2>5 DEF DropArc, Take
    <3>2. moved[h] = 0 /\ Leases(h) = {}
      <4>1. CASE DropArc(t)
        <5>1. ~taken[h] /\ ArcHolders(h) = {t} /\ pc[t] = "unref"
          BY <2>1, <2>5, <4>1 DEF DropArc
        <5>2. moved[h] = 0
          BY <2>2, <5>1 DEF IInv, MovedInv, GivenUp, Held
        <5>3. Leases(h) \subseteq ArcHolders(h) \ {t}
          BY <5>1 DEF Leases, ArcHolders
        <5> QED
          BY <5>1, <5>2, <5>3
      <4>2. CASE Take(t)
        <5>1. taken[h] /\ Taking(h)
          BY <2>1, <4>2 DEF Take, Taking, IInv, ClosedInv
        <5>2. moved[h] = 0
          BY <2>2, <5>1 DEF IInv, MovedInv, GivenUp, Held
        <5>3. Leases(h) = {}
          BY <2>2, <5>1 DEF IInv, ClosedInv
        <5> QED
          BY <5>2, <5>3
      <4> QED
        BY <1>6, <4>1, <4>2
    <3>3. moved' = [moved EXCEPT ![h] = 1]
      BY <2>2, <3>1, <3>2 DEF IInv, TypeOK
    <3>4. Users' = Users
      BY <2>3 DEF Users, Fh
    <3>5. Contract!Consume(h)
      BY <2>1, <2>2, <3>2, <3>3, <3>4 DEF Contract!Consume, Users
    <3> QED
      BY <2>2, <3>5 DEF Contract!Next
  <2> QED
    BY <2>4, <2>5
<1>7. ASSUME NEW t \in Threads,
             LeaseNode(t) \/ Consume(t) \/ Close(t) \/ Wake(t) \/ SpuriousWakeup(t)
      PROVE  UNCHANGED Contract!vars
  <2>1. Issued' = Issued /\ moved' = moved
    BY <1>7 DEF LeaseNode, Consume, Close, Wake, SpuriousWakeup, TestDrained, record,
       request, Issued
  <2>2. \A h \in Fh : Leases(h)' = Leases(h)
    BY <1>7 DEF LeaseNode, Consume, Close, Wake, SpuriousWakeup, TestDrained, record,
       request, Leases, Goto, IInv, TypeOK
  <2> QED
    BY <2>1, <2>2, StutterStep
<1> QED
  BY <1>1, <1>2, <1>3, <1>4, <1>5, <1>6, <1>7 DEF Next, Step

\* The lease protocol implements the contract of HandleContract: a handle is
\* given up once, and only while no callback uses it.
THEOREM Refinement == Spec => ImplementsContract
<1>1. Init => Contract!Init
  <2> SUFFICES ASSUME Init PROVE Contract!Init
    OBVIOUS
  <2>1. Issued = {}
    BY MaxFhNat DEF Init, Issued, Fh
  <2>2. \A h \in Fh : Leases(h) = {}
    BY DEF Init, Leases
  <2> QED
    BY <2>1, <2>2 DEF Init, Contract!Init
<1> QED
  BY <1>1, Invariance, ContractStep, PTL DEF Spec, ImplementsContract, Contract!Spec
=============================================================================
