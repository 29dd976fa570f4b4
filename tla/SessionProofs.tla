--------------------------- MODULE SessionProofs ---------------------------
(***************************************************************************)
(* session.rs, for any workers, capabilities, pool limit and requests: the *)
(* life of a Session, and the shims that answer its requests.              *)
(***************************************************************************)
EXTENDS Session, Shims, FiniteSetTheorems, TLAPS

\* Types, as far as the argument needs them.
Logs == [init : Nat, destroy : Nat, frees : Nat, stale : BOOLEAN]
LogTyped == log \in Logs

\* What is allocated in each place of the program.
Allocated ==
  /\ app \in {"start", "idle", "loop", "dropping", "gone"}
  /\ app = "start" => session = "none" /\ runtime = "none" /\ log.frees = 0
  /\ app \in {"idle", "loop"} => session = "live" /\ runtime = "live" /\ log.frees = 0
  /\ app = "dropping" => session = "freed" /\ runtime = "live" /\ log.frees = 0
  /\ app = "gone" => /\ session \in {"none", "freed"}
                     /\ \/ runtime = "none" /\ log.frees = 0
                        \/ runtime = "freed" /\ log.frees = 1

\* Handlers, loop configuration and workers are there only inside the loop.
LoopOnly == app # "loop" => ~handlers /\ ~loop_config /\ busy = {}

\* A mount the kernel has is one the Session knows of, until it is dropped.
MountKnown ==
  /\ kmounted # "none" => mounted
  /\ app \in {"start", "dropping", "gone"} => kmounted = "none"

\* libfuse's two flags are the record of the calls to init and destroy: whether
\* the last init was followed by a destroy, and whether there ever was one.  The
\* drop pays the destroy that is due, but for a session that had one before.
Paired ==
  /\ kmounted = "up" => got_init
  /\ app = "start" => ~got_init
  /\ app \in {"start", "idle", "loop"} =>
       /\ log.init = (IF got_init THEN log.destroy + 1 ELSE log.destroy)
       /\ got_destroy <=> log.destroy > 0
  /\ log.init = log.destroy \/ log.init = log.destroy + 1
  /\ app \in {"dropping", "gone"} => log.init = log.destroy \/ log.destroy > 0

SessionInv ==
  LogTyped /\ Allocated /\ LoopOnly /\ MountKnown /\ Paired /\ NoStaleUse /\ WantCapable
-----------------------------------------------------------------------------

\* What the history becomes when init_shim is called, field by field.
LEMMA InitLogged ==
  ASSUME NEW l \in Logs, NEW m, m = [l EXCEPT !.init = @ + 1, !.stale = FALSE]
  PROVE  m \in Logs /\ m.init = l.init + 1 /\ m.destroy = l.destroy /\ m.frees = l.frees /\ ~m.stale
<1>1. l.init + 1 \in Nat
  BY DEF Logs
<1>2. m \in Logs
  BY <1>1 DEF Logs
<1>3. m.init = l.init + 1
  BY <1>1 DEF Logs
<1>4. m.destroy = l.destroy /\ m.frees = l.frees
  BY DEF Logs
<1>5. m.stale = FALSE
  BY Zenon DEF Logs
<1> QED BY <1>2, <1>3, <1>4, <1>5

\* The same when destroy_shim is.
LEMMA DestroyLogged ==
  ASSUME NEW l \in Logs, NEW m, m = [l EXCEPT !.destroy = @ + 1, !.stale = FALSE]
  PROVE  m \in Logs /\ m.destroy = l.destroy + 1 /\ m.init = l.init /\ m.frees = l.frees /\ ~m.stale
<1>1. l.destroy + 1 \in Nat
  BY DEF Logs
<1>2. m \in Logs
  BY <1>1 DEF Logs
<1>3. m.destroy = l.destroy + 1
  BY <1>1 DEF Logs
<1>4. m.init = l.init /\ m.frees = l.frees
  BY DEF Logs
<1>5. m.stale = FALSE
  BY Zenon DEF Logs
<1> QED BY <1>2, <1>3, <1>4, <1>5

\* Whatever is switched on or off, one capability after the other: what is
\* wanted stays within what the kernel is capable of.
LEMMA SwitchWithin ==
  ASSUME NEW capable, NEW want, want \subseteq capable, NEW cap, NEW enabled \in BOOLEAN
  PROVE  LET info == [capable |-> capable, want |-> want]
             new == set_enabled(info, cap, enabled)
         IN new = [capable |-> capable, want |-> new.want] /\ new.want \subseteq capable
BY DEF set_enabled

\* Runtime::init, with the filesystem's wishes after the runtime's own.
LEMMA InitWithin ==
  ASSUME NEW capable, NEW want, want \subseteq capable,
         NEW asked \in [Caps -> {"on", "off", "leave"}]
  PROVE  LET new == runtime_init([capable |-> capable, want |-> want], asked)
         IN new.want \subseteq new.capable
<1> DEFINE info == [capable |-> capable, want |-> want]
           ours == IF pool > 0 THEN set_enabled(info, "ParallelDirops", TRUE) ELSE info
<1>1. ours = [capable |-> capable, want |-> ours.want] /\ ours.want \subseteq capable
  <2>1. CASE pool > 0
    <3>1. /\ set_enabled(info, "ParallelDirops", TRUE) =
               [capable |-> capable, want |-> set_enabled(info, "ParallelDirops", TRUE).want]
          /\ set_enabled(info, "ParallelDirops", TRUE).want \subseteq capable
      BY SwitchWithin
    <3> QED BY <2>1, <3>1
  <2>2. CASE ~(pool > 0)
    BY <2>2
  <2> QED BY <2>1, <2>2
<1>2. \A c \in Caps : set_enabled(ours, c, asked[c] = "on").want \subseteq capable
  BY <1>1, SwitchWithin
<1>3. runtime_init(info, asked).capable = capable
  BY DEF runtime_init
<1>4. runtime_init(info, asked).want =
        {c \in Caps : IF asked[c] = "leave" THEN c \in ours.want
                      ELSE c \in set_enabled(ours, c, asked[c] = "on").want}
  BY DEF runtime_init
<1> HIDE DEF ours
<1>5. runtime_init(info, asked).want \subseteq capable
  BY <1>1, <1>2, <1>4
<1> QED BY <1>3, <1>5

LEMMA SessionBase == SessionInit => SessionInv
BY DEF SessionInit, SessionInv, LogTyped, Logs, Allocated, LoopOnly, MountKnown, Paired, NoStaleUse,
       WantCapable

LEMMA SessionStep == SessionInv /\ [SessionNext]_sessionVars => SessionInv'
<1> SUFFICES ASSUME SessionInv, [SessionNext]_sessionVars PROVE SessionInv'
  OBVIOUS
<1> USE DEF SessionInv, LogTyped, Allocated, LoopOnly, MountKnown, Paired, NoStaleUse, WantCapable,
            libfuseVars
<1>1. ASSUME NEW p, NEW nul \in BOOLEAN, NewRejected(p, nul) PROVE SessionInv'
  BY <1>1 DEF NewRejected
<1>2. ASSUME NEW p, NEW made \in BOOLEAN, New(p, made) PROVE SessionInv'
  BY <1>2 DEF New, Logs
<1>3. ASSUME NEW ok \in BOOLEAN, Mount(ok) PROVE SessionInv'
  BY <1>3 DEF Mount, AppCall
<1>4. ASSUME NEW outcome, Run(outcome) PROVE SessionInv'
  BY <1>4 DEF Run, AppCall
<1>5. CASE RunReturn
  BY <1>5 DEF RunReturn
<1>6. ASSUME NEW w \in Workers, NEW capable, NEW default,
             NEW asked \in [Caps -> {"on", "off", "leave"}],
             Initialize(w, capable, default, asked)
      PROVE  SessionInv'
  <2>1. WantCapable'
    BY <1>6, InitWithin DEF Initialize
  <2>2. (LogTyped /\ Allocated /\ LoopOnly /\ MountKnown /\ Paired /\ NoStaleUse)'
    <3>1. Stale = FALSE
      BY <1>6 DEF Initialize, Serving, Stale
    <3>2. /\ app = "loop" /\ log.init = log.destroy /\ log.frees = 0
          /\ log' = [log EXCEPT !.init = @ + 1, !.stale = FALSE]
      BY <1>6, <3>1 DEF Initialize, Serving
    <3>3. /\ LogTyped' /\ log'.init = log'.destroy + 1 /\ log'.destroy = log.destroy
          /\ log'.frees = 0 /\ ~log'.stale
      <4>1. log \in Logs
        OBVIOUS
      <4>2. /\ log' \in Logs /\ log'.init = log.init + 1 /\ log'.destroy = log.destroy
            /\ log'.frees = log.frees /\ ~log'.stale
        BY <3>2, <4>1, InitLogged, Zenon
      <4> QED BY <3>2, <4>2
    <3> QED BY <1>6, <3>2, <3>3 DEF Initialize
  <2> QED BY <2>1, <2>2
<1>7. ASSUME NEW w \in Workers, Begin(w) PROVE SessionInv'
  BY <1>7 DEF Begin, Logs, Serving, Stale
<1>15. ASSUME NEW w \in Workers, RefuseInit(w) PROVE SessionInv'
  BY <1>15 DEF RefuseInit, Serving
<1>8. ASSUME NEW w \in Workers, End(w) PROVE SessionInv'
  BY <1>8 DEF End, Logs, Stale
<1>9. ASSUME NEW w \in Workers, KernelDestroy(w) PROVE SessionInv'
  <2>1. Stale = FALSE
    BY <1>9 DEF KernelDestroy, Serving, Stale
  <2>2. /\ app = "loop" /\ log.init = log.destroy + 1 /\ log.frees = 0
        /\ log' = [log EXCEPT !.destroy = @ + 1, !.stale = FALSE]
    BY <1>9, <2>1 DEF KernelDestroy, Serving
  <2>3. /\ LogTyped' /\ log'.init = log'.destroy /\ log'.destroy > 0 /\ log'.destroy \in Nat
        /\ log'.frees = 0 /\ ~log'.stale
    <3>1. log \in Logs
      OBVIOUS
    <3>2. /\ log' \in Logs /\ log'.destroy = log.destroy + 1 /\ log'.init = log.init
          /\ log'.frees = log.frees /\ ~log'.stale
      BY <2>2, <3>1, DestroyLogged, Zenon
    <3>3. log.destroy \in Nat
      BY <3>1 DEF Logs
    <3> QED BY <2>2, <3>2, <3>3
  <2> QED BY <1>9, <2>2, <2>3 DEF KernelDestroy
<1>10. ASSUME NEW unmount \in BOOLEAN, Exit(unmount) PROVE SessionInv'
  BY <1>10 DEF Exit
<1>11. CASE Signal
  BY <1>11 DEF Signal, Logs
<1>12. CASE DropSession
  <2>1. CASE got_init /\ ~got_destroy
    <3>1. Stale = FALSE
      BY <1>12 DEF DropSession, Stale
    <3>2. /\ log.init = log.destroy + 1 /\ log.frees = 0
          /\ log' = [log EXCEPT !.destroy = @ + 1, !.stale = FALSE]
      BY <1>12, <2>1, <3>1 DEF DropSession
    <3>3. LogTyped' /\ log'.init = log'.destroy /\ log'.frees = 0 /\ ~log'.stale
      <4>1. log \in Logs
        OBVIOUS
      <4>2. /\ log' \in Logs /\ log'.destroy = log.destroy + 1 /\ log'.init = log.init
            /\ log'.frees = log.frees /\ ~log'.stale
        BY <3>2, <4>1, DestroyLogged, Zenon
      <4> QED BY <3>2, <4>2
    <3> QED BY <1>12, <2>1, <3>3 DEF DropSession
  <2>2. CASE ~(got_init /\ ~got_destroy)
    BY <1>12, <2>2 DEF DropSession
  <2> QED BY <2>1, <2>2
<1>13. CASE FreeRuntime
  BY <1>13 DEF FreeRuntime, Logs
<1>14. CASE UNCHANGED sessionVars
  BY <1>14 DEF sessionVars
<1> QED
  BY <1>1, <1>2, <1>3, <1>4, <1>5, <1>6, <1>7, <1>8, <1>9, <1>10, <1>11, <1>12, <1>13, <1>14,
     <1>15
  DEF SessionNext, LoopCallback

\* Every step of the program, of libfuse and of the kernel keeps the record of
\* what is allocated, mounted, and initialized.
THEOREM SessionInvariance == SessionSpec => []SessionInv
<1> QED BY SessionBase, SessionStep, PTL DEF SessionSpec

\* No callback and no signal handler uses the runtime or the session after it
\* was freed (Session::drop, run).
THEOREM SessionNoStaleUse == SessionSpec => []NoStaleUse
<1>1. SessionInv => NoStaleUse
  BY DEF SessionInv
<1> QED BY SessionInvariance, <1>1, PTL

\* The runtime and the session are freed exactly once, whatever failed, no
\* handler or loop configuration is left, and no mount but those that a later one
\* replaced; init_shim and destroy_shim alternate, and a session that init_shim
\* was called for does not end without a destroy_shim.
THEOREM SessionTornDownOnce == SessionSpec => []TornDownOnce
<1>1. SessionInv => FreedOnce
  BY DEF SessionInv, LogTyped, Logs, Allocated, LoopOnly, MountKnown, FreedOnce
<1>2. SessionInv => DestroyPaired
  BY DEF SessionInv, LogTyped, Logs, Allocated, Paired, DestroyPaired
<1>3. SessionInv => TornDownOnce
  BY <1>1, <1>2 DEF TornDownOnce
<1> QED BY SessionInvariance, <1>3, PTL

\* Runtime::init yields sets of capabilities.
LEMMA InitTyped ==
  ASSUME NEW capable \in SUBSET Caps, NEW want,
         NEW asked \in [Caps -> {"on", "off", "leave"}]
  PROVE  runtime_init([capable |-> capable, want |-> want], asked)
           \in [capable : SUBSET Caps, want : SUBSET Caps]
<1> DEFINE info == [capable |-> capable, want |-> want]
<1>1. ASSUME NEW w, w \subseteq Caps
      PROVE  [info EXCEPT !.want = w] \in [capable : SUBSET Caps, want : SUBSET Caps]
  BY <1>1
<1> QED BY <1>1 DEF runtime_init

\* Steps keep the types, given what is allocated and what is recorded.
LEMMA TypeStep ==
  ASSUME SessionTypeOK, SessionInv, SessionInv', [SessionNext]_sessionVars
  PROVE  SessionTypeOK'
<1>1. /\ app' \in {"start", "idle", "loop", "dropping", "gone"}
      /\ session' \in {"none", "live", "freed"} /\ runtime' \in {"none", "live", "freed"}
  BY DEF SessionInv, Allocated
<1>2. log'.init \in Nat /\ log'.destroy \in Nat /\ log'.frees \in Nat /\ log'.stale \in BOOLEAN
  <2>1. log' \in Logs
    BY DEF SessionInv, LogTyped
  <2> QED BY <2>1, Zenon DEF Logs
<1>3. pool' \in 0..MAX_THREADS
  <2>1. pool' = pool \/ \E p \in 0..(MAX_THREADS + 2) : validate(p) /\ pool' = p
    BY DEF SessionNext, NewRejected, New, Mount, Run, RunReturn, LoopCallback, Initialize, RefuseInit, Begin,
           KernelDestroy, End, Exit, Signal, DropSession, FreeRuntime, sessionVars
  <2> QED BY <2>1, SessionAssumption DEF SessionTypeOK, validate
<1>4. conn' \in [capable : SUBSET Caps, want : SUBSET Caps]
  <2>1. ASSUME NEW w \in Workers, NEW capable \in SUBSET Caps, NEW default \in SUBSET Caps,
               NEW asked \in [Caps -> {"on", "off", "leave"}],
               Initialize(w, capable, default, asked)
        PROVE  conn' \in [capable : SUBSET Caps, want : SUBSET Caps]
    BY <2>1, InitTyped DEF Initialize
  <2>2. CASE conn' = conn
    BY <2>2 DEF SessionTypeOK
  <2> QED
    BY <2>1, <2>2
    DEF SessionNext, NewRejected, New, Mount, Run, RunReturn, LoopCallback, RefuseInit, Begin, KernelDestroy,
        End, Exit, Signal, DropSession, FreeRuntime, sessionVars, libfuseVars
<1>5. busy' \subseteq Workers
  <2>1. busy' = busy \/ \E w \in Workers : busy' = busy \cup {w} \/ busy' = busy \ {w}
    BY DEF SessionNext, NewRejected, New, Mount, Run, RunReturn, LoopCallback, Initialize, RefuseInit, Begin,
           KernelDestroy, End, Exit, Signal, DropSession, FreeRuntime, sessionVars, libfuseVars
  <2> QED BY <2>1 DEF SessionTypeOK
<1>6. {mounted, handlers, loop_config, exited, got_init, got_destroy}' \subseteq BOOLEAN
  BY Zenon
  DEF SessionTypeOK, SessionNext, NewRejected, New, Mount, Run, RunReturn, LoopCallback,
      Initialize, RefuseInit, Begin, KernelDestroy, End, Exit, Signal, DropSession, FreeRuntime,
      sessionVars, libfuseVars
<1>7. kmounted' \in {"none", "new", "up", "refused"} /\ left' \in Nat
  <2>0. kmounted \in {"none", "new", "up", "refused"} /\ left \in Nat
    BY DEF SessionTypeOK
  <2>1. /\ kmounted' = kmounted \/ kmounted' \in {"none", "new", "up", "refused"}
        /\ left' = left \/ left' = left + 1
    BY DEF SessionNext, NewRejected, New, Mount, Run, RunReturn, LoopCallback, Initialize, RefuseInit,
           Begin, KernelDestroy, End, Exit, Signal, DropSession, FreeRuntime, sessionVars
  <2> QED BY <2>0, <2>1
<1> QED BY <1>1, <1>2, <1>3, <1>4, <1>5, <1>6, <1>7 DEF SessionTypeOK

\* The state keeps its types, and ConnInfo never wants what the kernel is not
\* capable of, whatever the runtime and the filesystem ask for in init.
THEOREM SessionWellFormed == SessionSpec => []SessionOK
<1>1. SessionInit => SessionTypeOK
  <2> SUFFICES ASSUME SessionInit PROVE SessionTypeOK
    OBVIOUS
  <2>1. {mounted, handlers, loop_config, exited, got_init, got_destroy} \subseteq BOOLEAN
    BY Zenon DEF SessionInit
  <2>2. conn \in [capable : SUBSET Caps, want : SUBSET Caps]
    BY DEF SessionInit
  <2>3. log.init = 0 /\ log.destroy = 0 /\ log.frees = 0
    BY DEF SessionInit
  <2>4. log.stale = FALSE
    BY Zenon DEF SessionInit
  <2>5. log.stale \in BOOLEAN
    BY <2>4
  <2> QED BY <2>1, <2>2, <2>3, <2>5, SessionAssumption DEF SessionInit, SessionTypeOK
<1>2. SessionTypeOK /\ SessionInv /\ SessionInv' /\ [SessionNext]_sessionVars => SessionTypeOK'
  BY TypeStep
<1>3. SessionTypeOK /\ SessionInv => SessionOK
  BY DEF SessionInv, SessionOK
<1> QED BY SessionInvariance, <1>1, <1>2, <1>3, PTL DEF SessionSpec
-----------------------------------------------------------------------------
(* The life of a request: Shims *)

\* Every reply of the table.
Tags == {"entry", "negative", "attr", "readlink", "EINVAL", "ok", "open", "buf", "write", "statfs",
         "xattr", "create", "lseek", "lock", "EOVERFLOW", "none"}

Results == [tag : ReplyKinds \cup {"panic", "data"}, len : 0..Bad]
Replies == [kind : ReplyKinds, len : 0..Bad, live : BOOLEAN]

\* The tables send these and nothing else.
LEMMA TableTags ==
  /\ \A o \in Ops : ShimTable[o] \subseteq Tags /\ ShimTable[o] \subseteq ReplyKinds
  /\ {"EINVAL", "buf", "none", "EIO", "ERANGE", "EBADF", "ENOENT", "size"} \subseteq ReplyKinds
  /\ DOMAIN ForgetShims = {"forget", "forget_multi"}
<1>1. \A table \in ShimTables : \A o \in DOMAIN table : table[o] \subseteq Tags
  <2>1. \A o \in DOMAIN NodeShims : NodeShims[o] \subseteq Tags
    BY DEF NodeShims, Tags
  <2>2. \A o \in DOMAIN NameShims : NameShims[o] \subseteq Tags
    BY DEF NameShims, Tags
  <2>3. \A o \in DOMAIN FileShims : FileShims[o] \subseteq Tags
    BY DEF FileShims, Tags
  <2>4. \A o \in DOMAIN DirShims : DirShims[o] \subseteq Tags
    BY DEF DirShims, Tags
  <2>5. \A o \in DOMAIN XattrShims : XattrShims[o] \subseteq Tags
    BY DEF XattrShims, Tags
  <2>6. \A o \in DOMAIN DataShims : DataShims[o] \subseteq Tags
    BY DEF DataShims, Tags
  <2>7. \A o \in DOMAIN ForgetShims : ForgetShims[o] \subseteq Tags
    BY DEF ForgetShims, Tags
  <2> QED BY <2>1, <2>2, <2>3, <2>4, <2>5, <2>6, <2>7 DEF ShimTables
<1>2. \A o \in Ops : ShimTable[o] = UNION {table[o] : table \in {t \in ShimTables : o \in DOMAIN t}}
  BY DEF ShimTable
<1>3. \A o \in Ops : ShimTable[o] \subseteq Tags
  BY <1>1, <1>2
<1>4. \A o \in Ops : ShimTable[o] \subseteq ReplyKinds
  BY DEF ReplyKinds
<1>5. ASSUME NEW table \in ShimTables, NEW o \in DOMAIN table PROVE table[o] \subseteq ReplyKinds
  <2>1. o \in Ops
    BY <1>5 DEF Ops
  <2>2. table[o] \subseteq ShimTable[o]
    BY <1>2, <1>5, <2>1
  <2> QED BY <1>4, <2>1, <2>2
<1>6. "EINVAL" \in ReplyKinds
  <2>1. NodeShims \in ShimTables /\ "readlink" \in DOMAIN NodeShims
        /\ "EINVAL" \in NodeShims["readlink"]
    BY DEF ShimTables, NodeShims
  <2> QED BY <1>5, <2>1
<1>7. "buf" \in ReplyKinds
  <2>1. FileShims \in ShimTables /\ "read" \in DOMAIN FileShims /\ "buf" \in FileShims["read"]
    BY DEF ShimTables, FileShims
  <2> QED BY <1>5, <2>1
<1>8. "none" \in ReplyKinds
  <2>1. ForgetShims \in ShimTables /\ "forget" \in DOMAIN ForgetShims
        /\ "none" \in ForgetShims["forget"]
    BY DEF ShimTables, ForgetShims
  <2> QED BY <1>5, <2>1
<1>9. {"EIO", "ERANGE", "EBADF", "ENOENT", "size"} \subseteq ReplyKinds
  BY DEF ReplyKinds
<1>10. DOMAIN ForgetShims = {"forget", "forget_multi"}
  BY DEF ForgetShims
<1> QED BY <1>3, <1>4, <1>6, <1>7, <1>8, <1>9, <1>10
\* What a request that was not rejected may come back with.
Returned(r) == Returns(r) \cup {[tag |-> "EBADF", len |-> 0]}

\* How far a request is, what was sent for it, and whether it has a lease.
ReqShape(r) ==
  /\ stage[r] \in {"idle", "received", "called", "returned"} => sent[r] = <<>>
  /\ stage[r] = "sent" => Len(sent[r]) = 1 /\ op[r] = "read"
  /\ stage[r] = "done" => Len(sent[r]) = 1 \/ (Len(sent[r]) = 2 /\ faulty /\ op[r] = "read")
  /\ stage[r] # "idle" => op[r] \in Ops
  /\ stage[r] \in {"called", "returned"} => arg[r] # Bad
  /\ stage[r] = "called" /\ op[r] \in FileOps => r \in leased
  /\ r \in leased => stage[r] \in {"called", "returned", "sent"} /\ op[r] \in FileOps
  /\ r \in leased /\ stage[r] # "called" => op[r] = "read"
  /\ stage[r] = "returned" => result[r] \in Returned(r)
  /\ stage[r] = "returned" /\ op[r] = "read" /\ result[r].tag = "buf" => r \in leased

\* A reply that the kernel takes, and that a read's bytes are there for.
ReplyOK(r, s) ==
  /\ s.kind = "buf" => s.len <= arg[r]
  /\ s.kind = "size" => arg[r] = 0 /\ op[r] \in {"getxattr", "listxattr"}
  /\ s.kind = "buf" /\ op[r] \in {"getxattr", "listxattr"} => arg[r] > 0
  /\ op[r] = "read" /\ s.kind = "buf" => s.live

SentOK(r) == \A n \in DOMAIN sent[r] : ReplyOK(r, sent[r][n])

\* A request that was used after its reply.
LateOK(r) ==
  r \in late => /\ sent[r] # <<>> /\ faulty
                /\ op[r] = "read" \/ (op[r] = "readdirplus" /\ result[r].tag = "buf")

ShimTyped ==
  /\ faulty \in BOOLEAN
  /\ stage \in [Reqs -> {"idle", "received", "called", "returned", "sent", "done"}]
  /\ op \in [Reqs -> Ops \cup {"none"}]
  /\ arg \in [Reqs -> 0..Bad]
  /\ result \in [Reqs -> Results]
  /\ sent \in [Reqs -> Seq(Replies)]
  /\ leased \subseteq Reqs /\ late \subseteq Reqs
  /\ payload \in {"open", "closing", "gone"}

\* The handle is gone only when nobody leases it.
PayloadOK == payload = "gone" => leased = {}

ShimInv ==
  /\ ShimTyped /\ PayloadOK
  /\ \A r \in Reqs : ReqShape(r) /\ SentOK(r) /\ LateOK(r)

\* One reply more.
LEMMA OneMore ==
  ASSUME NEW s \in Seq(Replies), NEW e \in Replies
  PROVE  /\ Append(s, e) \in Seq(Replies) /\ Len(Append(s, e)) = Len(s) + 1
         /\ Append(s, e) # <<>> /\ Len(s) \in Nat /\ (s = <<>> <=> Len(s) = 0)
         /\ \A n \in DOMAIN Append(s, e) :
              Append(s, e)[n] = e \/ (n \in DOMAIN s /\ Append(s, e)[n] = s[n])
<1> HIDE DEF Replies
<1>1. Append(s, e) \in Seq(Replies) /\ Len(Append(s, e)) = Len(s) + 1 /\ Len(s) \in Nat
  OBVIOUS
<1>2. s = <<>> <=> Len(s) = 0
  OBVIOUS
<1>3. Append(s, e) # <<>>
  BY <1>1
<1>4. \A n \in DOMAIN Append(s, e) :
        Append(s, e)[n] = e \/ (n \in DOMAIN s /\ Append(s, e)[n] = s[n])
  BY <1>1
<1> QED BY <1>1, <1>2, <1>3, <1>4

\* The bounds, and what a request may come back with.
LEMMA ReturnedTyped ==
  ASSUME ShimTyped, NEW r \in Reqs, op[r] \in Ops, arg[r] # Bad, NEW v \in Returned(r)
  PROVE  /\ v \in Results
         /\ v.tag \in {"size", "data"} => op[r] \in {"getxattr", "listxattr"}
         /\ v.tag = "panic" => v.len = 0
         /\ \/ v.tag \in {"ENOENT", "panic", "EBADF"} /\ v.len = 0
            \/ op[r] = "read" /\ v.tag = "buf"
            \/ op[r] \in {"readdir", "readdirplus"} /\ v.tag = "buf" /\ v.len <= arg[r]
            \/ op[r] \in {"getxattr", "listxattr"} /\ v.tag \in {"size", "data"}
            \/ /\ op[r] \notin {"read", "readdir", "readdirplus", "getxattr", "listxattr"}
               /\ v.tag \in ShimTable[op[r]] /\ v.len = 0
<1>0. MaxSize \in Nat /\ Bad = MaxSize + 1 /\ arg[r] \in 0..MaxSize
  BY SizeAssumption DEF Bad, ShimTyped
<1>1. CASE v \in {[tag |-> t, len |-> 0] : t \in {"ENOENT", "panic"}} \/ v = [tag |-> "EBADF", len |-> 0]
  <2>1. v.tag \in {"ENOENT", "panic", "EBADF"} /\ v.len = 0 /\ v = [tag |-> v.tag, len |-> v.len]
    BY <1>1
  <2> QED BY <1>0, <2>1, TableTags DEF Results
<1>2. CASE op[r] = "read" /\ v \in [tag : {"buf"}, len : 0..(MaxSize + 1)]
  BY <1>0, <1>2, TableTags DEF Results
<1>3. CASE op[r] \in {"readdir", "readdirplus"} /\ v \in [tag : {"buf"}, len : 0..arg[r]]
  BY <1>0, <1>3, TableTags DEF Results
<1>4. CASE op[r] \in {"getxattr", "listxattr"} /\ v \in [tag : {"size", "data"}, len : 0..(MaxSize + 1)]
  BY <1>0, <1>4, TableTags DEF Results
<1>5. CASE /\ op[r] \notin {"read", "readdir", "readdirplus", "getxattr", "listxattr"}
           /\ v \in [tag : ShimTable[op[r]], len : {0}]
  <2>1. v.tag \in ShimTable[op[r]] /\ v.len = 0 /\ v = [tag |-> v.tag, len |-> v.len]
    BY <1>5
  <2>2. v.tag \in Tags /\ v.tag \in ReplyKinds
    BY <2>1, TableTags
  <2> QED BY <1>0, <1>5, <2>1, <2>2 DEF Results, Tags
<1> QED BY <1>1, <1>2, <1>3, <1>4, <1>5 DEF Returned, Returns

\* The reply to a request that has come back.
LEMMA ReplyShape ==
  ASSUME ShimInv, NEW r \in Reqs, stage[r] = "returned"
  PROVE  LET k == ShimReply(r)[1]
             n == ShimReply(r)[2]
         IN /\ k \in ReplyKinds /\ n \in 0..Bad
            /\ k = "buf" => n <= arg[r]
            /\ k = "size" => arg[r] = 0 /\ op[r] \in {"getxattr", "listxattr"}
            /\ k = "buf" /\ op[r] \in {"getxattr", "listxattr"} => arg[r] > 0
            /\ op[r] = "read" /\ k = "buf" => r \in leased
<1> DEFINE v == result[r]
<1>1. ShimTyped /\ op[r] \in Ops /\ arg[r] # Bad /\ v \in Returned(r)
      /\ (op[r] = "read" /\ v.tag = "buf" => r \in leased)
  BY DEF ShimInv, ReqShape
<1>2. MaxSize \in Nat /\ Bad = MaxSize + 1 /\ arg[r] \in 0..MaxSize
  BY <1>1, SizeAssumption DEF Bad, ShimTyped
<1>3. /\ v \in Results
      /\ \/ v.tag \in {"ENOENT", "panic", "EBADF"} /\ v.len = 0
         \/ op[r] = "read" /\ v.tag = "buf"
         \/ op[r] \in {"readdir", "readdirplus"} /\ v.tag = "buf" /\ v.len <= arg[r]
         \/ op[r] \in {"getxattr", "listxattr"} /\ v.tag \in {"size", "data"}
         \/ /\ op[r] \notin {"read", "readdir", "readdirplus", "getxattr", "listxattr"}
            /\ v.tag \in ShimTable[op[r]] /\ v.len = 0
  BY <1>1, ReturnedTyped
<1>4. v.len \in 0..Bad
  BY <1>3 DEF Results
<1>5. CASE op[r] \in DOMAIN ForgetShims
  <2>1. ShimReply(r) = <<"none", 0>>
    BY <1>5 DEF ShimReply
  <2> QED BY <1>2, <2>1, TableTags
<1>6. CASE op[r] \notin DOMAIN ForgetShims /\ v.tag = "panic"
  <2>1. ShimReply(r) = <<"EIO", 0>>
    BY <1>2, <1>3, <1>6 DEF ShimReply
  <2> QED BY <1>2, <2>1, TableTags
<1>7. CASE op[r] \notin DOMAIN ForgetShims /\ v.tag \in {"ENOENT", "EBADF"} /\ v.len = 0
  <2>1. ShimReply(r) = <<v.tag, 0>>
    BY <1>2, <1>7 DEF ShimReply
  <2> QED BY <1>2, <1>7, <2>1, TableTags
<1>8. CASE op[r] = "read" /\ v.tag = "buf"
  <2>1. ShimReply(r) = IF v.len > arg[r] THEN <<"buf", arg[r]>> ELSE <<"buf", v.len>>
    BY <1>8, TableTags DEF ShimReply
  <2> QED BY <1>1, <1>2, <1>4, <1>8, <2>1, TableTags
<1>9. CASE op[r] \in {"readdir", "readdirplus"} /\ v.tag = "buf" /\ v.len <= arg[r]
  <2>1. ShimReply(r) = <<"buf", v.len>>
    BY <1>9, TableTags DEF ShimReply
  <2> QED BY <1>2, <1>4, <1>9, <2>1, TableTags
<1>10. CASE op[r] \in {"getxattr", "listxattr"} /\ v.tag \in {"size", "data"}
  <2>1. ShimReply(r) = reply_xattr(v, arg[r])
    BY <1>10, TableTags DEF ShimReply
  <2>2. \/ ShimReply(r) = <<"size", v.len>> /\ arg[r] = 0
        \/ ShimReply(r) \in {<<"EIO", 0>>, <<"ERANGE", 0>>}
        \/ ShimReply(r) = <<"buf", v.len>> /\ v.len <= arg[r] /\ arg[r] > 0
    BY <1>2, <1>4, <2>1 DEF reply_xattr
  <2> QED BY <1>2, <1>4, <1>10, <2>2, TableTags
<1>11. CASE /\ op[r] \notin DOMAIN ForgetShims
            /\ op[r] \notin {"read", "readdir", "readdirplus", "getxattr", "listxattr"}
            /\ v.tag \in ShimTable[op[r]] /\ v.len = 0
  <2>1. v.tag \in Tags /\ v.tag \in ReplyKinds
    BY <1>1, <1>11, TableTags
  <2>2. ShimReply(r) = <<v.tag, 0>>
    BY <1>11, <2>1 DEF ShimReply, Tags
  <2>3. v.tag # "size"
    BY <2>1 DEF Tags
  <2> QED BY <1>2, <1>11, <2>1, <2>2, <2>3
<1> QED BY <1>3, <1>5, <1>6, <1>7, <1>8, <1>9, <1>10, <1>11
\* A step leaves the requests it is not about as they are.
Untouched(u) ==
  /\ stage'[u] = stage[u] /\ op'[u] = op[u] /\ arg'[u] = arg[u] /\ result'[u] = result[u]
  /\ sent'[u] = sent[u] /\ (u \in leased' <=> u \in leased) /\ (u \in late' <=> u \in late)

LEMMA UntouchedKeeps ==
  ASSUME ShimInv, NEW u \in Reqs, Untouched(u), faulty' = faulty
  PROVE  (ReqShape(u) /\ SentOK(u) /\ LateOK(u))'
<1>1. ReqShape(u) /\ SentOK(u) /\ LateOK(u)
  BY DEF ShimInv
<1>2. Returned(u)' = Returned(u)
  BY DEF Returned, Returns, Untouched
<1>3. ReqShape(u)'
  BY <1>1, <1>2 DEF ReqShape, Untouched
<1>4. SentOK(u)'
  BY <1>1 DEF SentOK, ReplyOK, Untouched
<1>5. LateOK(u)'
  BY <1>1 DEF LateOK, Untouched
<1> QED BY <1>3, <1>4, <1>5

\* A request before its reply: nothing is sent, and it was not used.
LEMMA Unsent ==
  ASSUME ShimInv, NEW r \in Reqs, stage[r] \in {"idle", "received", "called", "returned"}
  PROVE  sent[r] = <<>> /\ r \notin late /\ (r \in leased => stage[r] \in {"called", "returned"})
BY DEF ShimInv, ReqShape, LateOK

LEMMA ReceiveKeeps ==
  ASSUME ShimInv, NEW r \in Reqs, NEW o \in Registered, NEW a \in Args(o), Receive(r, o, a)
  PROVE  ShimInv'
<1>0. ShimTyped /\ PayloadOK /\ stage[r] = "idle" /\ faulty' = faulty
  BY DEF ShimInv, Receive, Advance
<1>1. o \in Ops /\ a \in 0..Bad
  BY SizeAssumption DEF Registered, Args, Bad
<1>2. /\ stage' = [stage EXCEPT ![r] = "received"] /\ op' = [op EXCEPT ![r] = o]
      /\ arg' = [arg EXCEPT ![r] = a] /\ UNCHANGED <<result, sent, leased, payload, late>>
  BY DEF Receive, Advance
<1>3. ShimTyped' /\ PayloadOK'
  BY <1>0, <1>1, <1>2 DEF ShimTyped, PayloadOK
<1>4. sent[r] = <<>> /\ r \notin late /\ r \notin leased
  BY <1>0, Unsent
<1>5. stage'[r] = "received" /\ op'[r] = o /\ arg'[r] = a
  BY <1>0, <1>2 DEF ShimTyped
<1>6. (ReqShape(r) /\ SentOK(r) /\ LateOK(r))'
  BY <1>1, <1>2, <1>4, <1>5 DEF ReqShape, SentOK, LateOK
<1>7. \A u \in Reqs \ {r} : Untouched(u)
  BY <1>0, <1>2 DEF ShimTyped, Untouched
<1> QED BY <1>0, <1>3, <1>6, <1>7, UntouchedKeeps DEF ShimInv

\* A reply is appended to what was sent.
LEMMA SendTyped ==
  ASSUME ShimTyped, NEW r \in Reqs, NEW k \in ReplyKinds, NEW n \in 0..Bad, NEW again, Send(r, k, n, again)
  PROVE  LET e == [kind |-> k, len |-> n, live |-> payload # "gone"]
         IN /\ sent' \in [Reqs -> Seq(Replies)] /\ late' \subseteq Reqs
            /\ Len(sent'[r]) = Len(sent[r]) + 1 /\ sent'[r] # <<>>
            /\ \A m \in DOMAIN sent'[r] :
                 sent'[r][m] = e \/ (m \in DOMAIN sent[r] /\ sent'[r][m] = sent[r][m])
            /\ \A u \in Reqs \ {r} : sent'[u] = sent[u] /\ (u \in late' <=> u \in late)
            /\ r \in late' => r \in late \/ sent[r] # <<>> \/ again
            /\ e \in Replies
<1> DEFINE e == [kind |-> k, len |-> n, live |-> payload # "gone"]
<1>1. e \in Replies
  <2>1. (payload # "gone") \in BOOLEAN
    OBVIOUS
  <2> QED BY <2>1, Zenon DEF Replies
<1>2. sent[r] \in Seq(Replies) /\ sent \in [Reqs -> Seq(Replies)] /\ late \subseteq Reqs
  BY DEF ShimTyped
<1>3. sent' = [sent EXCEPT ![r] = Append(sent[r], e)]
      /\ late' = IF sent[r] # <<>> \/ again THEN late \cup {r} ELSE late
  BY DEF Send
<1> HIDE DEF e
<1>4. /\ Append(sent[r], e) \in Seq(Replies) /\ Len(Append(sent[r], e)) = Len(sent[r]) + 1
      /\ Append(sent[r], e) # <<>>
      /\ \A m \in DOMAIN Append(sent[r], e) :
           \/ Append(sent[r], e)[m] = e
           \/ m \in DOMAIN sent[r] /\ Append(sent[r], e)[m] = sent[r][m]
  BY <1>1, <1>2, OneMore
<1>5. sent'[r] = Append(sent[r], e) /\ \A u \in Reqs \ {r} : sent'[u] = sent[u]
  BY <1>2, <1>3
<1>6. sent' \in [Reqs -> Seq(Replies)]
  BY <1>2, <1>3, <1>4
<1>7. late' \subseteq Reqs /\ (\A u \in Reqs \ {r} : u \in late' <=> u \in late)
      /\ (r \in late' => r \in late \/ sent[r] # <<>> \/ again)
  BY <1>2, <1>3
<1> QED BY <1>1, <1>4, <1>5, <1>6, <1>7 DEF e

LEMMA RejectKeeps ==
  ASSUME ShimInv, NEW r \in Reqs, Reject(r)
  PROVE  ShimInv'
<1>0. /\ ShimTyped /\ PayloadOK /\ stage[r] = "received" /\ faulty' = faulty /\ op[r] \in Ops
      /\ arg[r] = Bad
  BY DEF ShimInv, Reject, Advance, ReqShape
<1>1. /\ stage' = [stage EXCEPT ![r] = "done"] /\ Send(r, "EINVAL", 0, FALSE)
      /\ UNCHANGED <<op, arg, result, leased, payload>>
  BY DEF Reject, Advance
<1>2. sent[r] = <<>> /\ r \notin late /\ r \notin leased
  BY <1>0, Unsent
<1>3. "EINVAL" \in ReplyKinds /\ 0 \in 0..Bad
  BY TableTags, SizeAssumption DEF Bad
<1> DEFINE e == [kind |-> "EINVAL", len |-> 0, live |-> payload # "gone"]
<1>4. /\ sent' \in [Reqs -> Seq(Replies)] /\ late' \subseteq Reqs
      /\ Len(sent'[r]) = Len(sent[r]) + 1 /\ sent'[r] # <<>>
      /\ \A m \in DOMAIN sent'[r] :
           sent'[r][m] = e \/ (m \in DOMAIN sent[r] /\ sent'[r][m] = sent[r][m])
      /\ \A u \in Reqs \ {r} : sent'[u] = sent[u] /\ (u \in late' <=> u \in late)
      /\ r \in late' => r \in late \/ sent[r] # <<>> \/ FALSE
  BY <1>0, <1>1, <1>3, SendTyped
<1>5. ShimTyped' /\ PayloadOK'
  BY <1>0, <1>1, <1>4 DEF ShimTyped, PayloadOK
<1>6. stage'[r] = "done" /\ Len(sent'[r]) = 1 /\ r \notin late'
  BY <1>0, <1>1, <1>2, <1>4 DEF ShimTyped
<1>7. SentOK(r)'
  <2>1. \A m \in DOMAIN sent'[r] : sent'[r][m].kind = "EINVAL"
    BY <1>2, <1>4
  <2> QED BY <2>1 DEF SentOK, ReplyOK
<1>8. (ReqShape(r) /\ LateOK(r))'
  BY <1>0, <1>1, <1>2, <1>6 DEF ReqShape, LateOK
<1>9. \A u \in Reqs \ {r} : Untouched(u)
  BY <1>0, <1>1, <1>4 DEF ShimTyped, Untouched
<1> QED BY <1>0, <1>5, <1>7, <1>8, <1>9, UntouchedKeeps DEF ShimInv

LEMMA CallKeeps ==
  ASSUME ShimInv, NEW r \in Reqs, Call(r)
  PROVE  ShimInv'
<1>0. /\ ShimTyped /\ PayloadOK /\ stage[r] = "received" /\ faulty' = faulty /\ op[r] \in Ops
      /\ arg[r] # Bad
  BY DEF ShimInv, Call, Advance, ReqShape
<1>1. sent[r] = <<>> /\ r \notin late /\ r \notin leased
  BY <1>0, Unsent
<1>2. CASE op[r] \in FileOps /\ payload # "open"
  <2> DEFINE v == [tag |-> "EBADF", len |-> 0]
  <2>1. /\ result' = [result EXCEPT ![r] = v] /\ stage' = [stage EXCEPT ![r] = "returned"]
        /\ UNCHANGED <<leased, payload, op, arg, sent, late>>
    BY <1>2 DEF Call, Advance
  <2>2. v \in Results
    BY TableTags, SizeAssumption DEF Results, Bad
  <2>3. ShimTyped' /\ PayloadOK'
    BY <1>0, <2>1, <2>2 DEF ShimTyped, PayloadOK
  <2>4. stage'[r] = "returned" /\ result'[r] = v /\ v.tag = "EBADF"
    BY <1>0, <2>1 DEF ShimTyped
  <2>5. result'[r] \in Returned(r)'
    BY <2>4 DEF Returned
  <2>6. (ReqShape(r) /\ SentOK(r) /\ LateOK(r))'
    BY <1>0, <1>1, <2>1, <2>4, <2>5 DEF ReqShape, SentOK, LateOK
  <2>7. \A u \in Reqs \ {r} : Untouched(u)
    BY <1>0, <2>1 DEF ShimTyped, Untouched
  <2> QED BY <1>0, <2>3, <2>6, <2>7, UntouchedKeeps DEF ShimInv
<1>3. CASE ~(op[r] \in FileOps /\ payload # "open")
  <2>1. /\ leased' = IF op[r] \in FileOps THEN leased \cup {r} ELSE leased
        /\ payload' = IF op[r] = "release" THEN "closing" ELSE payload
        /\ stage' = [stage EXCEPT ![r] = "called"]
        /\ UNCHANGED <<result, op, arg, sent, late>>
    BY <1>3 DEF Call, Advance
  <2>2. ShimTyped'
    BY <1>0, <2>1 DEF ShimTyped
  <2>3. PayloadOK'
    BY <1>0, <1>3, <2>1 DEF PayloadOK, FileOps
  <2>4. stage'[r] = "called"
    BY <1>0, <2>1 DEF ShimTyped
  <2>5. (ReqShape(r) /\ SentOK(r) /\ LateOK(r))'
    BY <1>0, <1>1, <2>1, <2>4 DEF ReqShape, SentOK, LateOK
  <2>6. \A u \in Reqs \ {r} : Untouched(u)
    BY <1>0, <2>1 DEF ShimTyped, Untouched
  <2> QED BY <1>0, <2>2, <2>3, <2>5, <2>6, UntouchedKeeps DEF ShimInv
<1> QED BY <1>2, <1>3

LEMMA ReturnKeeps ==
  ASSUME ShimInv, NEW r \in Reqs, Return(r)
  PROVE  ShimInv'
<1>0. /\ ShimTyped /\ PayloadOK /\ stage[r] = "called" /\ faulty' = faulty /\ op[r] \in Ops
      /\ arg[r] # Bad /\ (op[r] \in FileOps => r \in leased) /\ (r \in leased => op[r] \in FileOps)
  BY DEF ShimInv, Return, Advance, ReqShape
<1>1. sent[r] = <<>> /\ r \notin late
  BY <1>0, Unsent
<1>2. PICK v \in Returns(r) : result' = [result EXCEPT ![r] = v] /\ leased' = Unlease(r, v.tag)
  BY DEF Return
<1>3. /\ stage' = [stage EXCEPT ![r] = "returned"]
      /\ payload' = IF op[r] = "release" THEN "gone" ELSE payload
      /\ (op[r] = "release" => leased = {})
      /\ UNCHANGED <<op, arg, sent, late>>
  BY DEF Return, Advance
<1>4. v \in Returned(r)
  BY <1>2 DEF Returned
<1>5. v \in Results
  BY <1>0, <1>4, ReturnedTyped
<1>6. ShimTyped'
  BY <1>0, <1>2, <1>3, <1>5 DEF ShimTyped, Unlease
<1>7. PayloadOK'
  BY <1>0, <1>2, <1>3 DEF PayloadOK, Unlease
<1>8. stage'[r] = "returned" /\ result'[r] = v
  BY <1>0, <1>2, <1>3 DEF ShimTyped
<1>9. result'[r] \in Returned(r)'
  BY <1>3, <1>4, <1>8 DEF Returned, Returns
<1>10. r \in leased' <=> r \in leased /\ op[r] = "read" /\ v.tag # "panic"
  BY <1>0, <1>2 DEF Unlease, FileOps
<1>11. op[r] = "read" /\ v.tag = "buf" => r \in leased'
  BY <1>0, <1>10 DEF FileOps
<1>12. (ReqShape(r) /\ SentOK(r) /\ LateOK(r))'
  BY <1>0, <1>1, <1>3, <1>8, <1>9, <1>10, <1>11 DEF ReqShape, SentOK, LateOK
<1>13. \A u \in Reqs \ {r} : Untouched(u)
  BY <1>0, <1>2, <1>3 DEF ShimTyped, Untouched, Unlease
<1> QED BY <1>0, <1>6, <1>7, <1>12, <1>13, UntouchedKeeps DEF ShimInv
\* The reply: read has its lease, so the bytes are there.
LEMMA AnswerKeeps ==
  ASSUME ShimInv, NEW r \in Reqs, NEW delivered \in BOOLEAN, Answer(r, delivered)
  PROVE  ShimInv'
<1> DEFINE k == ShimReply(r)[1]
           n == ShimReply(r)[2]
           again == op[r] = "readdirplus" /\ result[r].tag = "buf" /\ ~delivered
           e == [kind |-> k, len |-> n, live |-> payload # "gone"]
<1>0. /\ ShimTyped /\ PayloadOK /\ stage[r] = "returned" /\ faulty' = faulty /\ op[r] \in Ops
      /\ (delivered \/ faulty) /\ (r \in leased => op[r] = "read" /\ op[r] \in FileOps)
  BY DEF ShimInv, Answer, Advance, ReqShape
<1>1. sent[r] = <<>> /\ r \notin late
  BY <1>0, Unsent
<1>2. /\ stage' = [stage EXCEPT ![r] = IF r \in leased THEN "sent" ELSE "done"]
      /\ Send(r, k, n, again) /\ UNCHANGED <<op, arg, result, leased, payload>>
  BY DEF Answer, Advance
<1>3. /\ k \in ReplyKinds /\ n \in 0..Bad
      /\ k = "buf" => n <= arg[r]
      /\ k = "size" => arg[r] = 0 /\ op[r] \in {"getxattr", "listxattr"}
      /\ k = "buf" /\ op[r] \in {"getxattr", "listxattr"} => arg[r] > 0
      /\ op[r] = "read" /\ k = "buf" => r \in leased
  BY <1>0, ReplyShape
<1> HIDE DEF k, n, again
<1>4. /\ sent' \in [Reqs -> Seq(Replies)] /\ late' \subseteq Reqs
      /\ Len(sent'[r]) = Len(sent[r]) + 1 /\ sent'[r] # <<>>
      /\ \A m \in DOMAIN sent'[r] :
           sent'[r][m] = e \/ (m \in DOMAIN sent[r] /\ sent'[r][m] = sent[r][m])
      /\ \A u \in Reqs \ {r} : sent'[u] = sent[u] /\ (u \in late' <=> u \in late)
      /\ r \in late' => r \in late \/ sent[r] # <<>> \/ again
  BY <1>0, <1>2, <1>3, SendTyped
<1>5. ShimTyped' /\ PayloadOK'
  BY <1>0, <1>2, <1>4 DEF ShimTyped, PayloadOK
<1>6. stage'[r] = (IF r \in leased THEN "sent" ELSE "done") /\ Len(sent'[r]) = 1
  BY <1>0, <1>1, <1>2, <1>4 DEF ShimTyped
<1>7. SentOK(r)'
  <2>1. \A m \in DOMAIN sent'[r] : sent'[r][m] = e
    BY <1>1, <1>4
  <2>2. e.kind = k /\ e.len = n
    OBVIOUS
  <2>3. op[r] = "read" /\ k = "buf" => e.live
    <3>1. r \in leased => payload # "gone"
      BY <1>0 DEF PayloadOK
    <3>2. e.live <=> payload # "gone"
      BY Zenon
    <3> QED BY <1>3, <3>1, <3>2
  <2>4. ReplyOK(r, e)
    BY <1>3, <2>2, <2>3, Zenon DEF ReplyOK
  <2> HIDE DEF e
  <2> QED BY <1>2, <2>1, <2>4 DEF SentOK, ReplyOK
<1>8. ReqShape(r)'
  BY <1>0, <1>2, <1>6 DEF ReqShape
<1>9. LateOK(r)'
  BY <1>0, <1>1, <1>2, <1>4 DEF LateOK, again
<1>10. \A u \in Reqs \ {r} : Untouched(u)
  BY <1>0, <1>2, <1>4 DEF ShimTyped, Untouched
<1> QED BY <1>0, <1>5, <1>7, <1>8, <1>9, <1>10, UntouchedKeeps DEF ShimInv

\* The lease of a read goes after its reply; a panic there replies again.
LEMMA DropLeasesKeeps ==
  ASSUME ShimInv, NEW r \in Reqs, DropLeases(r)
  PROVE  ShimInv'
<1> DEFINE e == [kind |-> "EIO", len |-> 0, live |-> payload # "gone"]
<1>0. /\ ShimTyped /\ PayloadOK /\ stage[r] = "sent" /\ faulty' = faulty /\ op[r] \in Ops
      /\ op[r] = "read" /\ Len(sent[r]) = 1 /\ SentOK(r) /\ LateOK(r)
  BY DEF ShimInv, DropLeases, Advance, ReqShape
<1>1. /\ stage' = [stage EXCEPT ![r] = "done"] /\ leased' = leased \ {r}
      /\ UNCHANGED <<op, arg, result, payload>>
      /\ UNCHANGED <<sent, late>> \/ (faulty /\ Send(r, "EIO", 0, FALSE))
  BY DEF DropLeases, Advance
<1>2. PayloadOK'
  BY <1>0, <1>1 DEF PayloadOK
<1>3. stage'[r] = "done" /\ r \notin leased' /\ sent[r] # <<>>
  <2>1. Len(sent[r]) = 1 /\ sent[r] \in Seq(Replies)
    BY <1>0 DEF ShimTyped
  <2>2. sent[r] # <<>>
    <3> SUFFICES ASSUME sent[r] = <<>> PROVE FALSE
      OBVIOUS
    <3>1. Len(sent[r]) = Len(<<>>)
      OBVIOUS
    <3>2. Len(<<>>) = 0
      OBVIOUS
    <3>3. Len(sent[r]) = 0
      BY <3>1, <3>2, Zenon
    <3> QED BY <2>1, <3>3
  <2> QED BY <1>0, <1>1, <2>2 DEF ShimTyped
<1>4. CASE UNCHANGED <<sent, late>>
  <2>1. ShimTyped'
    BY <1>0, <1>1, <1>4 DEF ShimTyped
  <2>2. (ReqShape(r) /\ SentOK(r) /\ LateOK(r))'
    BY <1>0, <1>1, <1>3, <1>4 DEF ReqShape, SentOK, ReplyOK, LateOK
  <2>3. \A u \in Reqs \ {r} : Untouched(u)
    BY <1>0, <1>1, <1>4 DEF ShimTyped, Untouched
  <2> QED BY <1>0, <1>2, <2>1, <2>2, <2>3, UntouchedKeeps DEF ShimInv
<1>5. CASE faulty /\ Send(r, "EIO", 0, FALSE)
  <2>1. "EIO" \in ReplyKinds /\ 0 \in 0..Bad
    BY TableTags, SizeAssumption DEF Bad
  <2>2. /\ sent' \in [Reqs -> Seq(Replies)] /\ late' \subseteq Reqs
        /\ Len(sent'[r]) = Len(sent[r]) + 1 /\ sent'[r] # <<>>
        /\ \A m \in DOMAIN sent'[r] :
             sent'[r][m] = e \/ (m \in DOMAIN sent[r] /\ sent'[r][m] = sent[r][m])
        /\ \A u \in Reqs \ {r} : sent'[u] = sent[u] /\ (u \in late' <=> u \in late)
    BY <1>0, <1>5, <2>1, SendTyped
  <2>3. ShimTyped'
    BY <1>0, <1>1, <2>2 DEF ShimTyped
  <2>4. SentOK(r)'
    <3>1. \A m \in DOMAIN sent'[r] :
            sent'[r][m].kind = "EIO" \/ (m \in DOMAIN sent[r] /\ sent'[r][m] = sent[r][m])
      BY <2>2
    <3> QED BY <1>0, <1>1, <3>1 DEF SentOK, ReplyOK
  <2>5. (ReqShape(r) /\ LateOK(r))'
    BY <1>0, <1>1, <1>3, <1>5, <2>2 DEF ReqShape, LateOK
  <2>6. \A u \in Reqs \ {r} : Untouched(u)
    BY <1>0, <1>1, <2>2 DEF ShimTyped, Untouched
  <2> QED BY <1>0, <1>2, <2>3, <2>4, <2>5, <2>6, UntouchedKeeps DEF ShimInv
<1> QED BY <1>1, <1>4, <1>5

\* Every step of every request keeps the record of all of them.
THEOREM ShimInvariance == ShimSpec => []ShimInv
<1>1. ShimInit => ShimInv
  <2> SUFFICES ASSUME ShimInit PROVE ShimInv
    OBVIOUS
  <2>1. NoResult \in Results /\ <<>> \in Seq(Replies) /\ 0 \in 0..Bad
    BY TableTags, SizeAssumption DEF NoResult, Results, Bad
  <2>2. ShimTyped /\ PayloadOK
    BY <2>1 DEF ShimInit, ShimTyped, PayloadOK
  <2> QED BY <2>2 DEF ShimInit, ShimInv, ReqShape, SentOK, LateOK
<1>2. ShimInv /\ [ShimNext]_shimVars => ShimInv'
  <2> SUFFICES ASSUME ShimInv, [ShimNext]_shimVars PROVE ShimInv'
    OBVIOUS
  <2>1. CASE UNCHANGED shimVars
    <3>1. \A u \in Reqs : Untouched(u)
      BY <2>1 DEF shimVars, Untouched
    <3>2. ShimTyped' /\ PayloadOK' /\ faulty' = faulty
      BY <2>1 DEF shimVars, ShimInv, ShimTyped, PayloadOK
    <3> QED BY <3>1, <3>2, UntouchedKeeps DEF ShimInv
  <2> QED
    BY <2>1, ReceiveKeeps, RejectKeeps, CallKeeps, ReturnKeeps, AnswerKeeps, DropLeasesKeeps
    DEF ShimNext, ReqNext
<1> QED BY <1>1, <1>2, PTL DEF ShimSpec

\* For any number of requests in any order: each is answered exactly once and
\* its fuse_req_t is not used after that, but for the two cases the property
\* names, whatever the filesystem returns and whatever is not delivered.
THEOREM ReqProtocolHolds == ShimSpec => []ReqProtocol
<1>1. ShimInv => ReqProtocol
  <2> SUFFICES ASSUME ShimInv PROVE ReqProtocol
    OBVIOUS
  <2>1. ShimTypeOK
    <3>1. \A r \in Reqs : sent[r] \in Seq(Replies)
      BY DEF ShimInv, ShimTyped
    <3>2. \A r \in Reqs : \A n \in DOMAIN sent[r] : sent[r][n] \in Replies
      <4> HIDE DEF Replies
      <4> QED BY <3>1
    <3> QED BY <3>2 DEF ShimInv, ShimTyped, ShimTypeOK, Replies
  <2>2. AnsweredOnce
    <3> SUFFICES ASSUME NEW r \in Reqs
                 PROVE  /\ Len(sent[r]) <= 1 \/ (faulty /\ op[r] = "read")
                        /\ stage[r] = "done" => Len(sent[r]) > 0
      BY DEF AnsweredOnce
    <3>1. ReqShape(r)
          /\ stage[r] \in {"idle", "received", "called", "returned", "sent", "done"}
      BY DEF ShimInv, ShimTyped
    <3>2. Len(<<>>) = 0
      OBVIOUS
    <3>3. CASE stage[r] \in {"idle", "received", "called", "returned"}
      BY <3>1, <3>2, <3>3 DEF ReqShape
    <3>4. CASE stage[r] \in {"sent", "done"}
      <4>1. Len(sent[r]) = 1 \/ (Len(sent[r]) = 2 /\ faulty /\ op[r] = "read")
        BY <3>1, <3>4, Zenon DEF ReqShape
      <4>2. CASE Len(sent[r]) = 1
        BY <4>2
      <4>3. CASE Len(sent[r]) = 2 /\ faulty /\ op[r] = "read"
        BY <4>3
      <4> QED BY <4>1, <4>2, <4>3
    <3> QED BY <3>1, <3>3, <3>4
  <2>3. ReqInFlight
    BY DEF ShimInv, ShimTyped, LateOK, ReqInFlight
  <2> QED BY <2>1, <2>2, <2>3 DEF ReqProtocol
<1> QED BY <1>1, ShimInvariance, PTL

\* The kernel is sent no more than it asked for, for every size and every
\* length the filesystem comes up with, and a read's bytes are there when they
\* are sent, although a release waits for them.
THEOREM ReplyRightHolds == ShimSpec => []ReplyRight
<1>1. ShimInv => ReplyRight
  <2> SUFFICES ASSUME ShimInv PROVE ReplyRight
    OBVIOUS
  <2>1. \A r \in Reqs : \A n \in DOMAIN sent[r] : ReplyOK(r, sent[r][n])
    BY DEF ShimInv, SentOK
  <2>2. ReplyFits
    BY <2>1 DEF ReplyFits, ReplyOK
  <2>3. BytesLive
    BY <2>1 DEF BytesLive, ReplyOK
  <2> QED BY <2>2, <2>3 DEF ReplyRight
<1> QED BY <1>1, ShimInvariance, PTL

============================================================================
