------------------------------ MODULE Session ------------------------------
(***************************************************************************)
(* The life of a Session (session.rs): new_with_config, mount, run and     *)
(* drop, called by the program in any order its types allow, while         *)
(* libfuse's loop calls back into the runtime from its worker threads.     *)
(*                                                                         *)
(* What is at stake is a raw pointer: libfuse gets the runtime as its      *)
(* userdata, and the Session frees it.                                     *)
(***************************************************************************)
EXTENDS Naturals, FiniteSets

CONSTANTS
  Workers,      \* libfuse's threads
  Caps,         \* connection capabilities, "ParallelDirops" among them
  MAX_THREADS,  \* ThreadPoolConfig::MAX_THREADS
  MaxRuns       \* bound: how often the program mounts or runs

ASSUME SessionAssumption ==
  /\ MAX_THREADS \in Nat \ {0} /\ MaxRuns \in Nat
  /\ "ParallelDirops" \in Caps

VARIABLES
  app,         \* where the program is: "start", "idle", "loop", "dropping", "gone"
  pool,        \* config.threading: 0 for SingleThreaded, or max_threads
  session,     \* the fuse_session: "none", "live", "freed"
  runtime,     \* the boxed Runtime: "none", "live", "freed"
  mounted,     \* Session.mounted
  kmounted,    \* the mount the session refers to, in the kernel: "none", "new", "up"
               \* when its INIT was taken, "refused" when it was not
  left,        \* how many more the kernel has, which a later mount() replaced
  handlers,    \* the signal handlers, which keep a pointer to the session, are set
  loop_config, \* a fuse_loop_config is allocated
  exited,      \* fuse_session_exited
  got_init, got_destroy,   \* of the fuse_session
  conn,        \* fuse_conn_info: [capable, want]
  busy,        \* the workers inside a callback
  runs,        \* how often the program called mount or run
  log          \* history: [init, destroy, frees: counts, stale: a callback or a
               \* signal used what was freed]

sessionVars == <<app, pool, session, runtime, mounted, kmounted, left, handlers, loop_config,
                 exited, got_init, got_destroy, conn, busy, runs, log>>
libfuseVars == <<exited, got_init, got_destroy, conn, busy>>

SessionTypeOK ==
  /\ app \in {"start", "idle", "loop", "dropping", "gone"}
  /\ pool \in 0..MAX_THREADS
  /\ session \in {"none", "live", "freed"} /\ runtime \in {"none", "live", "freed"}
  /\ {mounted, handlers, loop_config, exited, got_init, got_destroy} \subseteq BOOLEAN
  /\ kmounted \in {"none", "new", "up", "refused"} /\ left \in Nat
  /\ conn \in [capable : SUBSET Caps, want : SUBSET Caps]
  /\ busy \subseteq Workers
  /\ log.init \in Nat /\ log.destroy \in Nat /\ log.frees \in Nat /\ log.stale \in BOOLEAN

SessionInit ==
  /\ app = "start" /\ pool = 0 /\ session = "none" /\ runtime = "none"
  /\ mounted = FALSE /\ kmounted = "none" /\ left = 0 /\ handlers = FALSE /\ loop_config = FALSE
  /\ exited = FALSE /\ got_init = FALSE /\ got_destroy = FALSE
  /\ conn = [capable |-> {}, want |-> {}]
  /\ busy = {} /\ runs = 0
  /\ log = [init |-> 0, destroy |-> 0, frees |-> 0, stale |-> FALSE]

\* A callback follows libfuse's pointers to the session and to the runtime.
Stale == log.stale \/ runtime # "live" \/ session # "live"

-----------------------------------------------------------------------------
(* Session::new_with_config *)

validate(p) == p <= MAX_THREADS

\* An invalid pool, or an option with a NUL byte (a panic): nothing was allocated.
NewRejected(p, nul) ==
  /\ app = "start" /\ (nul \/ ~validate(p))
  /\ app' = "gone"
  /\ UNCHANGED <<pool, session, runtime, mounted, kmounted, left, handlers, loop_config, runs, log,
                 libfuseVars>>

\* The runtime is boxed, and handed to fuse_session_new, which may return null.
New(p, made) ==
  /\ app = "start" /\ validate(p)
  /\ pool' = p
  /\ session' = IF made THEN "live" ELSE "none"
  /\ runtime' = IF made THEN "live" ELSE "freed"
  /\ log' = IF made THEN log ELSE [log EXCEPT !.frees = @ + 1]
  /\ app' = IF made THEN "idle" ELSE "gone"
  /\ UNCHANGED <<mounted, kmounted, left, handlers, loop_config, runs, libfuseVars>>

-----------------------------------------------------------------------------
(* Session::mount and Session::run *)

AppCall == app = "idle" /\ runs < MaxRuns /\ runs' = runs + 1

\* A mount point with a NUL byte, or an error of fuse_session_mount, changes
\* nothing.  Otherwise the session has the new mount's descriptor and path in
\* place of the ones it had.
Mount(ok) ==
  /\ AppCall
  /\ mounted' = (mounted \/ ok)
  /\ kmounted' = IF ok THEN "new" ELSE kmounted
  /\ left' = IF ok /\ kmounted # "none" THEN left + 1 ELSE left
  /\ UNCHANGED <<app, pool, session, runtime, handlers, loop_config, log, libfuseVars>>

\* run(), up to the loop: fuse_set_signal_handlers fails, LoopConfig::new
\* fails, or the loop starts.
Run(outcome) ==
  /\ AppCall
  /\ outcome = "no_config" => pool > 0
  /\ app' = IF outcome = "loops" THEN "loop" ELSE "idle"
  /\ handlers' = (outcome = "loops")
  /\ loop_config' = (outcome = "loops" /\ pool > 0)
  /\ UNCHANGED <<pool, session, runtime, mounted, kmounted, left, log, libfuseVars>>

\* The loop returns, with any code, once its workers are joined: the config is
\* dropped and the handlers are removed.
RunReturn ==
  /\ app = "loop" /\ exited /\ busy = {}
  /\ app' = "idle"
  /\ loop_config' = FALSE
  /\ handlers' = FALSE
  /\ exited' \in BOOLEAN                  \* not every libfuse resets the session
  /\ UNCHANGED <<pool, session, runtime, mounted, kmounted, left, got_init, got_destroy, conn,
                 busy, runs, log>>

-----------------------------------------------------------------------------
(* The loop and its callbacks *)

\* Mutant of set_enabled: what the kernel supports is not looked at.
set_enabled_unchecked(info, cap, enabled) ==
  [info EXCEPT !.want = IF enabled THEN @ \cup {cap} ELSE @ \ {cap}]

\* ConnInfo::set_enabled
set_enabled(info, cap, enabled) ==
  IF enabled /\ cap \notin info.capable THEN info
  ELSE [info EXCEPT !.want = IF enabled THEN @ \cup {cap} ELSE @ \ {cap}]

\* Runtime::init: parallel directory operations for a pool, then whatever the
\* filesystem asks for ("leave" for a capability it does not mention).
runtime_init(info, asked) ==
  LET ours == IF pool > 0 THEN set_enabled(info, "ParallelDirops", TRUE) ELSE info
  IN [info EXCEPT !.want =
        {c \in Caps : IF asked[c] = "leave" THEN c \in ours.want
                      ELSE c \in set_enabled(ours, c, asked[c] = "on").want}]

Serving(w) ==
  /\ app = "loop" /\ ~exited
  /\ w \notin busy /\ Cardinality(busy) < (IF pool > 0 THEN pool ELSE 1)

\* INIT is the first request of a mount: init_shim, which applies what was asked
\* for also when the filesystem's method panicked.  libfuse takes it unless it
\* has taken one before, and a DESTROY makes it forget that.
Initialize(w, capable, default, asked) ==
  /\ Serving(w) /\ kmounted = "new" /\ ~got_init
  /\ default \subseteq capable
  /\ conn' = runtime_init([capable |-> capable, want |-> default], asked)
  /\ got_init' = TRUE
  /\ kmounted' = "up"
  /\ log' = [log EXCEPT !.init = @ + 1, !.stale = Stale]
  /\ UNCHANGED <<app, pool, session, runtime, mounted, left, handlers, loop_config, exited,
                 got_destroy, busy, runs>>

\* The INIT of a second mount meanwhile: EIO, and no callback.
RefuseInit(w) ==
  /\ Serving(w) /\ kmounted = "new" /\ got_init
  /\ kmounted' = "refused"
  /\ UNCHANGED <<app, pool, session, runtime, mounted, left, handlers, loop_config, libfuseVars,
                 runs, log>>

Begin(w) ==
  /\ Serving(w) /\ kmounted = "up"
  /\ busy' = busy \cup {w}
  /\ log' = [log EXCEPT !.stale = Stale]
  /\ UNCHANGED <<app, pool, session, runtime, mounted, kmounted, left, handlers, loop_config,
                 exited, got_init, got_destroy, conn, runs>>

End(w) ==
  /\ w \in busy
  /\ busy' = busy \ {w}
  /\ log' = [log EXCEPT !.stale = Stale]
  /\ UNCHANGED <<app, pool, session, runtime, mounted, kmounted, left, handlers, loop_config,
                 exited, got_init, got_destroy, conn, runs>>

\* The kernel says DESTROY when it unmounts: destroy_shim.
KernelDestroy(w) ==
  /\ Serving(w) /\ kmounted = "up" /\ busy = {}
  /\ got_init' = FALSE /\ got_destroy' = TRUE
  /\ kmounted' = "none"
  /\ log' = [log EXCEPT !.destroy = @ + 1, !.stale = Stale]
  /\ UNCHANGED <<app, pool, session, runtime, mounted, left, handlers, loop_config, exited, conn,
                 busy, runs>>

\* The mount is gone, or the device has an error.
Exit(unmount) ==
  /\ app = "loop" /\ ~exited
  /\ exited' = TRUE
  /\ kmounted' = IF unmount THEN "none" ELSE kmounted
  /\ UNCHANGED <<app, pool, session, runtime, mounted, left, handlers, loop_config, got_init,
                 got_destroy, conn, busy, runs, log>>

\* A signal at any time: the handler, if set, uses the session.
Signal ==
  /\ handlers
  /\ log' = [log EXCEPT !.stale = @ \/ session # "live"]
  /\ exited' = TRUE
  /\ UNCHANGED <<app, pool, session, runtime, mounted, kmounted, left, handlers, loop_config,
                 got_init, got_destroy, conn, busy, runs>>

-----------------------------------------------------------------------------
(* Drop for Session *)

\* Mutant of DropSession: the runtime is freed before the session.
DropRuntimeFirst ==
  /\ app = "idle"
  /\ app' = "dropping"
  /\ kmounted' = IF mounted THEN "none" ELSE kmounted
  /\ log' = [log EXCEPT !.destroy = IF got_init /\ ~got_destroy THEN @ + 1 ELSE @,
                        !.stale = @ \/ (got_init /\ ~got_destroy)]
  /\ session' = "freed" /\ runtime' = "freed"
  /\ UNCHANGED <<pool, mounted, left, handlers, loop_config, runs, libfuseVars>>

\* Mutant of DropSession: the filesystem is destroyed here, and by libfuse.
DropDestroysTwice ==
  /\ app = "idle"
  /\ app' = "dropping"
  /\ kmounted' = IF mounted THEN "none" ELSE kmounted
  /\ log' = [log EXCEPT !.destroy = IF got_init /\ ~got_destroy THEN @ + 2 ELSE @ + 1]
  /\ session' = "freed"
  /\ UNCHANGED <<pool, runtime, mounted, left, handlers, loop_config, runs, libfuseVars>>

\* fuse_session_unmount, and fuse_session_destroy, which calls destroy_shim if
\* the kernel has not.
DropSession ==
  /\ app = "idle"
  /\ app' = "dropping"
  /\ kmounted' = IF mounted THEN "none" ELSE kmounted
  /\ log' = IF got_init /\ ~got_destroy
              THEN [log EXCEPT !.destroy = @ + 1, !.stale = Stale] ELSE log
  /\ session' = "freed"
  /\ UNCHANGED <<pool, runtime, mounted, left, handlers, loop_config, runs, libfuseVars>>

FreeRuntime ==
  /\ app = "dropping"
  /\ app' = "gone"
  /\ runtime' = "freed"
  /\ log' = [log EXCEPT !.frees = @ + 1]
  /\ UNCHANGED <<pool, session, mounted, kmounted, left, handlers, loop_config, runs, libfuseVars>>

-----------------------------------------------------------------------------

LoopCallback ==
  \E w \in Workers :
    \/ \E capable, default \in SUBSET Caps, asked \in [Caps -> {"on", "off", "leave"}] :
         Initialize(w, capable, default, asked)
    \/ RefuseInit(w) \/ Begin(w) \/ KernelDestroy(w)

SessionNext ==
  \/ \E p \in 0..(MAX_THREADS + 2), ok \in BOOLEAN : NewRejected(p, ~ok) \/ New(p, ok)
  \/ \E ok \in BOOLEAN : Mount(ok)
  \/ \E outcome \in {"no_handlers", "no_config", "loops"} : Run(outcome)
  \/ RunReturn
  \/ LoopCallback
  \/ \E w \in Workers : End(w)
  \/ \E unmount \in BOOLEAN : Exit(unmount)
  \/ Signal
  \/ DropSession \/ FreeRuntime

SessionSpec == SessionInit /\ [][SessionNext]_sessionVars

-----------------------------------------------------------------------------
(* Properties *)

\* No callback, and no signal handler, follows a pointer to what was freed: the
\* runtime outlives the session, whose destruction is the last to call it, and
\* the handlers are removed on every way out of run().
NoStaleUse == ~log.stale

\* Every way out, from an error of new to the drop of a session that was
\* mounted and ran, frees exactly once what was allocated, and leaves no mount
\* but the ones that a later mount() has replaced.
FreedOnce ==
  /\ log.frees <= 1
  /\ app = "gone" => /\ runtime # "live" /\ session # "live"
                     /\ log.frees = (IF runtime = "none" THEN 0 ELSE 1)
                     /\ ~handlers /\ ~loop_config
                     /\ kmounted = "none"

\* NodeFs::init and NodeFs::destroy alternate, whether the kernel or the drop
\* sends the destroy.  A filesystem that was initialized once is destroyed by
\* the end; only of one that was mounted again after a DESTROY the last
\* initialization may be left without, as fuse_session_destroy then says none.
DestroyPaired ==
  /\ log.destroy <= log.init /\ log.init <= log.destroy + 1
  /\ app = "gone" => log.destroy = log.init \/ log.destroy > 0

\* libfuse aborts a session that wants what the kernel does not support: it
\* never does, whatever the runtime and the filesystem ask for.
WantCapable == conn.want \subseteq conn.capable

\* A Session takes back exactly what it set up: new, mount and init on one
\* side, FuseSessionHandle, unmount and destroy on the other, on every way out.
TornDownOnce == FreedOnce /\ DestroyPaired

\* What libfuse negotiates with the kernel is well formed throughout.
SessionOK == SessionTypeOK /\ WantCapable
============================================================================
