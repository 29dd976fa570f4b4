------------------------------ MODULE TimeConv ------------------------------
(***************************************************************************)
(* The conversions of times between libfuse's (seconds, nanoseconds),      *)
(* Rust's SystemTime, and the host's timespec (conv.rs, passthrough.rs).   *)
(*                                                                         *)
(* A time and a SystemTime are both [s, n]: n nanoseconds after second s,  *)
(* which is negative before the epoch; a Duration is [s, n] too.           *)
(***************************************************************************)
EXTENDS Integers

CONSTANTS
  Second,   \* nanoseconds in a second
  SecMax    \* i64::MAX

ASSUME TimeAssumption == Second \in Nat \ {0, 1} /\ SecMax \in Nat \ {0}

Secs == (-SecMax - 1)..SecMax
Times == [s : Secs, n : 0..(Second - 1)]
EPOCH == [s |-> 0, n |-> 0]

\* Arithmetic on i64 wraps in a release build (a debug build panics).
Neg(x) == IF x = -SecMax - 1 THEN x ELSE -x
AsI64(x) == IF x > SecMax THEN x - 2 * SecMax - 2 ELSE x

-----------------------------------------------------------------------------
(* std::time, as far as it is used *)

\* The distance to the epoch of a time before it, and back.
Before(t) == IF t.n = 0 THEN [s |-> -t.s, n |-> 0] ELSE [s |-> -t.s - 1, n |-> Second - t.n]
EpochMinus(d) == IF d.n = 0 THEN [s |-> -d.s, n |-> 0] ELSE [s |-> -d.s - 1, n |-> Second - d.n]

-----------------------------------------------------------------------------
(* conv.rs *)

system_time_to_secs_nsecs(t) ==
  LET d == Before(t)
  IN IF t.s >= 0 THEN t
     ELSE IF d.n = 0 THEN [s |-> Neg(AsI64(d.s)), n |-> 0]
     ELSE [s |-> Neg(AsI64(d.s)) - 1, n |-> Second - d.n]

\* (-secs) as u64
secs_nsecs_to_system_time(secs, nsecs) ==
  LET neg == Neg(secs)
      unsigned == IF neg < 0 THEN neg + 2 * SecMax + 2 ELSE neg
  IN IF secs >= 0 THEN [s |-> secs, n |-> nsecs]
     ELSE [s |-> -unsigned, n |-> nsecs]

-----------------------------------------------------------------------------
(* passthrough.rs *)

\* Mutant of system_time_from_secs: seconds and nanoseconds both backwards.
system_time_from_secs_symmetric(secs, nanos) ==
  IF secs >= 0 THEN [s |-> secs, n |-> nanos]
  ELSE IF EpochMinus([s |-> -secs, n |-> nanos]).s \in Secs
         THEN EpochMinus([s |-> -secs, n |-> nanos]) ELSE EPOCH

system_time_from_secs(secs, nanos) ==
  LET duration == IF nanos = 0 THEN [s |-> -secs, n |-> 0]
                  ELSE [s |-> -secs - 1, n |-> Second - nanos]
  IN IF secs >= 0 THEN [s |-> secs, n |-> nanos]
     ELSE IF EpochMinus(duration).s \in Secs THEN EpochMinus(duration)   \* checked_sub
     ELSE EPOCH

\* A time before the epoch has no duration since it, and becomes the epoch.
to_timespec(t) == IF t.s >= 0 THEN t ELSE EPOCH
=============================================================================
