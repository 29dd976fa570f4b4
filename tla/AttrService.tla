---------------------------- MODULE AttrService ----------------------------
(***************************************************************************)
(* Attributes on their way from a SETATTR request to the filesystem and    *)
(* back into a stat: setattr_from_raw, then MemoryFs::setattr or a         *)
(* filesystem that passes through to the host with the helpers of          *)
(* passthrough.rs, then attr_to_stat.  The owner travels like the mode.    *)
(***************************************************************************)
EXTENDS TimeConv

CONSTANTS
  MaxRequests \* bound: requests

ASSUME RequestsAssumption == MaxRequests \in Nat

Attrs == [mode : 0..1, size : 0..1, atime : Times, mtime : Times, ctime : Times]

\* What the kernel asks for: a time that is to be "now" has both of its flags.
ToSets ==
  {f \in SUBSET {"MODE", "SIZE", "ATIME", "ATIME_NOW", "MTIME", "MTIME_NOW", "CTIME"} :
     /\ "ATIME_NOW" \in f => "ATIME" \in f
     /\ "MTIME_NOW" \in f => "MTIME" \in f}

VARIABLES
  store,    \* which filesystem it is: "memory" for MemoryFs, "host" for one that
            \* passes through
  attr,     \* the filesystem's file; its times are SystemTimes
  now,      \* SystemTime::now() in the last request
  before,   \* the stat before the last request
  asked,    \* the last request: [stat, to_set]
  reported, \* the stat it was answered with
  requests

attrVars == <<store, attr, now, before, asked, reported, requests>>

-----------------------------------------------------------------------------

attr_to_stat(a) ==
  [a EXCEPT !.atime = system_time_to_secs_nsecs(@), !.mtime = system_time_to_secs_nsecs(@),
            !.ctime = system_time_to_secs_nsecs(@)]

Specific(t) == [now |-> FALSE, t |-> secs_nsecs_to_system_time(t.s, t.n)]
Now == [now |-> TRUE, t |-> EPOCH]

TimeOrNow(flag, now_flag, to_set, t) ==
  IF now_flag \in to_set THEN {Now} ELSE IF flag \in to_set THEN {Specific(t)} ELSE {}

\* An Option is a set of at most one value.
setattr_from_raw(st, to_set) ==
  [mode |-> IF "MODE" \in to_set THEN {st.mode} ELSE {},
   size |-> IF "SIZE" \in to_set THEN {st.size} ELSE {},
   atime |-> TimeOrNow("ATIME", "ATIME_NOW", to_set, st.atime),
   mtime |-> TimeOrNow("MTIME", "MTIME_NOW", to_set, st.mtime),
   ctime |-> IF "CTIME" \in to_set THEN {secs_nsecs_to_system_time(st.ctime.s, st.ctime.n)}
             ELSE {}]

Or(option, old) == IF option = {} THEN old ELSE CHOOSE v \in option : TRUE
TimeOr(option, old, clock) ==
  IF option = {} THEN old
  ELSE LET v == CHOOSE w \in option : TRUE IN IF v.now THEN clock ELSE v.t

\* MemoryFs::setattr
MemorySetattr(a, set, clock) ==
  LET changed == \E f \in {"mode", "size", "atime", "mtime"} : set[f] # {}
  IN [mode |-> Or(set.mode, a.mode), size |-> Or(set.size, a.size),
      atime |-> TimeOr(set.atime, a.atime, clock), mtime |-> TimeOr(set.mtime, a.mtime, clock),
      ctime |-> IF set.ctime # {} THEN Or(set.ctime, a.ctime)
                ELSE IF changed THEN clock ELSE a.ctime]

file_attr_from_metadata(meta) ==
  LET read(t) == system_time_from_secs(t.s, t.n)
  IN [meta EXCEPT !.atime = read(@), !.mtime = read(@), !.ctime = read(@)]

\* The host's file after utimens_fd or utimens_path, UTIME_OMIT for a time that
\* is not set, and after chmod and truncation.  The host itself keeps ctime.
utimens(a, set, clock) ==
  LET host(option, old) == IF option = {} THEN old ELSE to_timespec(TimeOr(option, old, clock))
      changed == \E f \in {"mode", "size", "atime", "mtime"} : set[f] # {}
  IN [mode |-> Or(set.mode, a.mode), size |-> Or(set.size, a.size),
      atime |-> host(set.atime, a.atime), mtime |-> host(set.mtime, a.mtime),
      ctime |-> IF changed THEN clock ELSE a.ctime]

\* A filesystem that passes SETATTR to the host and reads the metadata again.
HostSetattr(a, set, clock) == file_attr_from_metadata(utimens(a, set, clock))

-----------------------------------------------------------------------------

AttrTypeOK ==
  /\ store \in {"memory", "host"}
  /\ attr \in Attrs /\ before \in Attrs /\ reported \in Attrs
  /\ now \in Times

AttrInit ==
  /\ store \in {"memory", "host"}
  /\ \E t \in Times : attr = [mode |-> 0, size |-> 0, atime |-> t, mtime |-> t, ctime |-> t]
  /\ now = EPOCH /\ requests = 0
  /\ before = attr_to_stat(attr) /\ reported = attr_to_stat(attr)
  /\ asked = [stat |-> reported, to_set |-> {}]

\* setattr_shim, at time clock.
Setattr(st, to_set, clock) ==
  LET set == setattr_from_raw(st, to_set)
      new == IF store = "memory" THEN MemorySetattr(attr, set, clock)
             ELSE HostSetattr(attr, set, clock)
  IN /\ requests' = requests + 1
     /\ attr' = new
     /\ now' = clock
     /\ before' = reported
     /\ asked' = [stat |-> st, to_set |-> to_set]
     /\ reported' = attr_to_stat(new)
     /\ UNCHANGED store

AttrNext ==
  /\ requests < MaxRequests
  /\ \E t, u \in Times, to_set \in ToSets, clock \in {x \in Times : x.s > 0 /\ x.n > 0} :
       Setattr([mode |-> 1, size |-> 1, atime |-> t, mtime |-> u, ctime |-> t], to_set, clock)

AttrSpec == AttrInit /\ [][AttrNext]_attrVars

-----------------------------------------------------------------------------
(* Properties *)

\* The time a file gets for one that was asked for: the host helpers take every
\* time before the epoch for the epoch.
Given(t) == IF store = "host" /\ t.s < 0 THEN EPOCH ELSE t

\* The stat that a SETATTR is answered with has exactly what was asked for: a
\* time that was given, to the nanosecond and, in MemoryFs, also before the
\* epoch; the time of the request where "now" was asked for; and everything
\* else as it was, a time before the epoch included.
SetExactly ==
  /\ \A f \in {"atime", "mtime"} :
       LET flag == IF f = "atime" THEN "ATIME" ELSE "MTIME"
           now_flag == IF f = "atime" THEN "ATIME_NOW" ELSE "MTIME_NOW"
       IN reported[f] = IF now_flag \in asked.to_set THEN now
                     ELSE IF flag \in asked.to_set THEN Given(asked.stat[f]) ELSE before[f]
  /\ reported.mode = (IF "MODE" \in asked.to_set THEN asked.stat.mode ELSE before.mode)
  /\ reported.size = (IF "SIZE" \in asked.to_set THEN asked.stat.size ELSE before.size)

\* A change of attributes moves ctime, unless the request says where to.
ChangeRecorded ==
  asked.to_set # {} /\ (store = "host" \/ "CTIME" \notin asked.to_set) =>
    reported.ctime = IF asked.to_set = {"CTIME"} THEN before.ctime ELSE now

\* A SETATTR does what it was asked for, no more, and leaves its trace.
AttrsExact == AttrTypeOK /\ SetExactly /\ ChangeRecorded
=============================================================================
