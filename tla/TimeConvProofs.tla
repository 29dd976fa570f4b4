--------------------------- MODULE TimeConvProofs ---------------------------
(***************************************************************************)
(* Proofs about TimeConv: the conversions of times lose nothing, for any   *)
(* number of nanoseconds in a second and any width of the seconds.         *)
(***************************************************************************)
EXTENDS AttrService, TLAPS

\* "Inverse of system_time_to_secs_nsecs": a time that comes in is the time
\* that goes out, before the epoch and at the ends of the range too.
THEOREM InThenOut ==
  ASSUME NEW secs \in Secs, NEW nsecs \in 0..(Second - 1)
  PROVE  system_time_to_secs_nsecs(secs_nsecs_to_system_time(secs, nsecs))
           = [s |-> secs, n |-> nsecs]
<1> USE TimeAssumption DEF Secs
<1>1. secs_nsecs_to_system_time(secs, nsecs) = [s |-> secs, n |-> nsecs]
  BY DEF secs_nsecs_to_system_time, Neg
<1>2. CASE secs >= 0
  BY <1>1, <1>2 DEF system_time_to_secs_nsecs
<1>3. CASE secs < 0 /\ nsecs = 0
  BY <1>1, <1>3 DEF system_time_to_secs_nsecs, Before, Neg, AsI64
<1>4. CASE secs < 0 /\ nsecs > 0
  BY <1>1, <1>4 DEF system_time_to_secs_nsecs, Before, Neg, AsI64
<1> QED BY <1>2, <1>3, <1>4

\* The other direction: every SystemTime survives the trip to the kernel.
THEOREM OutThenIn ==
  ASSUME NEW t \in Times
  PROVE  LET c == system_time_to_secs_nsecs(t)
         IN c \in Times /\ secs_nsecs_to_system_time(c.s, c.n) = t
<1> DEFINE c == system_time_to_secs_nsecs(t)
<1> USE TimeAssumption
<1>0. PICK s \in Secs, n \in 0..(Second - 1) : t = [s |-> s, n |-> n]
  BY DEF Times
<1>1. secs_nsecs_to_system_time(s, n) = t
  BY <1>0 DEF secs_nsecs_to_system_time, Neg, Secs
<1>2. c = [s |-> s, n |-> n]
  BY <1>1, InThenOut
<1>3. c \in Times /\ secs_nsecs_to_system_time(c.s, c.n) = t
  BY <1>0, <1>1, <1>2
<1> QED BY <1>3

\* The two decoders, the one for requests and the one for the host's metadata,
\* agree: passthrough.rs takes the long way, and never has to fall back.
THEOREM DecodersAgree ==
  ASSUME NEW secs \in Secs, NEW nanos \in 0..(Second - 1)
  PROVE  system_time_from_secs(secs, nanos) = secs_nsecs_to_system_time(secs, nanos)
<1> USE TimeAssumption DEF Secs
<1>1. secs_nsecs_to_system_time(secs, nanos) = [s |-> secs, n |-> nanos]
  BY DEF secs_nsecs_to_system_time, Neg
<1>2. CASE secs >= 0
  BY <1>1, <1>2 DEF system_time_from_secs
<1>3. CASE secs < 0 /\ nanos = 0
  BY <1>1, <1>3 DEF system_time_from_secs, EpochMinus
<1>4. CASE secs < 0 /\ nanos > 0
  BY <1>1, <1>4 DEF system_time_from_secs, EpochMinus
<1> QED BY <1>2, <1>3, <1>4
-----------------------------------------------------------------------------
(* What a SETATTR stores and reports *)

\* Both conversions leave a time what it is, as records go.
LEMMA Same ==
  ASSUME NEW t \in Times
  PROVE  /\ secs_nsecs_to_system_time(t.s, t.n) = t
         /\ system_time_to_secs_nsecs(t) = t
<1> USE TimeAssumption
<1>0. PICK s \in Secs, n \in 0..(Second - 1) : t = [s |-> s, n |-> n]
  BY DEF Times
<1>1. secs_nsecs_to_system_time(s, n) = t
  BY <1>0 DEF secs_nsecs_to_system_time, Neg, Secs
<1>2. system_time_to_secs_nsecs(t) = t
  BY <1>0, <1>1, InThenOut
<1> QED BY <1>0, <1>1, <1>2

\* The stat of a file has the file's attributes.
LEMMA StatOfAttr ==
  ASSUME NEW a \in Attrs
  PROVE  attr_to_stat(a) = a
BY Same DEF attr_to_stat, Attrs

\* A time that is set, is "now", or is left alone.
LEMMA TimeSet ==
  ASSUME NEW flag, NEW now_flag, NEW to_set, NEW t \in Times, NEW old \in Times,
         NEW clock \in Times
  PROVE  TimeOr(TimeOrNow(flag, now_flag, to_set, t), old, clock)
           = IF now_flag \in to_set THEN clock ELSE IF flag \in to_set THEN t ELSE old
<1>0. ASSUME NEW x PROVE TimeOr({x}, old, clock) = IF x.now THEN clock ELSE x.t
  <2>1. (CHOOSE w \in {x} : TRUE) = x
    OBVIOUS
  <2> QED BY <2>1 DEF TimeOr
<1>1. CASE now_flag \in to_set
  <2>1. TimeOrNow(flag, now_flag, to_set, t) = {Now}
    BY <1>1 DEF TimeOrNow
  <2>2. TimeOr({Now}, old, clock) = IF Now.now THEN clock ELSE Now.t
    BY <1>0
  <2>3. Now.now
    BY DEF Now
  <2>4. TimeOr({Now}, old, clock) = clock
    BY <2>2, <2>3
  <2> QED BY <1>1, <2>1, <2>4
<1>2. CASE now_flag \notin to_set /\ flag \in to_set
  <2>1. TimeOrNow(flag, now_flag, to_set, t) = {[now |-> FALSE, t |-> t]}
    BY <1>2, Same DEF TimeOrNow, Specific
  <2> DEFINE x == [now |-> FALSE, t |-> t]
  <2>2. ~x.now /\ x.t = t
    OBVIOUS
  <2> HIDE DEF x
  <2>3. TimeOr({x}, old, clock) = IF x.now THEN clock ELSE x.t
    BY <1>0
  <2>4. TimeOr({x}, old, clock) = t
    BY <2>2, <2>3
  <2> QED BY <1>2, <2>1, <2>4 DEF x
<1>3. CASE now_flag \notin to_set /\ flag \notin to_set
  BY <1>3 DEF TimeOr, TimeOrNow
<1> QED BY <1>1, <1>2, <1>3

\* Whether a request changes anything but ctime.
LEMMA Changes ==
  ASSUME NEW to_set \in ToSets, NEW st
  PROVE  (\E f \in {"mode", "size", "atime", "mtime"} : setattr_from_raw(st, to_set)[f] # {})
           <=> to_set \ {"CTIME"} # {}
<1> DEFINE set == setattr_from_raw(st, to_set)
<1>1. /\ set.mode # {} <=> "MODE" \in to_set
      /\ set.size # {} <=> "SIZE" \in to_set
  BY DEF setattr_from_raw
<1>2. /\ set.atime # {} <=> ("ATIME" \in to_set \/ "ATIME_NOW" \in to_set)
      /\ set.mtime # {} <=> ("MTIME" \in to_set \/ "MTIME_NOW" \in to_set)
  BY DEF setattr_from_raw, TimeOrNow
<1> HIDE DEF set
<1>3. to_set \subseteq {"MODE", "SIZE", "ATIME", "ATIME_NOW", "MTIME", "MTIME_NOW", "CTIME"}
  BY DEF ToSets
<1>4. (\E f \in {"mode", "size", "atime", "mtime"} : set[f] # {})
        <=> set.mode # {} \/ set.size # {} \/ set.atime # {} \/ set.mtime # {}
  OBVIOUS
<1>5. to_set \ {"CTIME"} # {}
        <=> \E f \in {"MODE", "SIZE", "ATIME", "ATIME_NOW", "MTIME", "MTIME_NOW"} : f \in to_set
  BY <1>3
<1>6. (\E f \in {"mode", "size", "atime", "mtime"} : set[f] # {}) <=> to_set \ {"CTIME"} # {}
  BY <1>1, <1>2, <1>4, <1>5
<1> QED BY <1>6 DEF set

\* What MemoryFs::setattr makes of a request, one attribute at a time.
LEMMA MemoryStores ==
  ASSUME NEW a \in Attrs, NEW st \in Attrs, NEW to_set \in ToSets, NEW clock \in Times,
         NEW new, new = MemorySetattr(a, setattr_from_raw(st, to_set), clock)
  PROVE  /\ new \in Attrs
         /\ new.atime = IF "ATIME_NOW" \in to_set THEN clock
                        ELSE IF "ATIME" \in to_set THEN st.atime ELSE a.atime
         /\ new.mtime = IF "MTIME_NOW" \in to_set THEN clock
                        ELSE IF "MTIME" \in to_set THEN st.mtime ELSE a.mtime
         /\ new.mode = IF "MODE" \in to_set THEN st.mode ELSE a.mode
         /\ new.size = IF "SIZE" \in to_set THEN st.size ELSE a.size
         /\ "CTIME" \notin to_set /\ to_set # {} => new.ctime = clock
<1> DEFINE set == setattr_from_raw(st, to_set)
<1>1. new.atime = IF "ATIME_NOW" \in to_set THEN clock
                  ELSE IF "ATIME" \in to_set THEN st.atime ELSE a.atime
  BY TimeSet DEF MemorySetattr, setattr_from_raw, Attrs
<1>2. new.mtime = IF "MTIME_NOW" \in to_set THEN clock
                  ELSE IF "MTIME" \in to_set THEN st.mtime ELSE a.mtime
  BY TimeSet DEF MemorySetattr, setattr_from_raw, Attrs
<1>3. new.mode = IF "MODE" \in to_set THEN st.mode ELSE a.mode
  BY DEF MemorySetattr, setattr_from_raw, Or, Attrs
<1>4. new.size = IF "SIZE" \in to_set THEN st.size ELSE a.size
  BY DEF MemorySetattr, setattr_from_raw, Or, Attrs
<1>5. new.ctime \in Times
  <2>1. secs_nsecs_to_system_time(st.ctime.s, st.ctime.n) = st.ctime
    BY Same DEF Attrs
  <2>2. Or(set.ctime, a.ctime) \in Times
    BY <2>1 DEF setattr_from_raw, Or, Attrs
  <2> QED BY <2>2 DEF MemorySetattr, Attrs
<1>6. /\ new = [mode |-> new.mode, size |-> new.size, atime |-> new.atime,
                mtime |-> new.mtime, ctime |-> new.ctime]
  BY DEF MemorySetattr
<1>7. /\ new.atime \in Times /\ new.mtime \in Times
      /\ new.mode \in 0..1 /\ new.size \in 0..1
  BY <1>1, <1>2, <1>3, <1>4 DEF Attrs
<1>8. new \in Attrs
  BY <1>5, <1>6, <1>7 DEF Attrs
<1>9. ASSUME "CTIME" \notin to_set, to_set # {} PROVE new.ctime = clock
  <2>1. set.ctime = {}
    BY <1>9 DEF setattr_from_raw
  <2>2. to_set \ {"CTIME"} # {}
    BY <1>9
  <2>3. \E f \in {"mode", "size", "atime", "mtime"} : set[f] # {}
    BY <2>2, Changes
  <2> HIDE DEF set
  <2>4. new.ctime = IF \E f \in {"mode", "size", "atime", "mtime"} : set[f] # {}
                    THEN clock ELSE a.ctime
    BY <2>1 DEF MemorySetattr, set
  <2> QED BY <2>3, <2>4
<1> QED BY <1>1, <1>2, <1>3, <1>4, <1>8, <1>9

\* What the host keeps of a time that is set, is "now", or is left alone.
LEMMA HostTime ==
  ASSUME NEW flag, NEW now_flag, NEW to_set, NEW t \in Times, NEW old \in Times,
         NEW clock \in Times, clock.s >= 0,
         NEW option, option = TimeOrNow(flag, now_flag, to_set, t)
  PROVE  (IF option = {} THEN old ELSE to_timespec(TimeOr(option, old, clock)))
           = IF now_flag \in to_set THEN clock
             ELSE IF flag \in to_set THEN (IF t.s < 0 THEN EPOCH ELSE t) ELSE old
<1>0. option = {} <=> now_flag \notin to_set /\ flag \notin to_set
  BY DEF TimeOrNow
<1>1. CASE now_flag \in to_set
  <2>1. TimeOr(option, old, clock) = clock
    BY <1>1, TimeSet
  <2> QED BY <1>0, <1>1, <2>1 DEF to_timespec
<1>2. CASE now_flag \notin to_set /\ flag \in to_set
  <2>1. TimeOr(option, old, clock) = t
    BY <1>2, TimeSet
  <2>2. t.s \in Int
    BY TimeAssumption DEF Times, Secs
  <2> QED BY <1>0, <1>2, <2>1, <2>2 DEF to_timespec
<1>3. CASE now_flag \notin to_set /\ flag \notin to_set
  BY <1>0, <1>3
<1> QED BY <1>1, <1>2, <1>3

\* Reading the host's metadata changes nothing.
LEMMA MetadataRead ==
  ASSUME NEW a \in Attrs
  PROVE  file_attr_from_metadata(a) = a
<1>1. ASSUME NEW t \in Times PROVE system_time_from_secs(t.s, t.n) = t
  <2>0. t.s \in Secs /\ t.n \in 0..(Second - 1)
    BY DEF Times
  <2>1. system_time_from_secs(t.s, t.n) = secs_nsecs_to_system_time(t.s, t.n)
    BY <2>0, DecodersAgree
  <2> QED BY <2>1, Same
<1> QED BY <1>1 DEF file_attr_from_metadata, Attrs

\* What a passthrough filesystem makes of a request, one attribute at a time.
LEMMA HostStores ==
  ASSUME NEW a \in Attrs, NEW st \in Attrs, NEW to_set \in ToSets,
         NEW clock \in Times, clock.s >= 0,
         NEW new, new = HostSetattr(a, setattr_from_raw(st, to_set), clock)
  PROVE  /\ new \in Attrs
         /\ new.atime = IF "ATIME_NOW" \in to_set THEN clock
                        ELSE IF "ATIME" \in to_set
                          THEN (IF st.atime.s < 0 THEN EPOCH ELSE st.atime) ELSE a.atime
         /\ new.mtime = IF "MTIME_NOW" \in to_set THEN clock
                        ELSE IF "MTIME" \in to_set
                          THEN (IF st.mtime.s < 0 THEN EPOCH ELSE st.mtime) ELSE a.mtime
         /\ new.mode = IF "MODE" \in to_set THEN st.mode ELSE a.mode
         /\ new.size = IF "SIZE" \in to_set THEN st.size ELSE a.size
         /\ to_set = {"CTIME"} => new.ctime = a.ctime
         /\ to_set \ {"CTIME"} # {} => new.ctime = clock
<1> DEFINE set == setattr_from_raw(st, to_set)
           kept == utimens(a, set, clock)
<1>1. /\ set.atime = TimeOrNow("ATIME", "ATIME_NOW", to_set, st.atime)
      /\ set.mtime = TimeOrNow("MTIME", "MTIME_NOW", to_set, st.mtime)
      /\ set.mode = IF "MODE" \in to_set THEN {st.mode} ELSE {}
      /\ set.size = IF "SIZE" \in to_set THEN {st.size} ELSE {}
  BY DEF setattr_from_raw
<1>0. (\E f \in {"mode", "size", "atime", "mtime"} : set[f] # {}) <=> to_set \ {"CTIME"} # {}
  BY Changes
<1> HIDE DEF set
<1>2. kept.atime = IF "ATIME_NOW" \in to_set THEN clock
                   ELSE IF "ATIME" \in to_set
                     THEN (IF st.atime.s < 0 THEN EPOCH ELSE st.atime) ELSE a.atime
  <2>1. kept.atime = IF set.atime = {} THEN a.atime
                     ELSE to_timespec(TimeOr(set.atime, a.atime, clock))
    BY DEF utimens
  <2>2. st.atime \in Times /\ a.atime \in Times
    BY DEF Attrs
  <2> QED BY <1>1, <2>1, <2>2, HostTime
<1>3. kept.mtime = IF "MTIME_NOW" \in to_set THEN clock
                   ELSE IF "MTIME" \in to_set
                     THEN (IF st.mtime.s < 0 THEN EPOCH ELSE st.mtime) ELSE a.mtime
  <2>1. kept.mtime = IF set.mtime = {} THEN a.mtime
                     ELSE to_timespec(TimeOr(set.mtime, a.mtime, clock))
    BY DEF utimens
  <2>2. st.mtime \in Times /\ a.mtime \in Times
    BY DEF Attrs
  <2> QED BY <1>1, <2>1, <2>2, HostTime
<1>4. /\ kept.mode = IF "MODE" \in to_set THEN st.mode ELSE a.mode
      /\ kept.size = IF "SIZE" \in to_set THEN st.size ELSE a.size
      /\ kept.ctime = IF to_set \ {"CTIME"} = {} THEN a.ctime ELSE clock
  <2>1. kept.ctime = IF \E f \in {"mode", "size", "atime", "mtime"} : set[f] # {}
                     THEN clock ELSE a.ctime
    BY DEF utimens
  <2> QED BY <1>0, <1>1, <2>1 DEF utimens, Or
<1>5. EPOCH \in Times
  BY TimeAssumption DEF EPOCH, Times, Secs
<1>6. /\ kept.atime \in Times /\ kept.mtime \in Times /\ kept.ctime \in Times
      /\ kept.mode \in 0..1 /\ kept.size \in 0..1
  BY <1>2, <1>3, <1>4, <1>5 DEF Attrs
<1>7. kept = [mode |-> kept.mode, size |-> kept.size, atime |-> kept.atime,
              mtime |-> kept.mtime, ctime |-> kept.ctime]
  BY DEF utimens
<1>8. kept \in Attrs
  BY <1>6, <1>7 DEF Attrs
<1> HIDE DEF kept
<1>9. new = kept
  BY <1>8, MetadataRead DEF HostSetattr, kept, set
<1> QED BY <1>2, <1>3, <1>4, <1>8, <1>9

\* What is reported is always the stat of the stored attributes.
AttrInv ==
  attr \in Attrs /\ reported = attr /\ AttrsExact

\* AttrInv is inductive.
LEMMA AttrInvInductive ==
  ASSUME AttrInv, [AttrNext]_attrVars
  PROVE  AttrInv'
<1>1. CASE UNCHANGED attrVars
  BY <1>1 DEF AttrInv, AttrsExact, AttrTypeOK, SetExactly, ChangeRecorded, Given, attrVars
<1>2. ASSUME NEW t \in Times, NEW u \in Times, NEW to_set \in ToSets,
             NEW clock \in Times, clock.s > 0,
             Setattr([mode |-> 1, size |-> 1, atime |-> t, mtime |-> u, ctime |-> t], to_set, clock)
      PROVE  AttrInv'
  <2> DEFINE st == [mode |-> 1, size |-> 1, atime |-> t, mtime |-> u, ctime |-> t]
             set == setattr_from_raw(st, to_set)
             new == IF store = "memory" THEN MemorySetattr(attr, set, clock)
                    ELSE HostSetattr(attr, set, clock)
  <2>1. st \in Attrs
    BY DEF Attrs
  <2>2. /\ attr' = new /\ now' = clock /\ before' = reported /\ reported' = attr_to_stat(new)
        /\ asked' = [stat |-> st, to_set |-> to_set] /\ store' = store
    BY <1>2 DEF Setattr
  <2> HIDE DEF set, st
  <2>3. attr \in Attrs /\ reported = attr /\ store \in {"memory", "host"}
    BY DEF AttrInv, AttrsExact, AttrTypeOK
  <2>4. clock.s >= 0
    BY <1>2, TimeAssumption DEF Times, Secs
  <2>5. /\ new \in Attrs
        /\ new.atime = IF "ATIME_NOW" \in to_set THEN clock
                       ELSE IF "ATIME" \in to_set THEN Given(st.atime) ELSE attr.atime
        /\ new.mtime = IF "MTIME_NOW" \in to_set THEN clock
                       ELSE IF "MTIME" \in to_set THEN Given(st.mtime) ELSE attr.mtime
        /\ new.mode = IF "MODE" \in to_set THEN st.mode ELSE attr.mode
        /\ new.size = IF "SIZE" \in to_set THEN st.size ELSE attr.size
    <3>1. CASE store = "memory"
      BY <2>1, <2>3, <3>1, MemoryStores DEF Given, set
    <3>2. CASE store = "host"
      BY <2>1, <2>3, <2>4, <3>2, HostStores DEF Given, set
    <3> QED BY <2>3, <3>1, <3>2
  <2>10. ASSUME store = "memory", "CTIME" \notin to_set, to_set # {}
         PROVE  new.ctime = clock
    BY <2>1, <2>3, <2>10, MemoryStores DEF set
  <2>11. ASSUME store = "host"
         PROVE  /\ to_set = {"CTIME"} => new.ctime = attr.ctime
                /\ to_set \ {"CTIME"} # {} => new.ctime = clock
    BY <2>1, <2>3, <2>4, <2>11, HostStores DEF set
  <2> HIDE DEF new
  <2>6. reported' = new
    BY <2>2, <2>5, StatOfAttr
  <2>7. SetExactly'
    BY <2>2, <2>3, <2>5, <2>6 DEF SetExactly, Given
  <2>8. ChangeRecorded'
    <3>1. to_set # {} => (to_set \ {"CTIME"} = {} <=> to_set = {"CTIME"})
      OBVIOUS
    <3> QED BY <2>2, <2>3, <2>6, <2>10, <2>11, <3>1 DEF ChangeRecorded
  <2>9. AttrTypeOK'
    BY <2>2, <2>3, <2>5, <2>6 DEF AttrTypeOK
  <2> QED BY <2>2, <2>3, <2>5, <2>6, <2>7, <2>8, <2>9 DEF AttrInv, AttrsExact
<1> QED BY <1>1, <1>2 DEF AttrNext

\* Whatever the resolution and the range of times: what a SETATTR asked for is
\* exactly what the stat of the stored attributes says, in MemoryFs and, but for
\* times before the epoch, in a filesystem that passes through to the host; and
\* ctime records the change.
THEOREM SetattrExact == AttrSpec => []AttrsExact
<1>1. AttrInit => AttrInv
  <2> SUFFICES ASSUME AttrInit PROVE AttrInv
    OBVIOUS
  <2>1. attr \in Attrs
    BY DEF AttrInit, Attrs
  <2>2. reported = attr /\ before = attr /\ asked.to_set = {}
    BY <2>1, StatOfAttr DEF AttrInit
  <2>3. EPOCH \in Times
    BY TimeAssumption DEF EPOCH, Times, Secs
  <2>4. AttrTypeOK
    BY <2>1, <2>2, <2>3 DEF AttrInit, AttrTypeOK
  <2>5. SetExactly /\ ChangeRecorded
    BY <2>2 DEF SetExactly, ChangeRecorded
  <2> QED BY <2>1, <2>2, <2>4, <2>5 DEF AttrInv, AttrsExact
<1>2. AttrInv /\ [AttrNext]_attrVars => AttrInv'
  BY AttrInvInductive
<1>3. AttrInv => AttrsExact
  BY DEF AttrInv
<1> QED BY <1>1, <1>2, <1>3, PTL DEF AttrSpec
=============================================================================
