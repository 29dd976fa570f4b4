----------------------------- MODULE XattrRead -----------------------------
(***************************************************************************)
(* getxattr_value_nofollow and listxattr_names_nofollow of passthrough.rs: *)
(* two system calls, one that asks for the length and one that reads, on a *)
(* file of the host whose attributes other processes change in between.    *)
(***************************************************************************)
EXTENDS Integers, FiniteSets

CONSTANTS
  Callers,   \* threads of the daemon that read
  Contents,  \* what may be written: a value is a prefix of one of these
  MaxLen     \* bound: the length of a value

ASSUME LenAssumption == MaxLen \in Nat /\ Contents # {}

Absent == <<"absent", 0>>
Prefix(text, len) == IF len = 0 THEN <<"empty", 0>> ELSE <<text, len>>
Values == {Prefix(t, n) : t \in Contents, n \in 0..MaxLen}
Length(v) == v[2]
NoCall == [size |-> 0, values |-> {}]

VARIABLES
  value,  \* the attribute's value, or Absent
  call,   \* call[c]: the size the probe returned and, as history, the values the
          \* attribute had since
  got     \* got[c]: what the last read returned, [err, val], and those values

xattrVars == <<value, call, got>>

XattrTypeOK ==
  /\ value \in {Absent} \cup Values
  /\ \A c \in Callers : /\ call[c].size \in 0..MaxLen
                        /\ got[c].err \in {"none", "ENODATA", "ERANGE"} /\ got[c].val \in Values

XattrInit ==
  /\ value = Absent
  /\ call = [c \in Callers |-> NoCall]
  /\ got = [c \in Callers |-> [err |-> "none", val |-> Prefix("", 0),
                                values |-> {Prefix("", 0)}]]

-----------------------------------------------------------------------------

\* Whoever is reading may get the old value or the new.
Store(v) ==
  /\ value' = v
  /\ call' = [c \in Callers |-> IF call[c] = NoCall THEN NoCall
                                ELSE [call[c] EXCEPT !.values = @ \cup {v}]]
  /\ UNCHANGED got

\* setxattr_nofollow.  The host checks XATTR_CREATE and XATTR_REPLACE.
setxattr_nofollow(v, flag) ==
  /\ flag = "XATTR_CREATE" => value = Absent
  /\ flag = "XATTR_REPLACE" => value # Absent
  /\ Store(v)

removexattr_nofollow == value # Absent /\ Store(Absent)

\* The error of lgetxattr, which takes a size of zero for a question.
getxattr_nofollow(size) ==
  IF value = Absent THEN "ENODATA"
  ELSE IF size > 0 /\ Length(value) > size THEN "ERANGE" ELSE "none"

\* size = getxattr_nofollow(path, name, &mut [])?
Probe(c) ==
  /\ call[c] = NoCall
  /\ IF getxattr_nofollow(0) = "none"
       THEN /\ call' = [call EXCEPT ![c] = [size |-> Length(value), values |-> {value}]]
            /\ UNCHANGED got
       ELSE /\ got' = [got EXCEPT ![c] = [err |-> getxattr_nofollow(0), val |-> Prefix("", 0),
                                          values |-> {value}]]
            /\ UNCHANGED call
  /\ UNCHANGED value

\* Mutant of Fetched: the buffer is not cut down to what was stored, unless that
\* is nothing.
FetchedWhole(size) == IF Length(value) = 0 THEN value ELSE Prefix(value[1], size)

\* value.truncate(len).  After a probe of zero the buffer is empty: the second
\* call is a probe again, and truncate leaves nothing of its answer.
Fetched(size) == Prefix(value[1], IF Length(value) < size THEN Length(value) ELSE size)

Fetch(c) ==
  LET err == getxattr_nofollow(call[c].size)
  IN /\ call[c] # NoCall
     /\ got' = [got EXCEPT ![c] = [err |-> err, values |-> call[c].values,
                                   val |-> IF err = "none" THEN Fetched(call[c].size)
                                           ELSE Prefix("", 0)]]
     /\ call' = [call EXCEPT ![c] = NoCall]
     /\ UNCHANGED value

XattrNext ==
  \/ \E v \in Values, flag \in {"none", "XATTR_CREATE", "XATTR_REPLACE"} :
       setxattr_nofollow(v, flag)
  \/ removexattr_nofollow
  \/ \E c \in Callers : Probe(c) \/ Fetch(c)

XattrSpec == XattrInit /\ [][XattrNext]_xattrVars

-----------------------------------------------------------------------------
(* Properties *)

\* A value that is read in two calls is one the attribute had while it was
\* read, whole and not a mixture of two, although it grew, shrank, went or came
\* between the two.
ReadAtomic == \A c \in Callers : got[c].err = "none" => got[c].val \in got[c].values

\* An error says what was so: the attribute was away at some time, or it grew
\* after the probe.  A read that nothing disturbs does not fail.
ReadErrorTrue ==
  \A c \in Callers : /\ got[c].err = "ENODATA" => Absent \in got[c].values
                     /\ got[c].err = "ERANGE" => Cardinality(got[c].values) > 1

\* An answer of getxattr or listxattr, a value or an error, is a true one.
ReadsTrue == XattrTypeOK /\ ReadAtomic /\ ReadErrorTrue
=============================================================================
