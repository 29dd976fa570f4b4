------------------------------- MODULE Shims -------------------------------
(***************************************************************************)
(* The life of a request in the shims of session.rs: libfuse calls a shim  *)
(* with a fuse_req_t, the shim decodes its arguments, calls the runtime    *)
(* with panics caught, and replies, which frees the fuse_req_t.            *)
(*                                                                         *)
(* Requests run in parallel.  Those on an open file share its payload (the *)
(* filesystem's handle), which a release hands back to the filesystem once *)
(* no request has a lease on it.  What the calls do to the inode table is  *)
(* Runtime's subject; here a call is what it returns.                      *)
(***************************************************************************)
EXTENDS Naturals, Sequences

CONSTANTS
  Reqs,       \* the requests
  Supports,   \* of {"readdirplus", "posix_locks"}: NodeFs::SUPPORTS_READDIRPLUS
              \* and SUPPORTS_POSIX_LOCKS
  MaxSize     \* bound: the sizes a request asks for

ASSUME SizeAssumption == MaxSize \in Nat

-----------------------------------------------------------------------------
(* What each shim sends when its call succeeds *)

\* A link's target with a NUL byte is an error of readlink.  getattr and setattr
\* may come with an open file (fi_fh_opt), and are then written with fh.
NodeShims ==
  [lookup |-> {"entry", "negative"}, getattr |-> {"attr"}, setattr |-> {"attr"},
   getattr_fh |-> {"attr"}, setattr_fh |-> {"attr"}, readlink |-> {"readlink", "EINVAL"}]

NameShims ==
  [mknod |-> {"entry"}, mkdir |-> {"entry"}, unlink |-> {"ok"}, rmdir |-> {"ok"},
   symlink |-> {"entry"}, rename |-> {"ok"}, link |-> {"entry"}]

FileShims ==
  [open |-> {"open"}, read |-> {"buf"}, write |-> {"write"}, flush |-> {"ok"},
   release |-> {"ok"}, fsync |-> {"ok"}]

DirShims ==
  [opendir |-> {"open"}, readdir |-> {"buf"}, readdirplus |-> {"buf"},
   releasedir |-> {"ok"}, fsyncdir |-> {"ok"}]

XattrShims ==
  [statfs |-> {"statfs"}, setxattr |-> {"ok"}, getxattr |-> {"xattr"},
   listxattr |-> {"xattr"}, removexattr |-> {"ok"}, access |-> {"ok"}]

\* getlk: the answer may not fit a struct flock.
DataShims ==
  [create |-> {"create"}, fallocate |-> {"ok"}, lseek |-> {"lseek"},
   getlk |-> {"lock", "EOVERFLOW"}, setlk |-> {"ok"}, copy_file_range |-> {"write"}]

ForgetShims == [forget |-> {"none"}, forget_multi |-> {"none"}]

ShimTables == {NodeShims, NameShims, FileShims, DirShims, XattrShims, DataShims, ForgetShims}
Ops == UNION {DOMAIN table : table \in ShimTables}

\* The one table that has the operation says what is sent for it.
ShimTable ==
  [o \in Ops |-> UNION {table[o] : table \in {t \in ShimTables : o \in DOMAIN t}}]

\* make_ops: the others are None, and libfuse answers ENOSYS by itself.
Registered ==
  {o \in Ops : /\ o = "readdirplus" => "readdirplus" \in Supports
               /\ o \in {"getlk", "setlk"} => "posix_locks" \in Supports}

\* The operations that take a lease on the open file.
FileOps == {"getattr_fh", "setattr_fh", "read", "write", "flush", "fsync", "fallocate", "lseek",
            "getlk", "setlk"}
Sized == {"read", "readdir", "readdirplus", "getxattr", "listxattr"}
Bad == MaxSize + 1   \* an argument the shim rejects
Args(o) ==
  (IF o \in Sized THEN 0..MaxSize ELSE {0}) \cup
  (IF o \in {"readdir", "readdirplus", "getlk", "setlk"} THEN {Bad} ELSE {})

-----------------------------------------------------------------------------

VARIABLES
  faulty,   \* whether replies may fail, their readers being gone, and destructors
            \* of the filesystem's payloads may panic
  stage,    \* stage[r]: how far the request is
  op, arg,  \* op[r] and its size; Bad for a negative offset or a wrong flock
  result,   \* result[r]: what the call returned: [tag, len], tag "panic", an
            \* error, "size" or "data" for xattrs, or a reply of ShimTable
  sent,     \* sent[r]: the replies, each [kind, len, live], live saying whether
            \* the bytes it points to were still there
  leased,   \* the requests that have a lease on the open file
  payload,  \* the open file's handle: "open", "closing" (release waits), "gone"
  late      \* the requests whose fuse_req_t was used after a reply

shimVars == <<faulty, stage, op, arg, result, sent, leased, payload, late>>

NoResult == [tag |-> "none", len |-> 0]
ReplyKinds == {"EIO", "ERANGE", "EBADF", "ENOENT", "size"} \cup UNION {ShimTable[o] : o \in Ops}

ShimTypeOK ==
  /\ faulty \in BOOLEAN
  /\ stage \in [Reqs -> {"idle", "received", "called", "returned", "sent", "done"}]
  /\ op \in [Reqs -> Ops \cup {"none"}]
  /\ arg \in [Reqs -> 0..Bad]
  /\ leased \subseteq Reqs
  /\ payload \in {"open", "closing", "gone"}
  /\ \A r \in Reqs : \A n \in DOMAIN sent[r] :
       sent[r][n] \in [kind : ReplyKinds, len : 0..Bad, live : BOOLEAN]

ShimInit ==
  /\ faulty \in BOOLEAN
  /\ stage = [r \in Reqs |-> "idle"]
  /\ op = [r \in Reqs |-> "none"]
  /\ arg = [r \in Reqs |-> 0]
  /\ result = [r \in Reqs |-> NoResult]
  /\ sent = [r \in Reqs |-> <<>>]
  /\ leased = {}
  /\ payload = "open"
  /\ late = {}

Advance(r, s) == stage' = [stage EXCEPT ![r] = s] /\ UNCHANGED faulty

\* fuse_reply_*: sends, and frees the request; "again" says that it is used
\* once more after that.
Send(r, k, n, again) ==
  /\ sent' = [sent EXCEPT ![r] = Append(@, [kind |-> k, len |-> n, live |-> payload # "gone"])]
  /\ late' = IF sent[r] # <<>> \/ again THEN late \cup {r} ELSE late

\* libfuse calls the shim.  The kernel releases a file once.
Receive(r, o, a) ==
  /\ stage[r] = "idle"
  /\ o = "release" => \A u \in Reqs : op[u] # "release"
  /\ op' = [op EXCEPT ![r] = o]
  /\ arg' = [arg EXCEPT ![r] = a]
  /\ Advance(r, "received")
  /\ UNCHANGED <<result, sent, leased, payload, late>>

\* Mutant of Reject: the return is missing.
RejectGoesOn(r) ==
  /\ stage[r] = "received" /\ arg[r] = Bad
  /\ Send(r, "EINVAL", 0, FALSE)
  /\ Advance(r, "called")
  /\ UNCHANGED <<op, arg, result, leased, payload>>

\* off < 0, or lock_from_raw fails: an early return.
Reject(r) ==
  /\ stage[r] = "received" /\ arg[r] = Bad
  /\ Send(r, "EINVAL", 0, FALSE)
  /\ Advance(r, "done")
  /\ UNCHANGED <<op, arg, result, leased, payload>>

\* call_fs, as far as the filesystem's method: a file is found and leased, or
\* its number is not in the table any more (EBADF).
Call(r) ==
  /\ stage[r] = "received" /\ arg[r] # Bad
  /\ IF op[r] \in FileOps /\ payload # "open"
       THEN /\ result' = [result EXCEPT ![r] = [tag |-> "EBADF", len |-> 0]]
            /\ Advance(r, "returned")
            /\ UNCHANGED <<leased, payload>>
       ELSE /\ leased' = IF op[r] \in FileOps THEN leased \cup {r} ELSE leased
            /\ payload' = IF op[r] = "release" THEN "closing" ELSE payload
            /\ Advance(r, "called")
            /\ UNCHANGED result
  /\ UNCHANGED <<op, arg, sent, late>>

\* What the method may return.  A filesystem is free in the length of its data;
\* a directory buffer is not longer than it was asked to be.
Returns(r) ==
  {[tag |-> t, len |-> 0] : t \in {"ENOENT", "panic"}} \cup
  CASE op[r] = "read" -> [tag : {"buf"}, len : 0..(MaxSize + 1)]
    [] op[r] \in {"readdir", "readdirplus"} -> [tag : {"buf"}, len : 0..arg[r]]
    [] op[r] \in {"getxattr", "listxattr"} -> [tag : {"size", "data"}, len : 0..(MaxSize + 1)]
    [] OTHER -> [tag : ShimTable[op[r]], len : {0}]

\* Leases are dropped when the runtime's method returns, or unwinds; a read
\* keeps them for the reply, which it makes itself.
Unlease(r, t) == IF op[r] = "read" /\ t # "panic" THEN leased ELSE leased \ {r}

\* The method returns or panics.  release first waits for the leases, and
\* consumes the payload.
Return(r) ==
  /\ stage[r] = "called"
  /\ op[r] = "release" => leased = {}
  /\ \E v \in Returns(r) :
       /\ result' = [result EXCEPT ![r] = v]
       /\ leased' = Unlease(r, v.tag)
  /\ payload' = IF op[r] = "release" THEN "gone" ELSE payload
  /\ Advance(r, "returned")
  /\ UNCHANGED <<op, arg, sent, late>>

-----------------------------------------------------------------------------
(* The replies *)

reply_xattr(v, size) ==
  IF size = 0 THEN <<"size", v.len>>
  ELSE IF v.tag = "size" THEN <<"EIO", 0>>
  ELSE IF v.len > size THEN <<"ERANGE", 0>>
  ELSE <<"buf", v.len>>

\* A panic is EIO; forget has no reply but reply_none, whatever happens.
ShimReply(r) ==
  LET v == result[r]
  IN IF op[r] \in DOMAIN ForgetShims THEN <<"none", 0>>
     ELSE CASE v.tag = "panic" -> <<"EIO", 0>>
            [] v.tag \in {"size", "data"} -> reply_xattr(v, arg[r])
            [] op[r] = "read" /\ v.len > arg[r] -> <<v.tag, arg[r]>>
            [] OTHER -> <<v.tag, v.len>>

\* Mutant of Answer: read drops its leases before it replies.
AnswerUnleased(r, delivered) ==
  LET reading == op[r] = "read" /\ r \in leased
  IN /\ stage[r] = "returned"
     /\ Advance(r, IF reading THEN "returned" ELSE "done")
     /\ leased' = leased \ {r}
     /\ IF reading THEN UNCHANGED <<sent, late>>
        ELSE Send(r, ShimReply(r)[1], ShimReply(r)[2], FALSE)
     /\ UNCHANGED <<op, arg, result, payload>>

\* A read replies with its leases in hand.  readdirplus_shim, if its reply
\* fails, gives back the lookups of the entries: it asks the request for the
\* runtime again.
Answer(r, delivered) ==
  /\ stage[r] = "returned"
  /\ delivered \/ faulty
  /\ Send(r, ShimReply(r)[1], ShimReply(r)[2],
          op[r] = "readdirplus" /\ result[r].tag = "buf" /\ ~delivered)
  /\ Advance(r, IF r \in leased THEN "sent" ELSE "done")
  /\ UNCHANGED <<op, arg, result, leased, payload>>

\* Mutant of DropLeases: the lease is leaked.
DropLeasesLeak(r) ==
  /\ stage[r] = "sent"
  /\ Advance(r, "done")
  /\ UNCHANGED <<op, arg, result, sent, leased, payload, late>>

\* read returns from the runtime: its leases go, and the payload of a node that
\* was forgotten meanwhile with them.  A panic there is answered like any other.
DropLeases(r) ==
  /\ stage[r] = "sent"
  /\ leased' = leased \ {r}
  /\ \/ UNCHANGED <<sent, late>>
     \/ faulty /\ Send(r, "EIO", 0, FALSE)
  /\ Advance(r, "done")
  /\ UNCHANGED <<op, arg, result, payload>>

ReqNext(r) ==
  Reject(r) \/ Call(r) \/ Return(r) \/ DropLeases(r)
  \/ \E delivered \in BOOLEAN : Answer(r, delivered)

ShimNext ==
  \E r \in Reqs : \/ \E o \in Registered : \E a \in Args(o) : Receive(r, o, a)
                  \/ ReqNext(r)

\* A worker that serves a request goes on with it, and the filesystem's methods
\* return.
ShimSpec == ShimInit /\ [][ShimNext]_shimVars /\ \A r \in Reqs : WF_shimVars(ReqNext(r))

-----------------------------------------------------------------------------
(* Properties *)

\* A request is answered exactly once, whatever the filesystem does: an early
\* return, an error, a panic, or a reply that is not delivered.  The exception
\* is a read whose payload panics when it is dropped, after the reply.
AnsweredOnce ==
  \A r \in Reqs : /\ Len(sent[r]) <= 1 \/ (faulty /\ op[r] = "read")
                  /\ stage[r] = "done" => Len(sent[r]) > 0

\* The fuse_req_t is not used after the reply that freed it (holder_of,
\* "associated with an in-flight request").
\* But for that read, and a readdirplus whose reply failed.
ReqInFlight ==
  \A r \in late : faulty /\ (op[r] = "read" \/ (op[r] = "readdirplus" /\ result[r].tag = "buf"))

\* The kernel takes no more bytes than it asked for, and a size only when it
\* asked for none: a longer reply would be dropped as malformed.
ReplyFits ==
  \A r \in Reqs : \A n \in DOMAIN sent[r] :
    LET s == sent[r][n]
    IN /\ s.kind = "buf" => s.len <= arg[r]
       /\ s.kind = "size" => arg[r] = 0 /\ op[r] \in {"getxattr", "listxattr"}
       /\ s.kind = "buf" /\ op[r] \in {"getxattr", "listxattr"} => arg[r] > 0

\* "Runs the reply continuation before releasing node and handle leases"
\* (Runtime::read): the bytes of a read reply may be borrowed from the payload,
\* which is there when they are sent, although a release waits for it.
BytesLive ==
  \A r \in Reqs : \A n \in DOMAIN sent[r] :
    op[r] = "read" /\ sent[r][n].kind = "buf" => sent[r][n].live

\* Every request is answered; a release too, although it waits for the leases
\* of others, and also when those panic.
Answered == \A r \in Reqs : stage[r] = "received" ~> stage[r] = "done"

\* The life of a request at the shims: one answer, and no use of it afterwards.
ReqProtocol == ShimTypeOK /\ AnsweredOnce /\ ReqInFlight

\* What the kernel is sent: no more than it asked for, and bytes that are there.
ReplyRight == ReplyFits /\ BytesLive
=============================================================================
