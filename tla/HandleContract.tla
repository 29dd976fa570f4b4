--------------------------- MODULE HandleContract ---------------------------
(***************************************************************************)
(* What the runtime promises a filesystem about the handles it returned    *)
(* from `open`, `opendir` and `create`, with no word about how: a handle   *)
(* is used by callbacks while it is alive, several at once, and its value  *)
(* is given up (to `release`/`releasedir`, or to its destructor) once and  *)
(* only when no callback is using it.  HandleTable implements this.        *)
(***************************************************************************)
EXTENDS Naturals

CONSTANTS Threads, Fh

VARIABLES
  born,      \* the handles issued so far
  users,     \* users[h]: the threads whose callback is using h
  consumed   \* consumed[h]: how often the value of h was given up

vars == <<born, users, consumed>>

Init ==
  /\ born = {}
  /\ users = [h \in Fh |-> {}]
  /\ consumed = [h \in Fh |-> 0]

\* A callback returned a new handle.
Issue(h) ==
  /\ h \notin born
  /\ born' = born \cup {h}
  /\ UNCHANGED <<users, consumed>>

\* A callback on h starts: only while the value is still there.
Begin(t, h) ==
  /\ h \in born
  /\ consumed[h] = 0
  /\ t \notin users[h]
  /\ users' = [users EXCEPT ![h] = @ \cup {t}]
  /\ UNCHANGED <<born, consumed>>

\* The callback returns, or unwinds from a panic.
End(t, h) ==
  /\ t \in users[h]
  /\ users' = [users EXCEPT ![h] = @ \ {t}]
  /\ UNCHANGED <<born, consumed>>

\* The value is given up: exactly once, and under nobody's feet.
Consume(h) ==
  /\ h \in born
  /\ consumed[h] = 0
  /\ users[h] = {}
  /\ consumed' = [consumed EXCEPT ![h] = 1]
  /\ UNCHANGED <<born, users>>

Next ==
  \E h \in Fh :
    \/ Issue(h)
    \/ Consume(h)
    \/ \E t \in Threads : Begin(t, h) \/ End(t, h)

Spec == Init /\ [][Next]_vars
=============================================================================
