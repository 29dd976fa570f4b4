----------------------------- MODULE MCSession -----------------------------
(***************************************************************************)
(* Model checking of the modules about the threads of a session: its life  *)
(* from mount to drop, the workers that serve requests which wait, and the *)
(* table of open handles that they lease from and release into.  The       *)
(* modules share no state, so a behaviour is about one of them, its        *)
(* subject, and the others stay as they are.                               *)
(***************************************************************************)
EXTENDS Session, LockDispatch, HandleTable

VARIABLES subject

allVars == <<subject, sessionVars, dispatchVars, vars>>

AllInit ==
  /\ subject \in {"session", "dispatch", "handles"}
  /\ SessionInit /\ DispatchInit /\ Init
  /\ subject # "handles" => LET n == CHOOSE n \in Nodes : TRUE
                           IN node = [h \in Fh |-> n] /\ ino = [t \in Threads |-> n]

About(s) == subject = s /\ UNCHANGED subject

AllNext ==
  \/ About("session") /\ SessionNext /\ UNCHANGED <<dispatchVars, vars>>
  \/ About("dispatch") /\ DispatchNext /\ UNCHANGED <<sessionVars, vars>>
  \/ About("handles") /\ Next /\ UNCHANGED <<sessionVars, dispatchVars>>

\* The fairness of DispatchSpec and FairSpec, for the subject.
Fairness ==
  /\ \A c \in Clients : /\ WF_dispatchVars(subject = "dispatch" /\ WorkerNext(c))
                        /\ WF_dispatchVars(subject = "dispatch" /\ Unlock(c))
  /\ \A t \in Threads : WF_vars(subject = "handles" /\ Step(t))

AllSpec == AllInit /\ [][AllNext]_allVars /\ Fairness
=============================================================================
