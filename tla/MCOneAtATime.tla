-------------------------- MODULE MCOneAtATime ---------------------------
(***************************************************************************)
(* One process, so one command at a time, and a plan of another state root *)
(* beside one of this root.  The operator keeps asking for the rollback of *)
(* each operation; any finite number of commands is cut short.             *)
(***************************************************************************)
EXTENDS LifecycleProperties

CONSTANTS p1, home, foreign, g1, g2

(* A step that only a death or an error explains: the end of a verify looks
   like one too. *)
CutShort == Abort(p1) /\ ~Continue(p1)

(* A process that is not cut short goes on to its next call (WF).  The operator
   asks for a rollback again and again, though other commands may come first
   (SF), and the machine does not cut commands short for ever (<>[]): both are
   assumptions on the surroundings, not on the code. *)
TurnSpec ==
  /\ Spec
  /\ WF_vars(Continue(p1))
  /\ \A o \in Ops : SF_vars(StartRollback(p1, o))
  /\ <>[][~CutShort]_vars

(* A rollback cut short anywhere, and any number of times, can be run again: an
   operation with a journal and its backup in place is in the end rolled back,
   its metadata all gone or at least its entry id, unless a save of its journal
   was cut short (service.rs:326-346, 748-764). *)
RollbackCompletes ==
  \A o \in Ops :
    Loadable(o) /\ journal[o].plan \in HomePlans ~>
      \/ HasStatus(o, "rolled-back") /\ ~HasEntryId(o)
      \/ journal[o] = Torn /\ Quiet

=============================================================================
