------------------------------ MODULE MCWindow ------------------------------
(***************************************************************************)
(* Small instances, for TLC, of the coordinator of the quit and of the     *)
(* controllers of the window, which share no variables. As in MCParts, a   *)
(* behaviour is one of a single part while the others stay in an initial   *)
(* state.                                                                  *)
(***************************************************************************)
EXTENDS AppLifecycle, NarrationView, ContextEditing

CONSTANT Parts

VARIABLE subject

\* The quit begins with or without a turn: only its own behaviours take both.
WindowInit ==
  /\ subject \in Parts
  /\ Init /\ (subject # "quit" => ~turnActive)
  /\ NarrationViewInit /\ ContextInit

StepOf(part) == subject = part /\ UNCHANGED subject

WindowNext ==
  \/ StepOf("quit") /\ Next /\ UNCHANGED <<narrationViewVars, contextVars>>
  \/ StepOf("speech") /\ NarrationViewNext /\ UNCHANGED <<vars, contextVars>>
  \/ StepOf("context") /\ ContextNext /\ UNCHANGED <<vars, narrationViewVars>>

windowVars == <<subject, vars, narrationViewVars, contextVars>>

WindowSpec == WindowInit /\ [][WindowNext]_windowVars

\* No task of the quit has a step in the initial states of the other parts.
WindowFairSpec ==
  WindowSpec /\ \A s \in TaskSlots : WF_vars(TaskStep(s)) /\ WF_vars(Exit)
=============================================================================
