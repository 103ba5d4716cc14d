---------------------------- MODULE MCRecognizer ----------------------------
(* Values for the constants of Recognizer: how a program uses it.          *)
EXTENDS Recognizer

Build(autoClose, lazy, config) ==
  [autoClose |-> autoClose, lazy |-> lazy, config |-> config]

EagerBuild == {Build(FALSE, FALSE, TRUE)}
LazyBuild == {Build(FALSE, TRUE, TRUE)}
EagerAndAuto == {Build(FALSE, FALSE, TRUE), Build(TRUE, TRUE, TRUE)}
TurnBuilds == EagerAndAuto \cup {Build(TRUE, FALSE, FALSE)}
AutoBuild == {Build(TRUE, TRUE, TRUE)}

(* Any call after any other.                                               *)
AnyUsage == Outcomes \X Calls

(* Any call but cancelRecognition.                                         *)
NoCancelUsage == Outcomes \X (Calls \ {"cancel"})

(***************************************************************************)
(* The program of the README and of most tests: every recognize() is       *)
(* followed by waits until one returns results, then by the next           *)
(* recognize(), another wait, or the end.                                  *)
(***************************************************************************)
TurnUsage ==
  {<<"built", "recognize">>, <<"built", "destroy">>, <<"started", "wait">>,
   <<"timeout", "wait">>, <<"results", "recognize">>, <<"results", "wait">>,
   <<"results", "close">>, <<"results", "destroy">>, <<"refused", "wait">>,
   <<"error", "close">>, <<"error", "destroy">>, <<"closed", "destroy">>}

(***************************************************************************)
(* The same, and everything else a program may do that never cancels and   *)
(* waits, once recognize() returned, until a wait returns results or       *)
(* throws: recognize() and waits after an error or a close() as well.      *)
(***************************************************************************)
TurnsUsage ==
  {u \in NoCancelUsage : u[1] \in {"started", "timeout", "refused"} => u[2] = "wait"}

(* Turns, each of which may be canceled as cancelWhileRecognize does.      *)
CancelUsage ==
  TurnUsage \cup {<<"started", "cancel">>, <<"canceled", "wait">>}

(* The calls of the test closeWhileRecognize.                              *)
CloseUsage ==
  {<<"built", "recognize">>, <<"started", "close">>, <<"closed", "wait">>,
   <<"results", "destroy">>, <<"error", "destroy">>}
=============================================================================
