---------------------------- MODULE MCControlApi ----------------------------
(* An instance of ControlApi for TLC. *)
EXTENDS ControlApi

AskAny == [Client -> Request]
=============================================================================
