------------------------------- MODULE MCAcpTurn -------------------------------
(* A small instance of AcpTurn: two protected options. *)
EXTENDS AcpTurn

TwoOptions == <<"model", "effort">>
================================================================================
