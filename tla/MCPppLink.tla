----------------------------- MODULE MCPppLink ------------------------------
(***************************************************************************)
(* Instances of PppLink for TLC.                                           *)
(***************************************************************************)
EXTENDS PppLink

\* The gateway asks for option 1 and follows a hint, like an address that the
\* peer assigns; the peer asks for 2, which the gateway does not accept, and
\* follows no hint.
MCWanted == <<1, 2>>
MCAcceptable == <<{1}, {2}>>
MCHint == <<1, 2>>
MCAdopts == <<{2}, {}>>

PlainFlags == <<{}, {}>>
RestartFlags == <<{"RESTART"}, {}>>
SilentFlags == <<{}, {"SILENT"}>>
=============================================================================
