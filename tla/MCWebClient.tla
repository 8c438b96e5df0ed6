----------------------------- MODULE MCWebClient -----------------------------
(***************************************************************************)
(* Pages for WebClient.                                                    *)
(***************************************************************************)
EXTENDS WebClient

CONSTANTS kitchen, phone

MCPages == {kitchen, phone}
==============================================================================
