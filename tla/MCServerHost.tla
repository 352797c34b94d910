---------------------------- MODULE MCServerHost ----------------------------
(***************************************************************************)
(* Small instances of ServerHost for TLC.  No symmetry: the run has        *)
(* temporal properties.                                                    *)
(***************************************************************************)
EXTENDS ServerHost
=============================================================================
