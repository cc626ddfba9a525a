---------------------------- MODULE MCMapLayer ----------------------------
(***************************************************************************)
(* TLC instance of MapLayer; every constant is a number or a Boolean and   *)
(* is given in the cfg.                                                    *)
(***************************************************************************)
EXTENDS MapLayer
===========================================================================
