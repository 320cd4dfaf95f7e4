----------------------------- MODULE MCStarmap -----------------------------
(***************************************************************************)
(* Instances of Starmap for TLC.                                           *)
(***************************************************************************)
EXTENDS Starmap

CONSTANTS a, b, c

ArgsAB  == <<a, b>>
ArgsABC == <<a, b, c>>
NotSet  == -1

=============================================================================
