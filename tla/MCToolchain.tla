------------------------------ MODULE MCToolchain -----------------------------
(* The instances of Toolchain that TLC checks: see README.md for the bounds. *)
EXTENDS Toolchain

CONSTANTS older, newer

(* Release 1 is made for the older game version, release 2 for the newer.    *)
MCGameOf == <<older, newer>>
===============================================================================
