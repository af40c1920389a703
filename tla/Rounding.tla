------------------------------ MODULE Rounding ------------------------------
(* round_down and round_up of drivers/utils.c, whose bit masks are these
   functions for the powers of two they are called with. *)
EXTENDS Naturals

RoundDown(n, unit) == n - (n % unit)
RoundUp(n, unit) == RoundDown(n + unit - 1, unit)
=============================================================================
