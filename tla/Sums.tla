--------------------------------- MODULE Sums ---------------------------------
(***************************************************************************)
(* The sum of what a budget or a ledger lists, an amount for each of its   *)
(* entries.                                                                *)
(***************************************************************************)
EXTENDS FiniteSetsExt, Integers

Total(amount, S) == MapThenSumSet(LAMBDA x : amount[x], S)
===============================================================================
