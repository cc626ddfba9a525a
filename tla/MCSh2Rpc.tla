----------------------------- MODULE MCSh2Rpc -----------------------------
(***************************************************************************)
(* TLC instance of Sh2Rpc: three-bit words, so that dividends, quotients,  *)
(* stream addresses and lengths can be taken for one another, as they can  *)
(* in the 32-bit registers.                                                *)
(***************************************************************************)
EXTENDS Sh2Rpc

MCWord == 0..7
MCDivQ(x, y) == IF y = 0 THEN 7 ELSE x \div y
MCDivR(x, y) == IF y = 0 THEN 0 ELSE x % y
MCLzLength(x) == (3 * x + 1) % 8
===========================================================================
