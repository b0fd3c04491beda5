----------------------------- MODULE MCShopInstall -----------------------------
(***************************************************************************)
(* Two codes, one token granted without a code, one seeded token for either *)
(* of two shops, two charges, a lifetime of one second over three.          *)
(***************************************************************************)
EXTENDS ShopInstall

CONSTANTS c1, c2, refreshed, given, dev, other
MCCodes == {c1, c2}
MCDirect == {refreshed}
MCSeeded == {given}
MCShops == {dev, other}
=============================================================================
