---------------------------- MODULE MCShopCatalog ----------------------------
(* ShopCatalog with one e-mail, one level, two products that collects name.  *)
EXTENDS ShopCatalog

\* A product and a customer; two customers with the same e-mail.
MCFixtures ==
  UNION {{<<ProductEntry, CustomerEntry(e)>>, <<CustomerEntry(e), CustomerEntry(e)>>} : e \in Emails}

MCSamples == <<ProductEntry, CustomerEntry(CHOOSE e \in Emails : TRUE), OrderEntry>>

MCPairs == {<<1, 1>>}
MCAmounts == {-1, 1}
=============================================================================
