------------------------------ MODULE MCCatalog ------------------------------
(* One product that a file and administrators write, one that a form can   *)
(* make in its way, and the signage.                                       *)
EXTENDS Catalog, TLC

Form(slug, master, type) ==
  [slug |-> slug, master |-> master, type |-> type, active |-> TRUE, text |-> "typed"]
SkuOf(code, kind, text) ==
  [code |-> code, kind |-> kind, variant |-> "red", active |-> TRUE, text |-> text]
OptionOf(name, text) == [name |-> name, active |-> TRUE, text |-> text]

MCProductForms == {Form("other", "Q", "subscription")}
MCSkuForms == {SkuOf("P-1", "addon", "listed")}
MCOptionForms == {OptionOf("pickup", "listed")}
MCFixtures ==
  {[product |-> Form("print", "P", "one_time"),
    skus |-> <<SkuOf("P-1", "primary", "listed")>>,
    options |-> <<OptionOf("Pickup", "listed")>>]}
MCSignage ==
  [product |-> Form("signage", "P", "one_time"),
   skus |-> <<SkuOf("P-1", "primary", "listed")>>,
   options |-> <<>>]
\* The default image of the first product, and the first SKU's.
MCImageForms == {[product |-> 1, sku |-> 1, addon |-> 0]}
MCFoldOf == ("Pickup" :> "pickup") @@ ("pickup" :> "pickup")
=============================================================================
