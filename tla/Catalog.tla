------------------------------- MODULE Catalog -------------------------------
(***************************************************************************)
(* The catalog (internal/commerce/catalog.go, fixture.go, images.go and    *)
(* signage.go) and who writes to it: the administrators' pages             *)
(* (internal/web/admin_commerce.go, admin_catalog.go), the fixture command *)
(* (cmd/catalog) and the server's start.                                   *)
(*                                                                         *)
(* One statement or transaction is one step.  SQLite never deletes a row   *)
(* of these tables here, so a table is the sequence of its rows and a row  *)
(* id is an index of it.  CreateSKU, UpdateSKU and their like for shipping *)
(* options read the product in one call and write in another: pending is   *)
(* what a request will write, once the product has allowed it.             *)
(*                                                                         *)
(* Slugs, SKUs and master SKUs stand for what NOCASE compares.  text is    *)
(* every column no rule looks at: names, prices, inventory, sort order.    *)
(***************************************************************************)
EXTENDS Naturals, Sequences

CONSTANTS
  Requests,      \* requests of administrators under way at once
  Commands,      \* fixture commands running at once
  ProductForms,  \* what is typed into a product form
  SkuForms,      \* what is typed into a SKU form, a primary's or an add-on's
  OptionForms,   \* what is typed into a form of a shipping option
  Fixtures,      \* the files the command is given
  Signage,       \* the product and the SKUs EnsureSignageCatalog brings
  FoldOf,        \* what strings.EqualFold compares of a shipping option's name
  Files,         \* the images, by the hash of their content
  ImageForms,    \* the slots chosen on the image form
  MaxProducts, MaxSkus, MaxOptions  \* bounds: the rows of a table

New == 0  \* no row yet

Writers == Requests \cup Commands

Types == {"one_time", "subscription"}

\* The rows of a table, which is a sequence of them.
Rows(table) == {table[id] : id \in DOMAIN table}
Table(table) == table \in Seq(Rows(table))

ProductForm(f) ==
  /\ f = [slug |-> f.slug, master |-> f.master, type |-> f.type, active |-> f.active,
          text |-> f.text]
  /\ f.type \in Types /\ f.active \in BOOLEAN

SkuForm(f) ==
  /\ f = [code |-> f.code, kind |-> f.kind, variant |-> f.variant, active |-> f.active,
          text |-> f.text]
  /\ f.kind \in {"primary", "addon"} /\ f.active \in BOOLEAN

OptionForm(f) ==
  /\ f = [name |-> f.name, active |-> f.active, text |-> f.text]
  /\ f.name \in DOMAIN FoldOf /\ f.active \in BOOLEAN

Fixture(f) ==
  /\ DOMAIN f = {"product", "skus", "options"}
  /\ ProductForm(f.product)
  /\ Table(f.skus) /\ \A i \in DOMAIN f.skus : SkuForm(f.skus[i])
  /\ Table(f.options) /\ \A i \in DOMAIN f.options : OptionForm(f.options[i])

\* A file that tells its SKUs and options apart; a subscription lists neither
\* add-ons nor shipping.
WellFormed(fixture) ==
  /\ \A i, j \in DOMAIN fixture.skus :
       /\ fixture.skus[i].code = fixture.skus[j].code
          \/ (/\ fixture.skus[i].variant = fixture.skus[j].variant
              /\ {fixture.skus[i].kind, fixture.skus[j].kind} = {"primary"})
       => i = j
  /\ \A i, j \in DOMAIN fixture.options :
       FoldOf[fixture.options[i].name] = FoldOf[fixture.options[j].name] => i = j
  /\ fixture.product.type = "subscription" =>
       /\ fixture.options = <<>>
       /\ \A i \in DOMAIN fixture.skus : fixture.skus[i].kind = "primary"

\* The codes and options of EnsureSignageCatalog's SKUs differ, and it has no
\* shipping options (signage.go:47-58); nothing is asked of the other files.
ASSUME CatalogAssumption ==
  /\ \A f \in ProductForms : ProductForm(f)
  /\ \A f \in SkuForms : SkuForm(f)
  /\ \A f \in OptionForms : OptionForm(f)
  /\ \A f \in Fixtures \cup {Signage} : Fixture(f)
  /\ WellFormed(Signage)
  /\ \A slot \in ImageForms :
       /\ DOMAIN slot = {"product", "sku", "addon"}
       /\ slot.sku = 0 => slot.addon = 0
  /\ Requests \cap Commands = {}
  /\ MaxProducts \in Nat /\ MaxSkus \in Nat /\ MaxOptions \in Nat

VARIABLES
  products,  \* the rows of commerce_products
  skus,      \* the rows of commerce_skus
  options,   \* the rows of commerce_product_shipping_options
  images,    \* the rows of commerce_product_images: the file, by slot
  files,     \* the files in MEDIA_DIR
  seeded,    \* the tombstone in commerce_catalog_seeds
  pending,   \* what each writer will write
  runs       \* how far each run of the fixture command has come

tables == <<products, skus, options>>
catalogVars == <<products, skus, options, images, files, seeded, pending, runs>>

Nothing == [table |-> "none"]
NoRun == [stage |-> "none"]

Row(product, form) == [product |-> product, form |-> form]

\* The UNIQUE constraints, for a row with the id.
ProductFits(id, form) ==
  \A p \in DOMAIN products \ {id} :
    products[p].slug # form.slug /\ products[p].master # form.master

SkuFits(id, row) ==
  \A s \in DOMAIN skus \ {id} :
    /\ skus[s].form.code # row.form.code
    /\ \/ skus[s].product # row.product
       \/ "addon" \in {skus[s].form.kind, row.form.kind}
       \/ skus[s].form.variant # row.form.variant

OptionFits(id, row) ==
  \A o \in DOMAIN options \ {id} :
    options[o].product # row.product \/ options[o].form.name # row.form.name

\* A row names a product that is there.
SkuRow(row) ==
  row = Row(row.product, row.form) /\ row.product \in DOMAIN products /\ SkuForm(row.form)

OptionRow(row) ==
  row = Row(row.product, row.form) /\ row.product \in DOMAIN products /\ OptionForm(row.form)

Pending(job) ==
  \/ job = Nothing
  \/ job.table = "sku" /\ job.id \in {New} \cup DOMAIN skus /\ SkuRow(job.row)
  \/ job.table = "option" /\ job.id \in {New} \cup DOMAIN options /\ OptionRow(job.row)
  \/ job \in [table : {"image"}, slot : ImageForms, file : Files, stored : BOOLEAN]

Stages == {"slug", "save", "read", "list", "sku", "applied", "refused"}

\* names holds the names of shipping options read before, by their ids.
RunRecord ==
  [stage : Stages, fixture : Fixtures,
   product : {New} \cup DOMAIN products, found : {New} \cup DOMAIN skus,
   names : UNION {[ids -> DOMAIN FoldOf] : ids \in SUBSET DOMAIN options},
   next : Nat, asListed : BOOLEAN, undisturbed : BOOLEAN]

Run(run) ==
  \/ run = NoRun
  \/ /\ run \in RunRecord
     /\ run.next \in 1..(Len(run.fixture.skus) + Len(run.fixture.options) + 1)

\* The columns' types, the foreign keys and the UNIQUE indexes.
ProductsOK ==
  /\ Table(products)
  /\ \A p \in DOMAIN products : ProductForm(products[p]) /\ ProductFits(p, products[p])

SkusOK ==
  /\ Table(skus)
  /\ \A s \in DOMAIN skus : SkuRow(skus[s]) /\ SkuFits(s, skus[s])

OptionsOK ==
  /\ Table(options)
  /\ \A o \in DOMAIN options : OptionRow(options[o]) /\ OptionFits(o, options[o])

ImagesOK ==
  /\ DOMAIN images \subseteq ImageForms
  /\ \A slot \in DOMAIN images :
       /\ slot.product \in DOMAIN products
       /\ {slot.sku, slot.addon} \ {0} \subseteq DOMAIN skus

CatalogTypeOK ==
  /\ ProductsOK /\ SkusOK /\ OptionsOK /\ ImagesOK
  /\ files \subseteq Files
  /\ seeded \in BOOLEAN
  /\ DOMAIN pending = Writers /\ DOMAIN runs = Writers
  /\ \A w \in Writers : Pending(pending[w]) /\ Run(runs[w])

CatalogInit ==
  /\ products = <<>> /\ skus = <<>> /\ options = <<>>
  /\ images = [slot \in {} |-> 0]
  /\ files = {}
  /\ seeded = FALSE
  /\ pending = [w \in Writers |-> Nothing]
  /\ runs = [w \in Writers |-> NoRun]

-----------------------------------------------------------------------------
(* The tables.                                                             *)

\* The table once the row is inserted, or written over the one with the id.
Stored(table, id, row) == IF id = New THEN Append(table, row) ELSE [table EXCEPT ![id] = row]

HasRoom(table, id, bound) == id # New \/ Len(table) < bound

\* The id the row has then.
IdOf(table, id) == IF id = New THEN Len(table) + 1 ELSE id

\* What the product a row is for says to it.
AllowsSku(row) == products[row.product].type = "one_time" \/ row.form.kind = "primary"

AllowsOption(row) == products[row.product].type = "one_time"

\* Somebody else has written to the catalog since the run began.
Disturb(run) ==
  IF run = NoRun THEN run ELSE [run EXCEPT !.undisturbed = FALSE, !.asListed = FALSE]

Disturbed(w) == [v \in Writers |-> IF v = w THEN runs[v] ELSE Disturb(runs[v])]

DisturbedAll == [v \in Writers |-> Disturb(runs[v])]

\* A run is over, with everything applied or because a write was refused.
Over(run, stage) ==
  [run EXCEPT !.stage = stage, !.found = New, !.names = [o \in {} |-> ""], !.next = 1]

-----------------------------------------------------------------------------
(* The administrators' pages.                                              *)

\* CreateProduct and UpdateProduct; whether the add-ons and options there are
\* fit the type is not looked at.
SavesProduct(id, form) ==
  /\ HasRoom(products, id, MaxProducts) /\ ProductFits(id, form)
  /\ products' = Stored(products, id, form)
  /\ runs' = DisturbedAll
  /\ UNCHANGED <<skus, options, images, files, seeded, pending>>

SetsProductActive(id, active) ==
  /\ products' = [products EXCEPT ![id].active = active]
  /\ runs' = DisturbedAll
  /\ UNCHANGED <<skus, options, images, files, seeded, pending>>

\* SetSKUActive, and DeleteSKU with active FALSE.
SetsSkuActive(id, active) ==
  /\ skus' = [skus EXCEPT ![id].form.active = active]
  /\ runs' = DisturbedAll
  /\ UNCHANGED <<products, options, images, files, seeded, pending>>

DeletesOption(id) ==
  /\ options' = [options EXCEPT ![id].form.active = FALSE]
  /\ runs' = DisturbedAll
  /\ UNCHANGED <<products, skus, images, files, seeded, pending>>

\* The first call of createSKU or UpdateSKU; UpdateSKU takes any SKU's id for
\* any product.
AsksForSku(w, id, row) ==
  /\ pending[w] = Nothing
  /\ AllowsSku(row)
  /\ pending' = [pending EXCEPT ![w] = [table |-> "sku", id |-> id, row |-> row]]
  /\ UNCHANGED <<products, skus, options, images, files, seeded, runs>>

AsksForOption(w, id, row) ==
  /\ pending[w] = Nothing
  /\ AllowsOption(row)
  /\ pending' = [pending EXCEPT ![w] = [table |-> "option", id |-> id, row |-> row]]
  /\ UNCHANGED <<products, skus, options, images, files, seeded, runs>>

\* Mutant of SlotFits: the statement trusts the form.
SlotNamesProduct(slot) == slot.product \in DOMAIN products

\* The slot's primary and add-on are the product's.
SlotFits(slot) ==
  /\ slot.product \in DOMAIN products
  /\ slot.sku # 0 =>
       /\ slot.sku \in DOMAIN skus
       /\ skus[slot.sku].product = slot.product /\ skus[slot.sku].form.kind = "primary"
  /\ slot.addon # 0 =>
       /\ slot.addon \in DOMAIN skus
       /\ skus[slot.addon].product = slot.product /\ skus[slot.addon].form.kind = "addon"

\* Mutant of AsksForImage: the row is written with the file still to come.
AsksWithoutFile(w, slot, file) ==
  /\ pending[w] = Nothing
  /\ SlotFits(slot)
  /\ pending' = [pending EXCEPT ![w] =
       [table |-> "image", slot |-> slot, file |-> file, stored |-> TRUE]]
  /\ UNCHANGED <<products, skus, options, images, files, seeded, runs>>

\* adminCatalogImage reads the product and compares the slot with it.
AsksForImage(w, slot, file) ==
  /\ pending[w] = Nothing
  /\ SlotFits(slot)
  /\ pending' = [pending EXCEPT ![w] =
       [table |-> "image", slot |-> slot, file |-> file, stored |-> FALSE]]
  /\ UNCHANGED <<products, skus, options, images, files, seeded, runs>>

\* Import links the finished file to the hash of its content.
ImportsImage(w) ==
  /\ pending[w].table = "image" /\ ~pending[w].stored
  /\ files' = files \cup {pending[w].file}
  /\ pending' = [pending EXCEPT ![w].stored = TRUE]
  /\ UNCHANGED <<products, skus, options, images, seeded, runs>>

\* SetProductImage: the statement compares the slot once more.
SetsImage(w) ==
  /\ pending[w].table = "image" /\ pending[w].stored
  /\ LET slot == pending[w].slot
     IN  images' = IF SlotFits(slot)
                   THEN [s \in DOMAIN images \cup {slot} |->
                           IF s = slot THEN pending[w].file ELSE images[s]]
                   ELSE images
  /\ pending' = [pending EXCEPT ![w] = Nothing]
  /\ UNCHANGED <<products, skus, options, files, seeded, runs>>

-----------------------------------------------------------------------------
(* The write of a SKU or an option, a request's or a run's.                *)

\* What becomes of the run of w, if it is one, once its write has gone through
\* or was refused.
Goes(all, w) ==
  IF all[w] = NoRun THEN all
  ELSE [all EXCEPT ![w].stage = "list", ![w].next = @ + 1, ![w].found = New]

Refuses(w) == IF runs[w] = NoRun THEN runs ELSE [runs EXCEPT ![w] = Over(@, "refused")]

WritesSku(w) ==
  /\ pending[w].table = "sku"
  /\ LET id  == pending[w].id
         row == pending[w].row
     IN  /\ HasRoom(skus, id, MaxSkus)
         /\ IF SkuFits(id, row)
            THEN skus' = Stored(skus, id, row) /\ runs' = Goes(Disturbed(w), w)
            ELSE runs' = Refuses(w) /\ UNCHANGED skus
  /\ pending' = [pending EXCEPT ![w] = Nothing]
  /\ UNCHANGED <<products, options, images, files, seeded>>

WritesOption(w) ==
  /\ pending[w].table = "option"
  /\ LET id  == pending[w].id
         row == pending[w].row
     IN  /\ HasRoom(options, id, MaxOptions)
         /\ IF OptionFits(id, row)
            THEN options' = Stored(options, id, row) /\ runs' = Goes(Disturbed(w), w)
            ELSE runs' = Refuses(w) /\ UNCHANGED options
  /\ pending' = [pending EXCEPT ![w] = Nothing]
  /\ UNCHANGED <<products, skus, images, files, seeded>>

-----------------------------------------------------------------------------
(* The fixture command: ApplyProductFixture.                               *)

BySlug(fixture) == {p \in DOMAIN products : products[p].slug = fixture.product.slug}
ByMaster(fixture) == {p \in DOMAIN products : products[p].master = fixture.product.master}

\* The one id of the set, or none.
IdIn(ids) == IF ids = {} THEN New ELSE CHOOSE id \in ids : TRUE

\* The product has the fixture's columns, and its SKUs and options with it.
Lists(p, fixture) ==
  /\ products[p] = fixture.product
  /\ \A i \in DOMAIN fixture.skus : \E s \in DOMAIN skus : skus[s] = Row(p, fixture.skus[i])
  /\ \A i \in DOMAIN fixture.options :
       \E o \in DOMAIN options : options[o] = Row(p, fixture.options[i])

Applied(fixture) == \E p \in DOMAIN products : Lists(p, fixture)

\* The names of shipping options a run would take for one the fixture lists.
Taken(fixture, name) ==
  \E i \in DOMAIN fixture.options : FoldOf[fixture.options[i].name] = FoldOf[name]

\* The fixture's shipping options are told apart without regard to case, and
\* so are those of the product.
NamesAreClear(fixture) ==
  \A o, q \in DOMAIN options :
    /\ options[o].product = options[q].product
    /\ FoldOf[options[o].form.name] = FoldOf[options[q].form.name]
    => o = q

\* fixtureProduct: the product with the slug.
BeginsRun(w, fixture) ==
  /\ runs[w] = NoRun
  /\ runs' = [runs EXCEPT ![w] =
       [stage |-> "slug", fixture |-> fixture, product |-> IdIn(BySlug(fixture)),
        found |-> New, names |-> [o \in {} |-> ""], next |-> 1,
        asListed |-> Applied(fixture) /\ NamesAreClear(fixture), undisturbed |-> TRUE]]
  /\ UNCHANGED <<products, skus, options, images, files, seeded, pending>>

\* fixtureProduct: the product with the master SKU, which must not be another.
FindsMaster(w) ==
  /\ runs[w].stage = "slug"
  /\ LET slug   == runs[w].product
         master == IdIn(ByMaster(runs[w].fixture))
     IN  runs' = IF New \notin {slug, master} /\ slug # master
                 THEN Refuses(w)
                 ELSE [runs EXCEPT ![w].stage = "save",
                         ![w].product = IF slug # New THEN slug ELSE master]
  /\ UNCHANGED <<products, skus, options, images, files, seeded, pending>>

\* CreateProduct or UpdateProduct, up to its statement.
WritesProduct(w) ==
  /\ runs[w].stage = "save"
  /\ LET id   == runs[w].product
         form == runs[w].fixture.product
     IN  /\ HasRoom(products, id, MaxProducts)
         /\ IF ProductFits(id, form)
            THEN /\ products' = Stored(products, id, form)
                 /\ runs' = [Disturbed(w) EXCEPT ![w].stage = "read", ![w].product = IdOf(products, id)]
            ELSE runs' = Refuses(w) /\ UNCHANGED products
  /\ UNCHANGED <<skus, options, images, files, seeded, pending>>

\* Mutant of ReadsProduct: the product comes back without its options.
ReadsNoOptions(w) ==
  /\ runs[w].stage = "read"
  /\ runs' = [runs EXCEPT ![w].stage = "list"]
  /\ UNCHANGED <<products, skus, options, images, files, seeded, pending>>

\* The product is read back with its shipping options; they are what the run
\* looks the fixture's options up in later.
ReadsProduct(w) ==
  /\ runs[w].stage = "read"
  /\ LET own == {o \in DOMAIN options : options[o].product = runs[w].product}
     IN  runs' = [runs EXCEPT ![w].stage = "list",
                    ![w].names = [o \in own |-> options[o].form.name]]
  /\ UNCHANGED <<products, skus, options, images, files, seeded, pending>>

SkusToGo(run) == run.next <= Len(run.fixture.skus)
NextSku(run) == Row(run.product, run.fixture.skus[run.next])
NextOption(run) == Row(run.product, run.fixture.options[run.next - Len(run.fixture.skus)])

\* Mutant of FindsSku: a SKU the product has already is left as it is.
SkipsKnownSku(w) ==
  /\ runs[w].stage = "list" /\ SkusToGo(runs[w])
  /\ LET found == IdIn({s \in DOMAIN skus : skus[s].form.code = NextSku(runs[w]).form.code})
     IN  runs' = IF found = New THEN [runs EXCEPT ![w].stage = "sku"]
                 ELSE IF skus[found].product = runs[w].product THEN Goes(runs, w)
                 ELSE Refuses(w)
  /\ UNCHANGED <<products, skus, options, images, files, seeded, pending>>

\* Mutant of FindsSku: a SKU there is taken for any product.
FindsAnySku(w) ==
  /\ runs[w].stage = "list" /\ SkusToGo(runs[w])
  /\ LET found == IdIn({s \in DOMAIN skus : skus[s].form.code = NextSku(runs[w]).form.code})
     IN  runs' = [runs EXCEPT ![w].stage = "sku", ![w].found = found]
  /\ UNCHANGED <<products, skus, options, images, files, seeded, pending>>

\* SKUByCode: a SKU of another product ends the run.
FindsSku(w) ==
  /\ runs[w].stage = "list" /\ SkusToGo(runs[w])
  /\ LET found == IdIn({s \in DOMAIN skus : skus[s].form.code = NextSku(runs[w]).form.code})
     IN  runs' = IF found # New /\ skus[found].product # runs[w].product
                 THEN Refuses(w)
                 ELSE [runs EXCEPT ![w].stage = "sku", ![w].found = found]
  /\ UNCHANGED <<products, skus, options, images, files, seeded, pending>>

\* The product allows the SKU or not; WritesSku follows.
AllowsNextSku(w) ==
  /\ runs[w].stage = "sku" /\ pending[w] = Nothing
  /\ IF AllowsSku(NextSku(runs[w]))
     THEN /\ pending' = [pending EXCEPT ![w] =
               [table |-> "sku", id |-> runs[w].found, row |-> NextSku(runs[w])]]
          /\ UNCHANGED runs
     ELSE runs' = Refuses(w) /\ UNCHANGED pending
  /\ UNCHANGED <<products, skus, options, images, files, seeded>>

Matches(run, o) == FoldOf[run.names[o]] = FoldOf[NextOption(run).form.name]

\* An option of the list read before, the first in an order left open here, or
\* a new one; WritesOption follows.
AllowsNextOption(w) ==
  LET run     == runs[w]
      matched == {o \in DOMAIN run.names : Matches(run, o)}
  IN  /\ run.stage = "list" /\ pending[w] = Nothing
      /\ ~SkusToGo(run) /\ run.next <= Len(run.fixture.skus) + Len(run.fixture.options)
      /\ IF AllowsOption(NextOption(run))
         THEN /\ \E id \in IF matched = {} THEN {New} ELSE matched :
                   pending' = [pending EXCEPT ![w] =
                     [table |-> "option", id |-> id, row |-> NextOption(run)]]
              /\ UNCHANGED runs
         ELSE runs' = Refuses(w) /\ UNCHANGED pending
      /\ UNCHANGED <<products, skus, options, images, files, seeded>>

\* Everything is written; the product is read once more and printed.
EndsRun(w) ==
  /\ runs[w].stage = "list" /\ pending[w] = Nothing
  /\ runs[w].next > Len(runs[w].fixture.skus) + Len(runs[w].fixture.options)
  /\ runs' = [runs EXCEPT ![w] = Over(@, "applied")]
  /\ UNCHANGED <<products, skus, options, images, files, seeded, pending>>

\* A call fails, the five seconds of the command are over, the process dies,
\* or the command has printed what came of it: nothing is undone.
Stops(w) ==
  /\ pending[w] # Nothing \/ runs[w] # NoRun
  /\ pending' = [pending EXCEPT ![w] = Nothing]
  /\ runs' = [runs EXCEPT ![w] = NoRun]
  /\ UNCHANGED <<products, skus, options, images, files, seeded>>

-----------------------------------------------------------------------------
(* The server's start: EnsureSignageCatalog.                               *)

\* One transaction: the tombstone, and the product with its SKUs unless there
\* is a product with the slug or the master SKU.  A SKU that another product
\* has rolls all of it back, and the server does not start.
Seeds ==
  LET p    == Len(products) + 1
      rows == [i \in DOMAIN Signage.skus |-> Row(p, Signage.skus[i])]
  IN  /\ ~seeded
      /\ seeded' = TRUE
      /\ IF BySlug(Signage) \cup ByMaster(Signage) # {}
         THEN UNCHANGED <<products, skus, runs>>
         ELSE /\ \A s \in DOMAIN skus, i \in DOMAIN rows : skus[s].form.code # rows[i].form.code
              /\ p <= MaxProducts /\ Len(skus) + Len(rows) <= MaxSkus
              /\ products' = Append(products, Signage.product)
              /\ skus' = skus \o rows
              /\ runs' = DisturbedAll
      /\ UNCHANGED <<options, images, files, pending>>

-----------------------------------------------------------------------------
AdminStep ==
  \/ \E form \in ProductForms, id \in {New} \cup DOMAIN products : SavesProduct(id, form)
  \/ \E id \in DOMAIN products, active \in BOOLEAN : SetsProductActive(id, active)
  \/ \E id \in DOMAIN skus, active \in BOOLEAN : SetsSkuActive(id, active)
  \/ \E id \in DOMAIN options : DeletesOption(id)

RequestStep(w) ==
  \/ \E p \in DOMAIN products :
       \/ \E form \in SkuForms, id \in {New} \cup DOMAIN skus : AsksForSku(w, id, Row(p, form))
       \/ \E form \in OptionForms, id \in {New} \cup DOMAIN options :
            AsksForOption(w, id, Row(p, form))
  \/ \E slot \in ImageForms, file \in Files : AsksForImage(w, slot, file)
  \/ ImportsImage(w) \/ SetsImage(w)

RunStep(w) ==
  \/ \E fixture \in Fixtures : BeginsRun(w, fixture)
  \/ FindsMaster(w) \/ WritesProduct(w) \/ ReadsProduct(w)
  \/ FindsSku(w) \/ AllowsNextSku(w) \/ AllowsNextOption(w) \/ EndsRun(w)

CatalogNext ==
  \/ AdminStep
  \/ \E w \in Requests : RequestStep(w)
  \/ \E w \in Commands : RunStep(w)
  \/ \E w \in Writers : WritesSku(w) \/ WritesOption(w) \/ Stops(w)
  \/ Seeds

CatalogSpec == CatalogInit /\ [][CatalogNext]_catalogVars

-----------------------------------------------------------------------------
(* Properties.                                                             *)

\* Nobody but the run of w has written since it began.
Quiet(w) == runs[w] # NoRun /\ runs[w].undisturbed

\* A run of the fixture command that says "applied" leaves everything the way
\* the file lists it, whatever the catalog was before, also when earlier runs
\* stopped half way; unless somebody else wrote meanwhile.
AppliedAsListed ==
  \A w \in Writers :
    (Quiet(w) /\ runs[w].stage = "applied" /\ WellFormed(runs[w].fixture))
    => Lists(runs[w].product, runs[w].fixture)

\* README.md:86, "Records omitted from a fixture are left unchanged": a run
\* writes to no other product, to no SKU and no option of its product whose
\* code or name is not listed, and takes no SKU from another product.
LeavesUnlisted(w) ==
  LET fixture == runs[w].fixture
      product == runs'[w].product
  IN  /\ \A p \in DOMAIN products \ {product} : products'[p] = products[p]
      /\ \A s \in DOMAIN skus :
           \/ skus'[s] = skus[s]
           \/ /\ skus[s].product = product
              /\ \E i \in DOMAIN fixture.skus : fixture.skus[i].code = skus[s].form.code
      /\ \A o \in DOMAIN options :
           \/ options'[o] = options[o]
           \/ options[o].product = product /\ Taken(fixture, options[o].form.name)

UnlistedUntouched ==
  [][\A w \in Writers : (Quiet(w) /\ Quiet(w)') => LeavesUnlisted(w)]_catalogVars

\* docs/stripe-test.md:79, "The command is idempotent": a run of a file that is
\* applied already is not refused and changes nothing.
RedoesNothing(w) ==
  runs[w].asListed /\ WellFormed(runs[w].fixture)
  => tables' = tables /\ runs'[w].stage # "refused"

Idempotent ==
  [][\A w \in Writers : (Quiet(w) /\ Quiet(w)') => RedoesNothing(w)]_catalogVars

\* Every image row names a file that is there, also after a crash between the
\* import and the row, and when two uploads have the same content.
ImagesExist == \A slot \in DOMAIN images : images[slot] \in files
-----------------------------------------------------------------------------
(* The inductive invariant behind the properties.                          *)

\* Only commands run fixtures, and what one of them will write is the SKU or
\* the option its run has come to, over a row it found for it.
OwnJob(run, job) ==
  \/ job = Nothing
  \/ run.stage = "sku" /\ job = [table |-> "sku", id |-> run.found, row |-> NextSku(run)]
  \/ /\ run.stage = "list" /\ ~SkusToGo(run)
     /\ run.next <= Len(run.fixture.skus) + Len(run.fixture.options)
     /\ \E id \in {New} \cup DOMAIN run.names :
          /\ job = [table |-> "option", id |-> id, row |-> NextOption(run)]
          /\ IF id = New THEN \A o \in DOMAIN run.names : ~Matches(run, o)
             ELSE Matches(run, id)

WriterInv(w) ==
  /\ w \in Requests => runs[w] = NoRun
  /\ w \in Commands => OwnJob(runs[w], pending[w])
  /\ runs[w].stage \in {"read", "list", "sku", "applied"} => runs[w].product # New
  /\ runs[w].stage \in {"slug", "save", "read"} => runs[w].next = 1
  /\ runs[w].stage = "sku" => SkusToGo(runs[w])
  /\ pending[w].table = "image" /\ pending[w].stored => pending[w].file \in files

\* What a run has read is still so, up to the case of a name it has written
\* itself.
ReadIsTrue(run) ==
  /\ run.stage = "sku" =>
       IF run.found = New
       THEN \A s \in DOMAIN skus : skus[s].form.code # NextSku(run).form.code
       ELSE /\ skus[run.found].product = run.product
            /\ skus[run.found].form.code = NextSku(run).form.code
  /\ run.stage \in {"list", "sku"} =>
       \A o \in DOMAIN run.names :
         /\ options[o].product = run.product
         /\ FoldOf[options[o].form.name] = FoldOf[run.names[o]]

\* What the fixture lists before the entry a run has come to is there.
ListedSoFar(run) ==
  LET fixture == run.fixture
  IN  /\ \A i \in DOMAIN fixture.skus :
           i < run.next => \E s \in DOMAIN skus : skus[s] = Row(run.product, fixture.skus[i])
      /\ \A i \in DOMAIN fixture.options :
           Len(fixture.skus) + i < run.next =>
             \E o \in DOMAIN options : options[o] = Row(run.product, fixture.options[i])

Progress(run) ==
  /\ run.stage \in {"read", "list", "sku"} => products[run.product] = run.fixture.product
  /\ run.stage \in {"list", "sku"} => ListedSoFar(run)
  /\ run.stage = "applied" => Lists(run.product, run.fixture)

\* A run of a file that was applied goes on with the product that lists it,
\* and knows all of its options.
NothingToDo(run) ==
  /\ run.stage # "refused"
  /\ run.product # New /\ Lists(run.product, run.fixture) /\ NamesAreClear(run.fixture)
  /\ run.stage \in {"list", "sku"} =>
       \A o \in DOMAIN options : options[o].product = run.product => o \in DOMAIN run.names

QuietInv(w) ==
  LET run == runs[w]
  IN  Quiet(w) =>
        /\ ReadIsTrue(run)
        /\ WellFormed(run.fixture) =>
             /\ Progress(run)
             /\ run.asListed => NothingToDo(run)

CatalogInv ==
  /\ CatalogTypeOK
  /\ \A w \in Writers : WriterInv(w) /\ QuietInv(w)
  /\ ImagesExist

=============================================================================
