--------------------------- MODULE Catalog_proofs ---------------------------
(***************************************************************************)
(* Proofs about Catalog, for any number of requests, commands and rows and *)
(* any fixtures: its types, the images, and what the fixture command       *)
(* promises of a run in whose way nobody writes.                           *)
(*                                                                         *)
(* A step is one writer's or nobody's.  For the others it is enough that   *)
(* they stand by (StandsBy): the tables are the same, or their runs know   *)
(* that they are disturbed.  So each action has one lemma, on what the     *)
(* step owes (StepOwes), and the invariant follows from that once.         *)
(***************************************************************************)
EXTENDS Catalog, TLAPS

(* Tables.                                                                 *)

LEMMA Tabled ==
  ASSUME NEW S, NEW table \in Seq(S)
  PROVE  Table(table)
<1>1. table = [i \in 1..Len(table) |-> table[i]] /\ Len(table) \in Nat
  OBVIOUS
<1>2. table \in [1..Len(table) -> Rows(table)]
  BY <1>1 DEF Rows
<1> QED
  BY <1>1, <1>2 DEF Table

LEMMA Ids ==
  ASSUME NEW table, Table(table)
  PROVE  /\ Len(table) \in Nat /\ DOMAIN table = 1..Len(table)
         /\ New \notin DOMAIN table
BY DEF Table, Rows, New

\* A table with a row stored over another, or behind the last.
Written(table, id, row, t, n) ==
  /\ Table(t)
  /\ DOMAIN t = DOMAIN table \cup {n}
  /\ t[n] = row /\ n # New
  /\ id # New => n = id
  /\ id = New => n \notin DOMAIN table
  /\ \A i \in DOMAIN table \ {n} : t[i] = table[i]

LEMMA Storing ==
  ASSUME NEW table, Table(table), NEW id \in {New} \cup DOMAIN table, NEW row
  PROVE  Written(table, id, row, Stored(table, id, row), IdOf(table, id))
<1> DEFINE t == Stored(table, id, row)
           n == IdOf(table, id)
<1>1. CASE id = New
  <2>1. t = Append(table, row) /\ n = Len(table) + 1
    BY <1>1 DEF Stored, IdOf
  <2> DEFINE S == Rows(table) \cup {row}
  <2>2. table \in Seq(S)
    BY DEF Table
  <2>3. /\ t \in Seq(S) /\ Len(t) = Len(table) + 1
        /\ \A i \in 1..Len(table) : t[i] = table[i]
        /\ t[Len(table) + 1] = row
    BY <2>1, <2>2
  <2>4. DOMAIN t = 1..(Len(table) + 1) /\ DOMAIN table = 1..Len(table) /\ Len(table) \in Nat
    BY <2>3, Ids
  <2>5. Table(t)
    BY <2>3, Tabled
  <2> DEFINE l == Len(table)
  <2> HIDE DEF l
  <2>6. 1..(l + 1) = (1..l) \cup {l + 1} /\ l + 1 # 0 /\ l + 1 \notin 1..l
    BY <2>4 DEF l
  <2>7. DOMAIN t = DOMAIN table \cup {n} /\ n # New /\ n \notin DOMAIN table
    BY <2>1, <2>4, <2>6 DEF l, New
  <2> QED
    BY <1>1, <2>1, <2>3, <2>4, <2>5, <2>7 DEF Written
<1>2. CASE id # New
  <2>1. t = [table EXCEPT ![id] = row] /\ n = id
    BY <1>2 DEF Stored, IdOf
  <2>2. Len(table) \in Nat /\ DOMAIN table = 1..Len(table)
    BY Ids
  <2>3. t = [i \in 1..Len(table) |-> IF i = id THEN row ELSE table[i]]
    BY <2>1, <2>2
  <2>4. Table(t)
    BY <2>2, <2>3 DEF Table, Rows
  <2> QED
    BY <1>2, <2>1, <2>2, <2>3, <2>4, Ids DEF Written
<1> QED
  BY <1>1, <1>2

-----------------------------------------------------------------------------
(* What a step owes.                                                       *)

\* Rows are never deleted.
Grows ==
  /\ DOMAIN products \subseteq DOMAIN products'
  /\ DOMAIN skus \subseteq DOMAIN skus'
  /\ DOMAIN options \subseteq DOMAIN options'
  /\ files \subseteq files'

\* Another writer's step: either nothing in the tables has changed, or the run
\* knows that it is disturbed.
StandsBy(w) ==
  /\ pending'[w] = pending[w]
  /\ \/ runs'[w] = Disturb(runs[w])
     \/ runs'[w] = runs[w] /\ tables' = tables

\* What a writer has to show of itself.
WriterOK(w) ==
  Pending(pending[w]) /\ Run(runs[w]) /\ WriterInv(w) /\ QuietInv(w)

KeepsFaith(w) == (Quiet(w) /\ Quiet(w)') => LeavesUnlisted(w) /\ RedoesNothing(w)

StepOwes ==
  /\ ProductsOK' /\ SkusOK' /\ OptionsOK' /\ ImagesOK' /\ ImagesExist'
  /\ files' \subseteq Files /\ seeded' \in BOOLEAN
  /\ DOMAIN pending' = Writers /\ DOMAIN runs' = Writers
  /\ Grows
  /\ \A w \in Writers : StandsBy(w) \/ (WriterOK(w)' /\ KeepsFaith(w))

LEMMA RowsStay ==
  ASSUME Grows
  PROVE  /\ \A row : SkuRow(row) => SkuRow(row)'
         /\ \A row : OptionRow(row) => OptionRow(row)'
BY DEF Grows, SkuRow, OptionRow

LEMMA JobsStay ==
  ASSUME Grows, NEW job, Pending(job)
  PROVE  Pending(job)'
<1>1. CASE job = Nothing
  BY <1>1 DEF Pending
<1>2. CASE job.table = "sku" /\ job.id \in {New} \cup DOMAIN skus /\ SkuRow(job.row)
  BY <1>2, RowsStay DEF Pending, Grows
<1>3. CASE job.table = "option" /\ job.id \in {New} \cup DOMAIN options /\ OptionRow(job.row)
  BY <1>3, RowsStay DEF Pending, Grows
<1>4. CASE job \in [table : {"image"}, slot : ImageForms, file : Files, stored : BOOLEAN]
  BY <1>4 DEF Pending
<1> QED
  BY <1>1, <1>2, <1>3, <1>4 DEF Pending

LEMMA RecordsStay ==
  ASSUME Grows, NEW run \in RunRecord
  PROVE  run \in RunRecord'
<1>1. PICK ids \in SUBSET DOMAIN options : run.names \in [ids -> DOMAIN FoldOf]
  BY DEF RunRecord
<1>2. ids \in SUBSET DOMAIN options'
  BY <1>1 DEF Grows
<1>3. run.names \in UNION {[S -> DOMAIN FoldOf] : S \in SUBSET DOMAIN options'}
  BY <1>1, <1>2
<1> QED
  BY <1>3 DEF RunRecord, Grows

LEMMA RunsStay ==
  ASSUME Grows, NEW run, Run(run)
  PROVE  Run(run)'
BY RecordsStay DEF Run

LEMMA NoRunIsNone == NoRun.stage = "none" /\ NoRun \notin RunRecord
BY DEF NoRun, RunRecord, Stages

LEMMA One == \A a, b \in Nat : 1 \in 1..(a + b + 1)
OBVIOUS

LEMMA Listed ==
  ASSUME NEW f \in Fixtures
  PROVE  /\ Fixture(f)
         /\ Len(f.skus) \in Nat /\ DOMAIN f.skus = 1..Len(f.skus)
         /\ Len(f.options) \in Nat /\ DOMAIN f.options = 1..Len(f.options)
<1>1. Fixture(f)
  BY CatalogAssumption
<1> QED
  BY <1>1, Ids DEF Fixture

\* A run that is disturbed is the same run, but it is no longer quiet.
LEMMA Disturbing ==
  ASSUME NEW run, Run(run), run # NoRun, NEW q, q = Disturb(run)
  PROVE  /\ Run(q) /\ q # NoRun
         /\ q.stage = run.stage /\ q.fixture = run.fixture /\ q.product = run.product
         /\ q.found = run.found /\ q.names = run.names /\ q.next = run.next
         /\ q.undisturbed = FALSE
<1> DEFINE p == [run EXCEPT !.undisturbed = FALSE]
<1>1. q = [p EXCEPT !.asListed = FALSE]
  BY DEF Disturb
<1>2. run \in RunRecord
  BY DEF Run
<1>3. /\ q \in RunRecord
      /\ q.stage = run.stage /\ q.fixture = run.fixture /\ q.product = run.product
      /\ q.found = run.found /\ q.names = run.names /\ q.next = run.next
      /\ q.undisturbed = FALSE
  BY <1>1, <1>2 DEF RunRecord
<1> QED
  BY <1>3, NoRunIsNone DEF Run

\* What is said of a run is about the tables.
LEMMA SameTables ==
  ASSUME tables' = tables, NEW run
  PROVE  /\ ReadIsTrue(run) => ReadIsTrue(run)'
         /\ Progress(run) => Progress(run)'
         /\ NothingToDo(run) => NothingToDo(run)'
<1>1. products' = products /\ skus' = skus /\ options' = options
  BY DEF tables
<1>2. Lists(run.product, run.fixture)' <=> Lists(run.product, run.fixture)
  BY <1>1 DEF Lists
<1>3. ReadIsTrue(run) => ReadIsTrue(run)'
  BY <1>1 DEF ReadIsTrue
<1>4. ListedSoFar(run) => ListedSoFar(run)'
  BY <1>1 DEF ListedSoFar
<1>5. Progress(run) => Progress(run)'
  BY <1>1, <1>2, <1>4 DEF Progress
<1>6. NamesAreClear(run.fixture)' <=> NamesAreClear(run.fixture)
  BY <1>1 DEF NamesAreClear
<1>7. NothingToDo(run) => NothingToDo(run)'
  BY <1>1, <1>2, <1>6 DEF NothingToDo
<1> QED
  BY <1>3, <1>5, <1>7

LEMMA SameJob ==
  ASSUME NEW run, NEW q, NEW job, q.stage = run.stage, q.fixture = run.fixture,
         q.product = run.product, q.found = run.found, q.names = run.names,
         q.next = run.next, OwnJob(run, job)
  PROVE  OwnJob(q, job)
<1>1. SkusToGo(q) <=> SkusToGo(run)
  BY DEF SkusToGo
<1>2. NextSku(q) = NextSku(run) /\ NextOption(q) = NextOption(run)
  BY DEF NextSku, NextOption
<1>3. \A o : Matches(q, o) <=> Matches(run, o)
  BY <1>2 DEF Matches
<1> QED
  BY <1>1, <1>2, <1>3 DEF OwnJob

LEMMA StandingBy ==
  ASSUME CatalogInv, Grows, NEW w \in Writers, StandsBy(w)
  PROVE  WriterOK(w)' /\ KeepsFaith(w)
<1>1. Pending(pending[w]) /\ Run(runs[w]) /\ WriterInv(w) /\ QuietInv(w)
  BY DEF CatalogInv, CatalogTypeOK
<1>2. Pending(pending[w])'
  <2>1. PICK job : job = pending[w]
    OBVIOUS
  <2> QED
    BY <1>1, <2>1, JobsStay DEF StandsBy
<1>3. PICK run : run = runs[w]
  OBVIOUS
<1>4. CASE run = NoRun
  <2>1. runs'[w] = NoRun
    BY <1>3, <1>4 DEF StandsBy, Disturb
  <2>3. WriterInv(w)'
    BY <1>1, <1>3, <1>4, <2>1 DEF WriterInv, StandsBy, Grows
  <2>4. ~Quiet(w)'
    BY <2>1 DEF Quiet
  <2> QED
    BY <1>2, <2>1, <2>3, <2>4 DEF WriterOK, QuietInv, KeepsFaith, Run
<1>5. CASE run # NoRun
  <2>1. PICK q : q = runs'[w]
    OBVIOUS
  <2>2. /\ Run(q) /\ q # NoRun /\ q.stage = run.stage /\ q.fixture = run.fixture
        /\ q.product = run.product /\ q.found = run.found /\ q.names = run.names
        /\ q.next = run.next
    <3>1. Run(run)
      BY <1>1, <1>3
    <3>2. CASE q = Disturb(run)
      BY <1>5, <3>1, <3>2, Disturbing
    <3> QED
      BY <1>3, <1>5, <2>1, <3>1, <3>2 DEF StandsBy
  <2>3. Run(q)'
    BY <2>2, RunsStay
  <2>4. WriterInv(w)'
    <3>1. OwnJob(runs[w], pending[w]) => OwnJob(runs[w], pending[w])'
      BY <1>3, <2>1, <2>2, SameJob DEF StandsBy
    <3> QED
      BY <1>1, <1>3, <1>5, <2>1, <2>2, <3>1 DEF WriterInv, StandsBy, Grows, SkusToGo
  <2>5. CASE q = Disturb(run)
    <3>1. Run(run)
      BY <1>1, <1>3
    <3>2. q.undisturbed = FALSE
      BY <1>5, <2>5, <3>1, Disturbing
    <3>3. ~Quiet(w)'
      BY <2>1, <3>2 DEF Quiet
    <3> QED
      BY <1>2, <2>1, <2>3, <2>4, <3>3 DEF WriterOK, QuietInv, KeepsFaith
  <2>6. CASE q = run /\ tables' = tables
    <3>1. QuietInv(w)'
      BY <1>1, <1>3, <2>1, <2>6, SameTables DEF QuietInv, Quiet
    <3>2. ASSUME Quiet(w) PROVE LeavesUnlisted(w)
      BY <2>6 DEF LeavesUnlisted, tables
    <3>3. ASSUME Quiet(w) PROVE RedoesNothing(w)
      BY <1>1, <1>3, <2>1, <2>6, <3>3 DEF RedoesNothing, QuietInv, NothingToDo
    <3> QED
      BY <1>2, <2>1, <2>3, <2>4, <3>1, <3>2, <3>3 DEF WriterOK, KeepsFaith
  <2> QED
    BY <1>3, <2>1, <2>5, <2>6 DEF StandsBy
<1> QED
  BY <1>4, <1>5

LEMMA OwedIsEnough ==
  ASSUME CatalogInv, StepOwes
  PROVE  CatalogInv' /\ \A w \in Writers : KeepsFaith(w)
<1>1. ASSUME NEW w \in Writers PROVE WriterOK(w)' /\ KeepsFaith(w)
  BY StandingBy DEF StepOwes
<1> QED
  BY <1>1 DEF StepOwes, CatalogInv, CatalogTypeOK, WriterOK

-----------------------------------------------------------------------------
(* Writing to the tables.                                                  *)

LEMMA TablesKept ==
  ASSUME CatalogTypeOK, UNCHANGED tables
  PROVE  /\ ProductsOK' /\ SkusOK' /\ OptionsOK'
         /\ UNCHANGED images => ImagesOK'
<1>1. products' = products /\ skus' = skus /\ options' = options
  BY DEF tables
<1>2. ProductsOK'
  BY <1>1 DEF CatalogTypeOK, ProductsOK, ProductFits
<1>3. SkusOK'
  BY <1>1 DEF CatalogTypeOK, SkusOK, SkuFits, SkuRow
<1>4. OptionsOK'
  BY <1>1 DEF CatalogTypeOK, OptionsOK, OptionFits, OptionRow
<1> QED
  BY <1>1, <1>2, <1>3, <1>4 DEF CatalogTypeOK, ImagesOK

LEMMA ImagesKept ==
  ASSUME CatalogInv, Grows, UNCHANGED images
  PROVE  ImagesOK' /\ ImagesExist'
BY DEF CatalogInv, CatalogTypeOK, ImagesOK, ImagesExist, Grows

LEMMA ProductWritten ==
  ASSUME CatalogTypeOK, NEW id \in {New} \cup DOMAIN products, NEW form, ProductForm(form),
         ProductFits(id, form), products' = Stored(products, id, form)
  PROVE  /\ ProductsOK'
         /\ UNCHANGED skus => SkusOK'
         /\ UNCHANGED options => OptionsOK'
         /\ DOMAIN products \subseteq DOMAIN products'
<1>1. PICK n : n = IdOf(products, id)
  OBVIOUS
<1>2. /\ Table(products)'
      /\ DOMAIN products' = DOMAIN products \cup {n}
      /\ products'[n] = form /\ n # New
      /\ id # New => n = id
      /\ id = New => n \notin DOMAIN products
      /\ \A p \in DOMAIN products \ {n} : products'[p] = products[p]
  <2>1. Table(products)
    BY DEF CatalogTypeOK, ProductsOK
  <2>2. Written(products, id, form, Stored(products, id, form), n)
    BY <1>1, <2>1, Storing
  <2> QED
    BY <2>2 DEF Written
<1>3. \A p \in DOMAIN products \ {n} :
        products[p].slug # form.slug /\ products[p].master # form.master
  <2>1. New \notin DOMAIN products
    BY Ids DEF CatalogTypeOK, ProductsOK
  <2> QED
    BY <1>2, <2>1 DEF ProductFits
<1>4. \A p \in DOMAIN products' : ProductForm(products'[p])
  BY <1>2 DEF CatalogTypeOK, ProductsOK
<1>5. \A p, q \in DOMAIN products' :
        p # q => products'[p].slug # products'[q].slug /\ products'[p].master # products'[q].master
  <2>1. \A p, q \in DOMAIN products :
          p # q => products[p].slug # products[q].slug /\ products[p].master # products[q].master
    BY DEF CatalogTypeOK, ProductsOK, ProductFits
  <2> QED
    BY <1>2, <1>3, <2>1
<1>6. ProductsOK'
  BY <1>2, <1>4, <1>5 DEF ProductsOK, ProductFits
<1>7. ASSUME UNCHANGED skus PROVE SkusOK'
  BY <1>2, <1>7 DEF CatalogTypeOK, SkusOK, SkuRow, SkuFits
<1>8. ASSUME UNCHANGED options PROVE OptionsOK'
  BY <1>2, <1>8 DEF CatalogTypeOK, OptionsOK, OptionRow, OptionFits
<1> QED
  BY <1>2, <1>6, <1>7, <1>8

LEMMA SkuWritten ==
  ASSUME CatalogTypeOK, NEW id \in {New} \cup DOMAIN skus, NEW row, SkuRow(row),
         SkuFits(id, row), skus' = Stored(skus, id, row), UNCHANGED <<products, options>>
  PROVE  /\ ProductsOK' /\ SkusOK' /\ OptionsOK'
         /\ DOMAIN skus \subseteq DOMAIN skus'
<1>1. PICK n : n = IdOf(skus, id)
  OBVIOUS
<1>2. /\ Table(skus)'
      /\ DOMAIN skus' = DOMAIN skus \cup {n}
      /\ skus'[n] = row /\ n # New
      /\ id # New => n = id
      /\ id = New => n \notin DOMAIN skus
      /\ \A s \in DOMAIN skus \ {n} : skus'[s] = skus[s]
  <2>1. Table(skus)
    BY DEF CatalogTypeOK, SkusOK
  <2>2. Written(skus, id, row, Stored(skus, id, row), n)
    BY <1>1, <2>1, Storing
  <2> QED
    BY <2>2 DEF Written
<1> DEFINE Apart(r, q) ==
      /\ r.form.code # q.form.code
      /\ \/ r.product # q.product
         \/ "addon" \in {r.form.kind, q.form.kind}
         \/ r.form.variant # q.form.variant
<1>3. \A s \in DOMAIN skus \ {n} : Apart(skus[s], row) /\ Apart(row, skus[s])
  <2>1. New \notin DOMAIN skus
    BY Ids DEF CatalogTypeOK, SkusOK
  <2> QED
    BY <1>2, <2>1 DEF SkuFits
<1>4. \A s, t \in DOMAIN skus : s # t => Apart(skus[s], skus[t])
  BY DEF CatalogTypeOK, SkusOK, SkuFits
<1>5. \A s, t \in DOMAIN skus' : s # t => Apart(skus'[s], skus'[t])
  <2> HIDE DEF Apart
  <2> QED
    BY <1>2, <1>3, <1>4
<1>6. \A s \in DOMAIN skus' : SkuFits(s, skus[s])'
  BY <1>5 DEF SkuFits
<1>7. \A s \in DOMAIN skus' : SkuRow(skus[s])'
  <2>1. ASSUME NEW s \in DOMAIN skus' PROVE SkuRow(skus'[s])
    BY <1>2 DEF CatalogTypeOK, SkusOK
  <2> QED
    BY <2>1 DEF SkuRow
<1>8. SkusOK'
  BY <1>2, <1>6, <1>7 DEF SkusOK
<1>9. ProductsOK' /\ OptionsOK'
  BY DEF CatalogTypeOK, ProductsOK, ProductFits, OptionsOK, OptionRow, OptionFits
<1> QED
  BY <1>2, <1>8, <1>9

LEMMA OptionWritten ==
  ASSUME CatalogTypeOK, NEW id \in {New} \cup DOMAIN options, NEW row, OptionRow(row),
         OptionFits(id, row), options' = Stored(options, id, row),
         UNCHANGED <<products, skus>>
  PROVE  /\ ProductsOK' /\ SkusOK' /\ OptionsOK'
         /\ DOMAIN options \subseteq DOMAIN options'
<1>1. PICK n : n = IdOf(options, id)
  OBVIOUS
<1>2. /\ Table(options)'
      /\ DOMAIN options' = DOMAIN options \cup {n}
      /\ options'[n] = row /\ n # New
      /\ id # New => n = id
      /\ id = New => n \notin DOMAIN options
      /\ \A o \in DOMAIN options \ {n} : options'[o] = options[o]
  <2>1. Table(options)
    BY DEF CatalogTypeOK, OptionsOK
  <2>2. Written(options, id, row, Stored(options, id, row), n)
    BY <1>1, <2>1, Storing
  <2> QED
    BY <2>2 DEF Written
<1> DEFINE Apart(r, q) == r.product # q.product \/ r.form.name # q.form.name
<1>3. \A o \in DOMAIN options \ {n} : Apart(options[o], row) /\ Apart(row, options[o])
  <2>1. New \notin DOMAIN options
    BY Ids DEF CatalogTypeOK, OptionsOK
  <2> QED
    BY <1>2, <2>1 DEF OptionFits
<1>4. \A o, q \in DOMAIN options : o # q => Apart(options[o], options[q])
  BY DEF CatalogTypeOK, OptionsOK, OptionFits
<1>5. \A o, q \in DOMAIN options' : o # q => Apart(options'[o], options'[q])
  <2> HIDE DEF Apart
  <2> QED
    BY <1>2, <1>3, <1>4
<1>6. \A o \in DOMAIN options' : OptionFits(o, options[o])'
  BY <1>5 DEF OptionFits
<1>7. \A o \in DOMAIN options' : OptionRow(options[o])'
  <2>1. ASSUME NEW o \in DOMAIN options' PROVE OptionRow(options'[o])
    BY <1>2 DEF CatalogTypeOK, OptionsOK
  <2> QED
    BY <2>1 DEF OptionRow
<1>8. OptionsOK'
  BY <1>2, <1>6, <1>7 DEF OptionsOK
<1>9. ProductsOK' /\ SkusOK'
  BY DEF CatalogTypeOK, ProductsOK, ProductFits, SkusOK, SkuRow, SkuFits
<1> QED
  BY <1>2, <1>8, <1>9

-----------------------------------------------------------------------------
(* The administrators' pages and the server's start.                       *)

\* A step of nobody's, which disturbs every run.
LEMMA DisturbsAll ==
  ASSUME CatalogInv, ProductsOK', SkusOK', OptionsOK', Grows, seeded' \in BOOLEAN,
         UNCHANGED <<images, files, pending>>, runs' = DisturbedAll
  PROVE  StepOwes
<1>1. DOMAIN pending' = Writers /\ DOMAIN runs' = Writers /\ files' \subseteq Files
  BY DEF CatalogInv, CatalogTypeOK, DisturbedAll
<1>2. \A w \in Writers : StandsBy(w)
  BY DEF StandsBy, DisturbedAll
<1> QED
  BY <1>1, <1>2, ImagesKept DEF StepOwes

LEMMA SavesProductOwes ==
  ASSUME CatalogInv, NEW form \in ProductForms, NEW id \in {New} \cup DOMAIN products,
         SavesProduct(id, form)
  PROVE  StepOwes
<1>1. ProductsOK' /\ SkusOK' /\ OptionsOK' /\ DOMAIN products \subseteq DOMAIN products'
  BY ProductWritten, CatalogAssumption DEF SavesProduct, CatalogInv
<1>2. Grows /\ seeded' \in BOOLEAN
  BY <1>1 DEF SavesProduct, Grows, CatalogInv, CatalogTypeOK
<1> QED
  BY <1>1, <1>2, DisturbsAll DEF SavesProduct

\* Switching a row on or off is writing it over itself.
LEMMA Switching ==
  ASSUME NEW active \in BOOLEAN, NEW f, NEW q, q = [f EXCEPT !.active = active]
  PROVE  /\ SkuForm(f) =>
              SkuForm(q) /\ q.code = f.code /\ q.kind = f.kind /\ q.variant = f.variant
         /\ OptionForm(f) => OptionForm(q) /\ q.name = f.name
<1>1. ASSUME SkuForm(f)
      PROVE  SkuForm(q) /\ q.code = f.code /\ q.kind = f.kind /\ q.variant = f.variant
  <2>1. f = [code |-> f.code, kind |-> f.kind, variant |-> f.variant, active |-> f.active,
             text |-> f.text]
    BY <1>1 DEF SkuForm
  <2>2. q = [code |-> f.code, kind |-> f.kind, variant |-> f.variant, active |-> active,
             text |-> f.text]
    BY <2>1
  <2> QED
    BY <1>1, <2>2 DEF SkuForm
<1>2. ASSUME OptionForm(f) PROVE OptionForm(q) /\ q.name = f.name
  <2>1. f = [name |-> f.name, active |-> f.active, text |-> f.text]
    BY <1>2 DEF OptionForm
  <2>2. q = [name |-> f.name, active |-> active, text |-> f.text]
    BY <2>1
  <2> QED
    BY <1>2, <2>2 DEF OptionForm
<1> QED
  BY <1>1, <1>2

LEMMA RowSwitching ==
  ASSUME NEW row, row = Row(row.product, row.form), NEW form
  PROVE  [row EXCEPT !.form = form] = Row(row.product, form)
BY DEF Row

LEMMA SetsProductActiveOwes ==
  ASSUME CatalogInv, NEW id \in DOMAIN products, NEW active \in BOOLEAN,
         SetsProductActive(id, active)
  PROVE  StepOwes
<1> DEFINE f == products[id]
           q == [f EXCEPT !.active = active]
<1>1. id # New
  BY Ids DEF CatalogInv, CatalogTypeOK, ProductsOK
<1>2. products' = Stored(products, id, q)
  BY <1>1 DEF SetsProductActive, Stored
<1>3. ProductForm(q) /\ q.slug = f.slug /\ q.master = f.master
  BY DEF CatalogInv, CatalogTypeOK, ProductsOK, ProductForm
<1>4. ProductFits(id, q)
  <2> HIDE DEF q
  <2> QED
    BY <1>3 DEF CatalogInv, CatalogTypeOK, ProductsOK, ProductFits
<1> HIDE DEF q
<1>5. ProductsOK' /\ SkusOK' /\ OptionsOK' /\ DOMAIN products \subseteq DOMAIN products'
  BY <1>2, <1>3, <1>4, ProductWritten DEF SetsProductActive, CatalogInv
<1>6. Grows /\ seeded' \in BOOLEAN
  BY <1>5 DEF SetsProductActive, Grows, CatalogInv, CatalogTypeOK
<1> QED
  BY <1>5, <1>6, DisturbsAll DEF SetsProductActive

LEMMA SetsSkuActiveOwes ==
  ASSUME CatalogInv, NEW id \in DOMAIN skus, NEW active \in BOOLEAN, SetsSkuActive(id, active)
  PROVE  StepOwes
<1> DEFINE r == skus[id]
           f == [r.form EXCEPT !.active = active]
           q == [r EXCEPT !.form = f]
<1>0. SkuRow(r)
  BY DEF CatalogInv, CatalogTypeOK, SkusOK
<1>1. id # New
  BY Ids DEF CatalogInv, CatalogTypeOK, SkusOK
<1>2. skus' = Stored(skus, id, q)
  BY <1>1 DEF SetsSkuActive, Stored
<1>3. /\ SkuForm(f) /\ f.code = r.form.code /\ f.kind = r.form.kind
      /\ f.variant = r.form.variant
  BY <1>0, Switching DEF SkuRow
<1>4. q = Row(r.product, f) /\ r.product \in DOMAIN products
  <2> HIDE DEF f
  <2> QED
    BY <1>0, RowSwitching DEF SkuRow
<1> HIDE DEF f, q
<1>5. SkuRow(q) /\ q.product = r.product /\ q.form = f
  BY <1>3, <1>4 DEF SkuRow, Row
<1>6. SkuFits(id, q)
  BY <1>3, <1>5 DEF CatalogInv, CatalogTypeOK, SkusOK, SkuFits
<1>7. ProductsOK' /\ SkusOK' /\ OptionsOK' /\ DOMAIN skus \subseteq DOMAIN skus'
  BY <1>2, <1>5, <1>6, SkuWritten DEF SetsSkuActive, CatalogInv
<1>8. Grows /\ seeded' \in BOOLEAN
  BY <1>7 DEF SetsSkuActive, Grows, CatalogInv, CatalogTypeOK
<1> QED
  BY <1>7, <1>8, DisturbsAll DEF SetsSkuActive

LEMMA DeletesOptionOwes ==
  ASSUME CatalogInv, NEW id \in DOMAIN options, DeletesOption(id)
  PROVE  StepOwes
<1> PICK active \in BOOLEAN : active = FALSE
  OBVIOUS
<1> DEFINE r == options[id]
           f == [r.form EXCEPT !.active = active]
           q == [r EXCEPT !.form = f]
<1>0. OptionRow(r)
  BY DEF CatalogInv, CatalogTypeOK, OptionsOK
<1>1. id # New
  BY Ids DEF CatalogInv, CatalogTypeOK, OptionsOK
<1>2. options' = Stored(options, id, q)
  BY <1>1 DEF DeletesOption, Stored
<1>3. OptionForm(f) /\ f.name = r.form.name
  BY <1>0, Switching DEF OptionRow
<1>4. q = Row(r.product, f) /\ r.product \in DOMAIN products
  <2> HIDE DEF f
  <2> QED
    BY <1>0, RowSwitching DEF OptionRow
<1> HIDE DEF f, q
<1>5. OptionRow(q) /\ q.product = r.product /\ q.form = f
  BY <1>3, <1>4 DEF OptionRow, Row
<1>6. OptionFits(id, q)
  BY <1>3, <1>5 DEF CatalogInv, CatalogTypeOK, OptionsOK, OptionFits
<1>7. ProductsOK' /\ SkusOK' /\ OptionsOK' /\ DOMAIN options \subseteq DOMAIN options'
  BY <1>2, <1>5, <1>6, OptionWritten DEF DeletesOption, CatalogInv
<1>8. Grows /\ seeded' \in BOOLEAN
  BY <1>7 DEF DeletesOption, Grows, CatalogInv, CatalogTypeOK
<1> QED
  BY <1>7, <1>8, DisturbsAll DEF DeletesOption

\* A table with another behind it.
Joined(a, b, t) ==
  /\ Table(t)
  /\ DOMAIN a \subseteq DOMAIN t
  /\ \A i \in DOMAIN a : t[i] = a[i]
  /\ \A i \in DOMAIN t \ DOMAIN a : i - Len(a) \in DOMAIN b /\ t[i] = b[i - Len(a)]

LEMMA Joining ==
  ASSUME NEW a, Table(a), NEW b, Table(b)
  PROVE  Joined(a, b, a \o b)
<1> DEFINE t == a \o b
<1> DEFINE S == Rows(a) \cup Rows(b)
<1>1. a \in Seq(S) /\ b \in Seq(S)
  BY DEF Table
<1>2. /\ t \in Seq(S) /\ Len(t) = Len(a) + Len(b)
      /\ \A i \in 1..(Len(a) + Len(b)) : t[i] = IF i <= Len(a) THEN a[i] ELSE b[i - Len(a)]
  BY <1>1
<1>3. /\ DOMAIN t = 1..(Len(a) + Len(b)) /\ DOMAIN a = 1..Len(a) /\ DOMAIN b = 1..Len(b)
      /\ Len(a) \in Nat /\ Len(b) \in Nat
  BY <1>1, <1>2
<1>4. Table(t)
  BY <1>2, Tabled
<1> QED
  BY <1>2, <1>3, <1>4 DEF Joined

\* The signage: its product is new, so no SKU was the product's before.
LEMMA SeedsOwes ==
  ASSUME CatalogInv, Seeds
  PROVE  StepOwes
<1> DEFINE p == Len(products) + 1
           rows == [i \in DOMAIN Signage.skus |-> Row(p, Signage.skus[i])]
<1>1. CASE BySlug(Signage) \cup ByMaster(Signage) # {}
  <2>1. /\ UNCHANGED <<products, skus, options, images, files, pending, runs>>
        /\ seeded' = TRUE
    BY <1>1 DEF Seeds
  <2>2. ProductsOK' /\ SkusOK' /\ OptionsOK' /\ Grows
    BY <2>1, TablesKept DEF CatalogInv, tables, Grows
  <2>3. \A w \in Writers : StandsBy(w)
    BY <2>1 DEF StandsBy, tables
  <2>4. DOMAIN pending' = Writers /\ DOMAIN runs' = Writers /\ files' \subseteq Files
    BY <2>1 DEF CatalogInv, CatalogTypeOK
  <2> QED
    BY <2>1, <2>2, <2>3, <2>4, ImagesKept DEF StepOwes
<1>2. CASE BySlug(Signage) \cup ByMaster(Signage) = {}
  <2>1. /\ \A s \in DOMAIN skus, i \in DOMAIN rows : skus[s].form.code # rows[i].form.code
        /\ products' = Append(products, Signage.product)
        /\ skus' = skus \o rows
        /\ runs' = DisturbedAll /\ seeded' = TRUE
        /\ UNCHANGED <<options, images, files, pending>>
    BY <1>2 DEF Seeds
  <2>2. /\ Table(products) /\ Table(skus) /\ Fixture(Signage) /\ WellFormed(Signage)
    BY CatalogAssumption DEF CatalogInv, CatalogTypeOK, ProductsOK, SkusOK
  <2>3. /\ Len(products) \in Nat /\ DOMAIN products = 1..Len(products)
        /\ p \notin DOMAIN products
    BY <2>2, Ids
  <2>4. DOMAIN products' = DOMAIN products \cup {p} /\ p # New
    <3>1. Written(products, New, Signage.product, products', p)
      BY <2>1, <2>2, Storing DEF Stored, IdOf
    <3> QED
      BY <3>1 DEF Written
  <2>5. /\ Table(rows) /\ DOMAIN rows = DOMAIN Signage.skus
        /\ \A i \in DOMAIN rows : rows[i] = Row(p, Signage.skus[i])
    <3>1. Len(Signage.skus) \in Nat /\ DOMAIN Signage.skus = 1..Len(Signage.skus)
      BY <2>2, Ids DEF Fixture
    <3> DEFINE S == {Row(p, Signage.skus[i]) : i \in DOMAIN Signage.skus}
    <3>2. rows \in Seq(S)
      BY <3>1
    <3> QED
      BY <3>2, Tabled
  <2> HIDE DEF rows
  <2>6. /\ Table(skus)' /\ DOMAIN skus \subseteq DOMAIN skus'
        /\ \A s \in DOMAIN skus : skus'[s] = skus[s]
        /\ \A s \in DOMAIN skus' \ DOMAIN skus :
             s - Len(skus) \in DOMAIN rows /\ skus'[s] = rows[s - Len(skus)]
    <3>1. Joined(skus, rows, skus')
      BY <2>1, <2>2, <2>5, Joining
    <3> QED
      BY <3>1 DEF Joined
  <2>7. ProductsOK' /\ OptionsOK'
    <3>1. ProductForm(Signage.product) /\ ProductFits(New, Signage.product)
      BY <1>2, <2>2 DEF Fixture, ProductFits, BySlug, ByMaster
    <3>2. products' = Stored(products, New, Signage.product)
      BY <2>1 DEF Stored
    <3> QED
      BY <2>1, <3>1, <3>2, ProductWritten DEF CatalogInv
  <2>8. \A s \in DOMAIN skus : SkuRow(skus[s]) /\ skus[s].product # p
    BY <2>3 DEF CatalogInv, CatalogTypeOK, SkusOK, SkuRow
  <2>9. \A i \in DOMAIN rows :
          /\ rows[i].product = p /\ rows[i].form = Signage.skus[i]
          /\ rows[i] = Row(rows[i].product, rows[i].form) /\ SkuForm(rows[i].form)
    BY <2>2, <2>5 DEF Row, Fixture
  <2>10. \A s \in DOMAIN skus' : SkuRow(skus[s])'
    BY <2>4, <2>6, <2>8, <2>9 DEF SkuRow
  <2> DEFINE Apart(r, q) ==
        /\ r.form.code # q.form.code
        /\ \/ r.product # q.product
           \/ "addon" \in {r.form.kind, q.form.kind}
           \/ r.form.variant # q.form.variant
  <2>11. \A s, t \in DOMAIN skus : s # t => Apart(skus[s], skus[t])
    BY DEF CatalogInv, CatalogTypeOK, SkusOK, SkuFits
  <2>12. \A s \in DOMAIN skus, i \in DOMAIN rows :
           Apart(skus[s], rows[i]) /\ Apart(rows[i], skus[s])
    BY <2>1, <2>8, <2>9
  <2>13. \A i, j \in DOMAIN rows : i # j => Apart(rows[i], rows[j])
    <3> SUFFICES ASSUME NEW i \in DOMAIN rows, NEW j \in DOMAIN rows, i # j
                 PROVE  Apart(rows[i], rows[j])
      OBVIOUS
    <3>1. /\ Signage.skus[i].code # Signage.skus[j].code
          /\ ~(/\ Signage.skus[i].variant = Signage.skus[j].variant
               /\ {Signage.skus[i].kind, Signage.skus[j].kind} = {"primary"})
      BY <2>2, <2>5 DEF WellFormed
    <3>2. /\ Signage.skus[i].kind \in {"primary", "addon"}
          /\ Signage.skus[j].kind \in {"primary", "addon"}
      BY <2>9 DEF SkuForm
    <3> QED
      BY <2>9, <3>1, <3>2
  <2>14. \A s, t \in DOMAIN skus' : s # t => Apart(skus'[s], skus'[t])
    <3> HIDE DEF Apart
    <3> SUFFICES ASSUME NEW s \in DOMAIN skus', NEW t \in DOMAIN skus', s # t
                 PROVE  Apart(skus'[s], skus'[t])
      OBVIOUS
    <3>1. CASE s \in DOMAIN skus /\ t \in DOMAIN skus
      BY <2>6, <2>11, <3>1
    <3>2. CASE s \in DOMAIN skus /\ t \notin DOMAIN skus
      BY <2>6, <2>12, <3>2
    <3>3. CASE s \notin DOMAIN skus /\ t \in DOMAIN skus
      BY <2>6, <2>12, <3>3
    <3>4. CASE s \notin DOMAIN skus /\ t \notin DOMAIN skus
      <4>1. s - Len(skus) # t - Len(skus)
        <5>1. Table(skus') /\ Len(skus) \in Nat
          BY <2>2, <2>6, Ids
        <5>2. DOMAIN skus' = 1..Len(skus') /\ Len(skus') \in Nat
          BY <5>1, Ids
        <5>3. s \in Nat /\ t \in Nat
          BY <5>2
        <5> QED
          BY <5>1, <5>3
      <4> QED
        BY <2>6, <2>13, <3>4, <4>1
    <3> QED
      BY <3>1, <3>2, <3>3, <3>4
  <2>15. SkusOK'
    <3>1. \A s \in DOMAIN skus' : SkuFits(s, skus[s])'
      BY <2>14 DEF SkuFits
    <3> QED
      BY <2>6, <2>10, <3>1 DEF SkusOK
  <2>16. Grows
    BY <2>1, <2>4, <2>6 DEF Grows
  <2> QED
    BY <2>1, <2>7, <2>15, <2>16, DisturbsAll
<1> QED
  BY <1>1, <1>2

-----------------------------------------------------------------------------
(* Requests.                                                               *)

\* A request's own step: it has no run, and the tables stay.
LEMMA RequestMoves ==
  ASSUME CatalogInv, NEW w \in Requests, NEW job, Pending(job),
         pending' = [pending EXCEPT ![w] = job],
         job.table = "image" /\ job.stored => job.file \in files',
         files \subseteq files', files' \subseteq Files, ImagesOK', ImagesExist',
         UNCHANGED <<products, skus, options, seeded, runs>>
  PROVE  StepOwes
<1>1. w \in Writers /\ w \notin Commands /\ runs[w] = NoRun
  BY CatalogAssumption DEF Writers, CatalogInv, WriterInv
<1>2. ProductsOK' /\ SkusOK' /\ OptionsOK' /\ Grows
  BY TablesKept DEF CatalogInv, tables, Grows
<1>3. /\ DOMAIN pending = Writers /\ DOMAIN pending' = Writers /\ DOMAIN runs' = Writers
      /\ seeded' \in BOOLEAN
  BY DEF CatalogInv, CatalogTypeOK
<1>4. ASSUME NEW v \in Writers, v # w PROVE StandsBy(v)
  BY <1>3, <1>4 DEF StandsBy, tables
<1>5. WriterOK(w)' /\ KeepsFaith(w)
  <2>1. pending'[w] = job /\ Pending(job)' /\ runs'[w] = NoRun
    BY <1>1, <1>2, <1>3, JobsStay
  <2>2. Pending(pending[w])' /\ Run(runs[w])'
    BY <2>1 DEF Run
  <2>3. WriterInv(w)'
    BY <1>1, <2>1 DEF WriterInv, NoRun
  <2>4. ~Quiet(w)'
    BY <2>1 DEF Quiet
  <2> QED
    BY <2>2, <2>3, <2>4 DEF WriterOK, QuietInv, KeepsFaith
<1> QED
  BY <1>2, <1>3, <1>4, <1>5 DEF StepOwes

LEMMA AsksOwe ==
  ASSUME CatalogInv, NEW w \in Requests,
         \/ \E p \in DOMAIN products :
              \/ \E form \in SkuForms, id \in {New} \cup DOMAIN skus :
                   AsksForSku(w, id, Row(p, form))
              \/ \E form \in OptionForms, id \in {New} \cup DOMAIN options :
                   AsksForOption(w, id, Row(p, form))
         \/ \E slot \in ImageForms, file \in Files : AsksForImage(w, slot, file)
  PROVE  StepOwes
<1>1. ASSUME NEW job, Pending(job), pending' = [pending EXCEPT ![w] = job],
             job.table = "image" => job.stored = FALSE,
             UNCHANGED <<products, skus, options, images, files, seeded, runs>>
      PROVE  StepOwes
  <2>1. ImagesOK' /\ ImagesExist' /\ files' \subseteq Files
    BY <1>1, ImagesKept DEF Grows, CatalogInv, CatalogTypeOK
  <2> QED
    BY <1>1, <2>1, RequestMoves
<1>2. ASSUME NEW p \in DOMAIN products, NEW form \in SkuForms, NEW id \in {New} \cup DOMAIN skus,
             AsksForSku(w, id, Row(p, form))
      PROVE  StepOwes
  <2> DEFINE job == [table |-> "sku", id |-> id, row |-> Row(p, form)]
  <2>1. SkuRow(Row(p, form))
    BY CatalogAssumption DEF SkuRow, Row
  <2>2. Pending(job) /\ job.table # "image"
    BY <2>1 DEF Pending
  <2>3. /\ pending' = [pending EXCEPT ![w] = job]
        /\ UNCHANGED <<products, skus, options, images, files, seeded, runs>>
    BY <1>2 DEF AsksForSku
  <2> HIDE DEF job
  <2> QED
    BY <1>1, <2>2, <2>3
<1>3. ASSUME NEW p \in DOMAIN products, NEW form \in OptionForms,
             NEW id \in {New} \cup DOMAIN options, AsksForOption(w, id, Row(p, form))
      PROVE  StepOwes
  <2> DEFINE job == [table |-> "option", id |-> id, row |-> Row(p, form)]
  <2>1. OptionRow(Row(p, form))
    BY CatalogAssumption DEF OptionRow, Row
  <2>2. Pending(job) /\ job.table # "image"
    BY <2>1 DEF Pending
  <2>3. /\ pending' = [pending EXCEPT ![w] = job]
        /\ UNCHANGED <<products, skus, options, images, files, seeded, runs>>
    BY <1>3 DEF AsksForOption
  <2> HIDE DEF job
  <2> QED
    BY <1>1, <2>2, <2>3
<1>4. ASSUME NEW slot \in ImageForms, NEW file \in Files, AsksForImage(w, slot, file)
      PROVE  StepOwes
  <2> DEFINE job == [table |-> "image", slot |-> slot, file |-> file, stored |-> FALSE]
  <2>1. Pending(job) /\ job.stored = FALSE
    BY DEF Pending
  <2>2. /\ pending' = [pending EXCEPT ![w] = job]
        /\ UNCHANGED <<products, skus, options, images, files, seeded, runs>>
    BY <1>4 DEF AsksForImage
  <2> HIDE DEF job
  <2> QED
    BY <1>1, <2>1, <2>2
<1> QED
  BY <1>2, <1>3, <1>4

\* The two halves of an upload.
LEMMA ImageStepsOwe ==
  ASSUME CatalogInv, NEW w \in Requests, ImportsImage(w) \/ SetsImage(w)
  PROVE  StepOwes
<1>1. w \in Writers /\ Pending(pending[w]) /\ WriterInv(w) /\ pending[w].table = "image"
  BY DEF Writers, CatalogInv, CatalogTypeOK, ImportsImage, SetsImage
<1>2. pending[w] \in [table : {"image"}, slot : ImageForms, file : Files, stored : BOOLEAN]
  BY <1>1 DEF Pending, Nothing
<1>3. CASE ImportsImage(w)
  <2> DEFINE job == [pending[w] EXCEPT !.stored = TRUE]
  <2>1. Pending(job) /\ job.file = pending[w].file
    BY <1>2 DEF Pending
  <2>2. pending' = [pending EXCEPT ![w] = job]
    BY <1>3 DEF ImportsImage
  <2>3. /\ files' = files \cup {pending[w].file}
        /\ UNCHANGED <<products, skus, options, images, seeded, runs>>
    BY <1>3 DEF ImportsImage
  <2>4. files \subseteq files' /\ files' \subseteq Files
    BY <1>2, <2>3 DEF CatalogInv, CatalogTypeOK
  <2>5. ImagesOK' /\ ImagesExist'
    BY <2>3, <2>4, ImagesKept DEF Grows
  <2> HIDE DEF job
  <2> QED
    BY <2>1, <2>2, <2>3, <2>4, <2>5, RequestMoves
<1>4. CASE SetsImage(w)
  <2>1. pending[w].file \in files /\ pending[w].slot \in ImageForms
    BY <1>1, <1>2, <1>4 DEF WriterInv, SetsImage
  <2>2. /\ pending' = [pending EXCEPT ![w] = Nothing] /\ files' = files
        /\ UNCHANGED <<products, skus, options, seeded, runs>>
    BY <1>4 DEF SetsImage
  <2>3. ImagesOK' /\ ImagesExist'
    <3>1. CASE SlotFits(pending[w].slot)
      <4>1. images' = [s \in DOMAIN images \cup {pending[w].slot} |->
                         IF s = pending[w].slot THEN pending[w].file ELSE images[s]]
        BY <1>4, <3>1 DEF SetsImage
      <4>2. /\ pending[w].slot.product \in DOMAIN products
            /\ {pending[w].slot.sku, pending[w].slot.addon} \ {0} \subseteq DOMAIN skus
        BY <3>1 DEF SlotFits
      <4> QED
        BY <2>1, <2>2, <4>1, <4>2 DEF CatalogInv, CatalogTypeOK, ImagesOK, ImagesExist
    <3>2. CASE ~SlotFits(pending[w].slot)
      BY <1>4, <2>2, <3>2 DEF SetsImage, CatalogInv, CatalogTypeOK, ImagesOK, ImagesExist
    <3> QED
      BY <3>1, <3>2
  <2>4. Pending(Nothing) /\ Nothing.table # "image" /\ files' \subseteq Files
    BY <2>2 DEF Pending, Nothing, CatalogInv, CatalogTypeOK
  <2> QED
    BY <2>2, <2>3, <2>4, RequestMoves
<1> QED
  BY <1>3, <1>4

-----------------------------------------------------------------------------
(* Runs, while they only read.                                             *)

\* What the invariant says of a command with this run and this job.
RunOK(run, job) ==
  /\ Run(run) /\ Pending(job) /\ OwnJob(run, job)
  /\ run.stage \in {"read", "list", "sku", "applied"} => run.product # New
  /\ run.stage \in {"slug", "save", "read"} => run.next = 1
  /\ run.stage = "sku" => SkusToGo(run)
  /\ run # NoRun /\ run.undisturbed =>
       /\ ReadIsTrue(run)
       /\ WellFormed(run.fixture) => Progress(run) /\ (run.asListed => NothingToDo(run))

LEMMA RunIsOK ==
  ASSUME CatalogInv, NEW w \in Commands
  PROVE  w \in Writers /\ RunOK(runs[w], pending[w])
BY DEF Writers, CatalogInv, CatalogTypeOK, WriterInv, QuietInv, Quiet, RunOK

LEMMA CommandsJob ==
  ASSUME NEW run, NEW job, OwnJob(run, job)
  PROVE  job.table \in {"none", "sku", "option"}
<1>1. CASE job = Nothing
  BY <1>1 DEF Nothing
<1>2. CASE job = [table |-> "sku", id |-> run.found, row |-> NextSku(run)]
  BY <1>2
<1>3. ASSUME NEW id, job = [table |-> "option", id |-> id, row |-> NextOption(run)]
      PROVE  job.table = "option"
  BY <1>3
<1> QED
  BY <1>1, <1>2, <1>3 DEF OwnJob

\* The same of the command after a step.
LEMMA RunOKIsEnough ==
  ASSUME NEW w \in Commands, RunOK(runs[w], pending[w])'
  PROVE  WriterOK(w)'
<1>1. w \notin Requests
  BY CatalogAssumption
<1>2. pending'[w].table # "image"
  <2>1. OwnJob(runs'[w], pending'[w])
    BY DEF RunOK
  <2> QED
    BY <2>1, CommandsJob
<1>3. WriterInv(w)'
  BY <1>1, <1>2 DEF RunOK, WriterInv
<1>4. QuietInv(w)'
  BY DEF RunOK, QuietInv, Quiet
<1> QED
  BY <1>3, <1>4 DEF RunOK, WriterOK

OthersAlone(w) ==
  /\ DOMAIN pending' = Writers /\ DOMAIN runs' = Writers
  /\ \A v \in Writers \ {w} : pending'[v] = pending[v] /\ runs'[v] = runs[v]

\* What a run is when a step of its command leaves everything else alone.
LEMMA RunMoves ==
  ASSUME CatalogInv, NEW w \in Commands, NEW run, NEW job, RunOK(run, job),
         OthersAlone(w), runs'[w] = run, pending'[w] = job,
         runs[w] # NoRun /\ run # NoRun =>
           run.fixture = runs[w].fixture /\ run.asListed = runs[w].asListed,
         UNCHANGED <<products, skus, options, images, files, seeded>>
  PROVE  StepOwes
<1>1. w \in Writers
  BY RunIsOK
<1>2. tables' = tables /\ Grows
  BY DEF tables, Grows
<1>3. /\ ProductsOK' /\ SkusOK' /\ OptionsOK' /\ ImagesOK' /\ ImagesExist'
      /\ files' \subseteq Files /\ seeded' \in BOOLEAN
  BY <1>2, TablesKept, ImagesKept DEF CatalogInv, CatalogTypeOK, tables
<1>4. runs'[w] = run /\ pending'[w] = job /\ DOMAIN pending' = Writers /\ DOMAIN runs' = Writers
  BY DEF OthersAlone
<1>5. ASSUME NEW v \in Writers, v # w PROVE StandsBy(v)
  BY <1>2, <1>5 DEF StandsBy, OthersAlone
<1>6. RunOK(run, job)'
  <2>1. Run(run)' /\ Pending(job)'
    BY <1>2, RunsStay, JobsStay DEF RunOK
  <2> QED
    BY <1>2, <2>1, SameTables DEF RunOK
<1>7. RunOK(runs[w], pending[w])'
  BY <1>4, <1>6
<1>8. WriterOK(w)'
  BY <1>7, RunOKIsEnough
<1>9. ASSUME Quiet(w), Quiet(w)' PROVE LeavesUnlisted(w) /\ RedoesNothing(w)
  <2>1. LeavesUnlisted(w)
    BY DEF LeavesUnlisted
  <2>2. RedoesNothing(w)
    BY <1>2, <1>4, <1>9 DEF RedoesNothing, Quiet, RunOK, NothingToDo
  <2> QED
    BY <2>1, <2>2
<1> QED
  BY <1>2, <1>3, <1>4, <1>5, <1>8, <1>9 DEF StepOwes, KeepsFaith

LEMMA RunsEnd ==
  ASSUME NEW run, Run(run), run # NoRun, NEW stage \in Stages, NEW q, q = Over(run, stage)
  PROVE  /\ Run(q) /\ q # NoRun
         /\ q.stage = stage /\ q.fixture = run.fixture /\ q.product = run.product
         /\ q.asListed = run.asListed /\ q.undisturbed = run.undisturbed
<1> DEFINE none == [o \in {} |-> ""]
           p == [run EXCEPT !.stage = stage]
           r == [p EXCEPT !.found = New]
           t == [r EXCEPT !.names = none]
<1>1. run \in RunRecord
  BY DEF Run
<1>2. none \in UNION {[ids -> DOMAIN FoldOf] : ids \in SUBSET DOMAIN options}
  <2>1. none \in [{} -> DOMAIN FoldOf] /\ {} \in SUBSET DOMAIN options
    OBVIOUS
  <2> QED
    BY <2>1
<1> HIDE DEF none
<1>3. p \in RunRecord /\ p.stage = stage /\ p.fixture = run.fixture /\ p.product = run.product
      /\ p.asListed = run.asListed /\ p.undisturbed = run.undisturbed
  BY <1>1 DEF RunRecord
<1> HIDE DEF p
<1>4. r \in RunRecord /\ r.stage = stage /\ r.fixture = run.fixture /\ r.product = run.product
      /\ r.asListed = run.asListed /\ r.undisturbed = run.undisturbed
  BY <1>3 DEF RunRecord
<1> HIDE DEF r
<1>5. t \in RunRecord /\ t.stage = stage /\ t.fixture = run.fixture /\ t.product = run.product
      /\ t.asListed = run.asListed /\ t.undisturbed = run.undisturbed
  BY <1>2, <1>4 DEF RunRecord
<1>6. q = [t EXCEPT !.next = 1]
  BY DEF Over, none, p, r
<1> HIDE DEF t
<1>7. q \in RunRecord /\ q.stage = stage /\ q.fixture = run.fixture /\ q.product = run.product
      /\ q.asListed = run.asListed /\ q.undisturbed = run.undisturbed /\ q.next = 1
  BY <1>5, <1>6 DEF RunRecord
<1>8. 1 \in 1..(Len(run.fixture.skus) + Len(run.fixture.options) + 1)
  <2>1. run.fixture \in Fixtures
    BY <1>1 DEF RunRecord
  <2> QED
    BY <2>1, Listed, One
<1> QED
  BY <1>7, <1>8, NoRunIsNone DEF Run

\* A run is refused only when it still has something to do.
LEMMA Refusing ==
  ASSUME NEW run, Run(run), run # NoRun,
         ~(run.undisturbed /\ run.asListed /\ WellFormed(run.fixture)),
         NEW q, q = Over(run, "refused")
  PROVE  /\ RunOK(q, Nothing) /\ q # NoRun
         /\ q.fixture = run.fixture /\ q.asListed = run.asListed
<1>1. /\ q.stage = "refused" /\ q.fixture = run.fixture /\ q.asListed = run.asListed
      /\ q.undisturbed = run.undisturbed
      /\ Run(q) /\ q # NoRun
  <2>1. PICK stage \in Stages : stage = "refused"
    BY DEF Stages
  <2> QED
    BY <2>1, RunsEnd
<1> QED
  BY <1>1 DEF RunOK, Pending, OwnJob, ReadIsTrue, Progress

\* The rows of a table with something of their own are one at most.
LEMMA IdInIsIn ==
  ASSUME NEW ids
  PROVE  /\ ids = {} => IdIn(ids) = New
         /\ ids # {} => IdIn(ids) \in ids
BY DEF IdIn

\* The fixture's product is found by its slug and by its master SKU.
LEMMA ListingIsFound ==
  ASSUME CatalogInv, NEW fixture, NEW p \in DOMAIN products, products[p] = fixture.product
  PROVE  IdIn(BySlug(fixture)) = p /\ IdIn(ByMaster(fixture)) = p
<1>1. p \in BySlug(fixture) /\ p \in ByMaster(fixture)
  BY DEF BySlug, ByMaster
<1>2. ASSUME NEW q \in BySlug(fixture) \cup ByMaster(fixture) PROVE q = p
  BY <1>2 DEF BySlug, ByMaster, CatalogInv, CatalogTypeOK, ProductsOK, ProductFits
<1> QED
  BY <1>1, <1>2, IdInIsIn

LEMMA BeginsRunOwes ==
  ASSUME CatalogInv, NEW w \in Commands, NEW fixture \in Fixtures, BeginsRun(w, fixture)
  PROVE  StepOwes
<1> DEFINE none == [o \in {} |-> ""]
           p == IdIn(BySlug(fixture))
           run == [stage |-> "slug", fixture |-> fixture, product |-> p,
                   found |-> New, names |-> none, next |-> 1,
                   asListed |-> Applied(fixture) /\ NamesAreClear(fixture), undisturbed |-> TRUE]
<1>1. /\ runs[w] = NoRun /\ runs' = [runs EXCEPT ![w] = run]
      /\ UNCHANGED <<products, skus, options, images, files, seeded, pending>>
  BY DEF BeginsRun
<1>2. w \in Writers /\ RunOK(runs[w], pending[w]) /\ DOMAIN pending = Writers
  BY RunIsOK DEF CatalogInv, CatalogTypeOK
<1>3. pending[w] = Nothing
  BY <1>1, <1>2, NoRunIsNone DEF RunOK, OwnJob
<1>4. p \in {New} \cup DOMAIN products
  BY IdInIsIn DEF BySlug
<1>5. none \in UNION {[ids -> DOMAIN FoldOf] : ids \in SUBSET DOMAIN options}
  <2>1. none \in [{} -> DOMAIN FoldOf] /\ {} \in SUBSET DOMAIN options
    OBVIOUS
  <2> QED
    BY <2>1
<1>6. (Applied(fixture) /\ NamesAreClear(fixture)) \in BOOLEAN
  BY DEF Applied, NamesAreClear
<1> HIDE DEF none, p
<1>7. /\ run \in RunRecord /\ run.stage = "slug" /\ run.fixture = fixture /\ run.product = p
      /\ run.next = 1
      /\ run.asListed => Applied(fixture) /\ NamesAreClear(fixture)
  BY <1>4, <1>5, <1>6 DEF RunRecord, Stages
<1> HIDE DEF run
<1>8. Run(run) /\ run # NoRun
  BY <1>7, Listed, One, NoRunIsNone DEF Run
<1>9. ASSUME Applied(fixture), NamesAreClear(fixture) PROVE NothingToDo(run)
  <2>1. PICK q \in DOMAIN products : Lists(q, fixture)
    BY <1>9 DEF Applied
  <2>2. p = q
    BY <2>1, ListingIsFound DEF Lists, p
  <2>3. p # New
    BY <2>2, Ids DEF CatalogInv, CatalogTypeOK, ProductsOK
  <2> QED
    BY <1>7, <1>9, <2>1, <2>2, <2>3 DEF NothingToDo
<1>10. RunOK(run, Nothing)
  BY <1>7, <1>8, <1>9 DEF RunOK, Pending, OwnJob, ReadIsTrue, Progress
<1>11. OthersAlone(w) /\ runs'[w] = run /\ pending'[w] = Nothing
  BY <1>1, <1>2, <1>3 DEF OthersAlone, CatalogInv, CatalogTypeOK
<1> QED
  BY <1>1, <1>10, <1>11, RunMoves

\* A step that only takes the run of w on to q.
LEMMA RunGoesOn ==
  ASSUME CatalogInv, NEW w \in Commands, NEW q, RunOK(q, Nothing),
         runs' = [runs EXCEPT ![w] = q], pending[w] = Nothing,
         runs[w] # NoRun => q.fixture = runs[w].fixture /\ q.asListed = runs[w].asListed,
         UNCHANGED <<products, skus, options, images, files, seeded, pending>>
  PROVE  StepOwes
<1>1. w \in Writers /\ DOMAIN runs = Writers /\ DOMAIN pending = Writers
  BY RunIsOK DEF CatalogInv, CatalogTypeOK
<1>2. OthersAlone(w) /\ runs'[w] = q /\ pending'[w] = Nothing
  BY <1>1 DEF OthersAlone
<1> QED
  BY <1>2, RunMoves

LEMMA Refused ==
  ASSUME CatalogInv, NEW w \in Commands, runs[w] # NoRun, runs' = Refuses(w),
         ~(/\ runs[w].undisturbed /\ runs[w].asListed
           /\ WellFormed(runs[w].fixture) /\ NothingToDo(runs[w])),
         OthersAlone(w), pending'[w] = Nothing,
         UNCHANGED <<products, skus, options, images, files, seeded>>
  PROVE  StepOwes
<1>1. w \in Writers /\ RunOK(runs[w], pending[w]) /\ DOMAIN runs = Writers
  BY RunIsOK DEF CatalogInv, CatalogTypeOK
<1>2. Run(runs[w]) /\ ~(runs[w].undisturbed /\ runs[w].asListed /\ WellFormed(runs[w].fixture))
  BY <1>1 DEF RunOK
<1>3. PICK q : q = Over(runs[w], "refused")
  OBVIOUS
<1>4. /\ RunOK(q, Nothing) /\ q # NoRun
      /\ q.fixture = runs[w].fixture /\ q.asListed = runs[w].asListed
  BY <1>2, <1>3, Refusing
<1>5. runs'[w] = q
  BY <1>1, <1>3 DEF Refuses
<1> QED
  BY <1>4, <1>5, RunMoves

LEMMA RefusesOwes ==
  ASSUME CatalogInv, NEW w \in Commands, runs[w] # NoRun, runs' = Refuses(w),
         ~(/\ runs[w].undisturbed /\ runs[w].asListed
           /\ WellFormed(runs[w].fixture) /\ NothingToDo(runs[w])),
         pending[w] = Nothing,
         UNCHANGED <<products, skus, options, images, files, seeded, pending>>
  PROVE  StepOwes
<1>1. OthersAlone(w)
  BY DEF OthersAlone, Refuses, CatalogInv, CatalogTypeOK
<1> QED
  BY <1>1, Refused

\* A run that has found its product knows the one that lists the file.
LEMMA FindsMasterOwes ==
  ASSUME CatalogInv, NEW w \in Commands, FindsMaster(w)
  PROVE  StepOwes
<1>1. PICK run : run = runs[w]
  OBVIOUS
<1>2. RunOK(run, pending[w]) /\ run.stage = "slug" /\ run # NoRun /\ pending[w] = Nothing
  <2>1. RunOK(run, pending[w]) /\ run.stage = "slug" /\ run # NoRun
    BY <1>1, RunIsOK, NoRunIsNone DEF FindsMaster
  <2> QED
    BY <2>1 DEF RunOK, OwnJob
<1>3. run \in RunRecord /\ run.next = 1
  BY <1>2 DEF RunOK, Run
<1> DEFINE master == IdIn(ByMaster(run.fixture))
           found == IF run.product # New THEN run.product ELSE master
<1>4. master \in {New} \cup DOMAIN products
  BY IdInIsIn DEF ByMaster
<1>5. NothingToDo(run) => run.product # New /\ run.product = master
  BY <1>3, ListingIsFound DEF NothingToDo, Lists, RunRecord
<1>6. UNCHANGED <<products, skus, options, images, files, seeded, pending>>
  BY DEF FindsMaster
<1>7. CASE New \notin {run.product, master} /\ run.product # master
  <2>1. runs' = Refuses(w)
    BY <1>1, <1>7 DEF FindsMaster
  <2> HIDE DEF master
  <2> QED
    BY <1>1, <1>2, <1>5, <1>6, <1>7, <2>1, RefusesOwes
<1>8. CASE ~(New \notin {run.product, master} /\ run.product # master)
  <2> DEFINE p == [run EXCEPT !.stage = "save"]
             q == [p EXCEPT !.product = found]
  <2>1. runs' = [runs EXCEPT ![w] = q]
    BY <1>1, <1>8 DEF FindsMaster
  <2> HIDE DEF master
  <2>2. /\ q \in RunRecord /\ q.stage = "save" /\ q.product = found /\ q.fixture = run.fixture
        /\ q.next = 1 /\ q.asListed = run.asListed /\ q.undisturbed = run.undisturbed
    BY <1>3, <1>4 DEF RunRecord, Stages
  <2> HIDE DEF q
  <2>3. Run(q) /\ q # NoRun
    <3>1. q.fixture \in Fixtures
      BY <2>2 DEF RunRecord
    <3> QED
      BY <2>2, <3>1, Listed, One, NoRunIsNone DEF Run
  <2>4. NothingToDo(run) => NothingToDo(q)
    BY <2>2 DEF NothingToDo
  <2>5. RunOK(q, Nothing)
    BY <1>2, <2>2, <2>3, <2>4 DEF RunOK, Pending, OwnJob, ReadIsTrue, Progress
  <2> QED
    BY <1>1, <1>2, <1>6, <2>1, <2>2, <2>5, RunGoesOn
<1> QED
  BY <1>7, <1>8

\* What the lemmas on the reading steps start from.
LEMMA RunAtStage ==
  ASSUME CatalogInv, NEW w \in Commands, NEW run, run = runs[w],
         run.stage \in Stages
  PROVE  /\ RunOK(run, pending[w]) /\ run # NoRun /\ run \in RunRecord
         /\ DOMAIN run.names \subseteq DOMAIN options
         /\ run.next \in 1..(Len(run.fixture.skus) + Len(run.fixture.options) + 1)
         /\ Fixture(run.fixture)
         /\ Len(run.fixture.skus) \in Nat /\ DOMAIN run.fixture.skus = 1..Len(run.fixture.skus)
         /\ Len(run.fixture.options) \in Nat
         /\ DOMAIN run.fixture.options = 1..Len(run.fixture.options)
<1>1. RunOK(run, pending[w]) /\ run # NoRun
  BY RunIsOK, NoRunIsNone DEF Stages
<1>2. /\ run \in RunRecord
      /\ run.next \in 1..(Len(run.fixture.skus) + Len(run.fixture.options) + 1)
  BY <1>1 DEF RunOK, Run
<1>3. run.fixture \in Fixtures
  BY <1>2 DEF RunRecord
<1>4. PICK ids \in SUBSET DOMAIN options : run.names \in [ids -> DOMAIN FoldOf]
  BY <1>2 DEF RunRecord
<1> QED
  BY <1>1, <1>2, <1>3, <1>4, Listed

LEMMA ReadsProductOwes ==
  ASSUME CatalogInv, NEW w \in Commands, ReadsProduct(w)
  PROVE  StepOwes
<1>1. PICK run : run = runs[w]
  OBVIOUS
<1>2. run.stage = "read" /\ run.stage \in Stages
  BY <1>1 DEF ReadsProduct, Stages
<1>3. /\ RunOK(run, pending[w]) /\ run # NoRun /\ run \in RunRecord
      /\ run.next = 1 /\ run.product # New /\ pending[w] = Nothing
  BY <1>1, <1>2, RunAtStage DEF RunOK, OwnJob
<1> DEFINE own == {o \in DOMAIN options : options[o].product = run.product}
           names == [o \in own |-> options[o].form.name]
           p == [run EXCEPT !.stage = "list"]
           q == [p EXCEPT !.names = names]
<1>4. /\ runs' = [runs EXCEPT ![w] = q]
      /\ UNCHANGED <<products, skus, options, images, files, seeded, pending>>
  BY <1>1 DEF ReadsProduct
<1>5. names \in UNION {[ids -> DOMAIN FoldOf] : ids \in SUBSET DOMAIN options}
  <2>1. \A o \in own : options[o].form.name \in DOMAIN FoldOf
    BY DEF CatalogInv, CatalogTypeOK, OptionsOK, OptionRow, OptionForm
  <2>2. names \in [own -> DOMAIN FoldOf] /\ own \in SUBSET DOMAIN options
    BY <2>1
  <2> HIDE DEF own, names
  <2> QED
    BY <2>2
<1>6. DOMAIN names = own /\ \A o \in own : names[o] = options[o].form.name
  OBVIOUS
<1> HIDE DEF names
<1>7. /\ q \in RunRecord /\ q.stage = "list" /\ q.names = names
      /\ q.product = run.product /\ q.fixture = run.fixture /\ q.next = 1
      /\ q.asListed = run.asListed /\ q.undisturbed = run.undisturbed
  BY <1>3, <1>5 DEF RunRecord, Stages
<1> HIDE DEF q
<1>8. Run(q) /\ q # NoRun
  <2>1. q.fixture \in Fixtures
    BY <1>7 DEF RunRecord
  <2> QED
    BY <1>7, <2>1, Listed, One, NoRunIsNone DEF Run
<1>9. ReadIsTrue(q)
  BY <1>6, <1>7 DEF ReadIsTrue
<1>10. Progress(run) => Progress(q)
  <2>1. ListedSoFar(q)
    <3>1. /\ Len(run.fixture.skus) \in Nat
          /\ DOMAIN run.fixture.skus = 1..Len(run.fixture.skus)
          /\ DOMAIN run.fixture.options = 1..Len(run.fixture.options)
          /\ Len(run.fixture.options) \in Nat
      BY <1>1, <1>2, RunAtStage
    <3>2. \A i \in DOMAIN run.fixture.skus : ~(i < 1)
      BY <3>1
    <3>3. \A i \in DOMAIN run.fixture.options : ~(Len(run.fixture.skus) + i < 1)
      BY <3>1
    <3>4. \A i \in DOMAIN q.fixture.skus : ~(i < q.next)
      BY <1>7, <3>2
    <3>5. \A i \in DOMAIN q.fixture.options : ~(Len(q.fixture.skus) + i < q.next)
      BY <1>7, <3>3
    <3> QED
      BY <3>4, <3>5 DEF ListedSoFar
  <2> QED
    BY <1>2, <1>7, <2>1 DEF Progress
<1>11. NothingToDo(run) => NothingToDo(q)
  BY <1>6, <1>7 DEF NothingToDo
<1>12. RunOK(q, Nothing)
  BY <1>3, <1>7, <1>8, <1>9, <1>10, <1>11 DEF RunOK, Pending, OwnJob
<1> QED
  BY <1>1, <1>3, <1>4, <1>7, <1>12, RunGoesOn

\* A SKU of the file's product is found, and no other product's; when the
\* product lists the file it is the SKU listed.
LEMMA FindsSkuOwes ==
  ASSUME CatalogInv, NEW w \in Commands, FindsSku(w)
  PROVE  StepOwes
<1>1. PICK run : run = runs[w]
  OBVIOUS
<1>2. run.stage = "list" /\ run.stage \in Stages /\ SkusToGo(run)
  BY <1>1 DEF FindsSku, Stages
<1>3. /\ RunOK(run, pending[w]) /\ run # NoRun /\ run \in RunRecord
      /\ run.product # New /\ pending[w] = Nothing
      /\ run.next \in 1..(Len(run.fixture.skus) + Len(run.fixture.options) + 1)
  BY <1>1, <1>2, RunAtStage DEF RunOK, OwnJob
<1> DEFINE code == NextSku(run).form.code
           ids == {s \in DOMAIN skus : skus[s].form.code = code}
           found == IdIn(ids)
           p == [run EXCEPT !.stage = "sku"]
           q == [p EXCEPT !.found = found]
<1>4. UNCHANGED <<products, skus, options, images, files, seeded, pending>>
  BY DEF FindsSku
<1>5. New \notin DOMAIN skus
  BY Ids DEF CatalogInv, CatalogTypeOK, SkusOK
<1>6. /\ found = New => \A s \in DOMAIN skus : skus[s].form.code # code
      /\ found # New => found \in DOMAIN skus /\ skus[found].form.code = code
  BY <1>5, IdInIsIn
<1>7. NothingToDo(run) => found # New /\ skus[found].product = run.product
  <2> SUFFICES ASSUME NothingToDo(run) PROVE found # New /\ skus[found].product = run.product
    OBVIOUS
  <2>1. run.next \in DOMAIN run.fixture.skus
    <3>1. /\ Len(run.fixture.skus) \in Nat /\ Len(run.fixture.options) \in Nat
          /\ DOMAIN run.fixture.skus = 1..Len(run.fixture.skus)
      BY <1>1, <1>2, RunAtStage
    <3> QED
      BY <1>2, <1>3, <3>1 DEF SkusToGo
  <2>2. PICK s \in DOMAIN skus : skus[s] = NextSku(run)
    BY <2>1 DEF NothingToDo, Lists, NextSku
  <2>3. found # New
    BY <1>6, <2>2
  <2>4. found = s
    BY <1>6, <2>2, <2>3 DEF CatalogInv, CatalogTypeOK, SkusOK, SkuFits
  <2> QED
    BY <2>2, <2>3, <2>4 DEF NextSku, Row
<1>8. CASE found # New /\ skus[found].product # run.product
  <2>1. runs' = Refuses(w)
    BY <1>1, <1>8 DEF FindsSku
  <2> HIDE DEF found
  <2> QED
    BY <1>1, <1>3, <1>4, <1>7, <1>8, <2>1, RefusesOwes
<1>9. CASE ~(found # New /\ skus[found].product # run.product)
  <2>1. runs' = [runs EXCEPT ![w] = q]
    BY <1>1, <1>9 DEF FindsSku
  <2> HIDE DEF found
  <2>2. /\ q \in RunRecord /\ q.stage = "sku" /\ q.found = found /\ q.names = run.names
        /\ q.product = run.product /\ q.fixture = run.fixture /\ q.next = run.next
        /\ q.asListed = run.asListed /\ q.undisturbed = run.undisturbed
    BY <1>3, <1>6 DEF RunRecord, Stages
  <2> HIDE DEF q
  <2>3. Run(q) /\ q # NoRun
    BY <1>3, <2>2, NoRunIsNone DEF Run
  <2>4. NextSku(q) = NextSku(run) /\ SkusToGo(q)
    BY <1>2, <2>2 DEF NextSku, SkusToGo
  <2>5. ReadIsTrue(run) => ReadIsTrue(q)
    BY <1>2, <1>6, <1>9, <2>2, <2>4 DEF ReadIsTrue
  <2>6. Progress(run) => Progress(q)
    BY <1>2, <2>2 DEF Progress, ListedSoFar
  <2>7. NothingToDo(run) => NothingToDo(q)
    BY <1>2, <2>2 DEF NothingToDo
  <2>8. RunOK(q, Nothing)
    BY <1>3, <2>2, <2>3, <2>4, <2>5, <2>6, <2>7 DEF RunOK, Pending, OwnJob
  <2> QED
    BY <1>1, <1>3, <1>4, <2>1, <2>2, <2>8, RunGoesOn
<1> QED
  BY <1>8, <1>9

\* Everything the file lists has been come to.
LEMMA EndsRunOwes ==
  ASSUME CatalogInv, NEW w \in Commands, EndsRun(w)
  PROVE  StepOwes
<1>1. PICK run : run = runs[w]
  OBVIOUS
<1>2. /\ run.stage = "list" /\ run.stage \in Stages /\ pending[w] = Nothing
      /\ run.next > Len(run.fixture.skus) + Len(run.fixture.options)
  BY <1>1 DEF EndsRun, Stages
<1>3. RunOK(run, pending[w]) /\ run # NoRun /\ run.product # New /\ Run(run)
  BY <1>1, <1>2, RunAtStage DEF RunOK
<1>4. PICK q : q = Over(run, "applied")
  OBVIOUS
<1>5. /\ Run(q) /\ q # NoRun /\ q.stage = "applied"
      /\ q.fixture = run.fixture /\ q.product = run.product
      /\ q.asListed = run.asListed /\ q.undisturbed = run.undisturbed
  BY <1>3, <1>4, RunsEnd DEF Stages
<1>6. /\ \A i \in DOMAIN run.fixture.skus : i < run.next
      /\ \A i \in DOMAIN run.fixture.options : Len(run.fixture.skus) + i < run.next
  <2>1. /\ Len(run.fixture.skus) \in Nat
        /\ DOMAIN run.fixture.skus = 1..Len(run.fixture.skus)
        /\ DOMAIN run.fixture.options = 1..Len(run.fixture.options)
        /\ Len(run.fixture.options) \in Nat
        /\ run.next \in 1..(Len(run.fixture.skus) + Len(run.fixture.options) + 1)
    BY <1>1, <1>2, RunAtStage
  <2>2. PICK m : m = Len(run.fixture.skus)
    OBVIOUS
  <2>3. PICK l : l = Len(run.fixture.options)
    OBVIOUS
  <2>4. PICK k : k = run.next
    OBVIOUS
  <2>5. m \in Nat /\ l \in Nat /\ k \in 1..(m + l + 1) /\ k > m + l
    BY <1>2, <2>1, <2>2, <2>3, <2>4
  <2>6. (\A i \in 1..m : i < k) /\ (\A i \in 1..l : m + i < k)
    BY <2>5
  <2> QED
    BY <2>1, <2>2, <2>3, <2>4, <2>6
<1>7. ASSUME Progress(run) PROVE Lists(q.product, q.fixture)
  <2>1. ListedSoFar(run) /\ products[run.product] = run.fixture.product
    BY <1>2, <1>7 DEF Progress
  <2>2. \A i \in DOMAIN run.fixture.skus :
          \E s \in DOMAIN skus : skus[s] = Row(run.product, run.fixture.skus[i])
    BY <1>6, <2>1 DEF ListedSoFar
  <2>3. \A i \in DOMAIN run.fixture.options :
          \E o \in DOMAIN options : options[o] = Row(run.product, run.fixture.options[i])
    BY <1>6, <2>1 DEF ListedSoFar
  <2> QED
    BY <1>5, <2>1, <2>2, <2>3 DEF Lists
<1>8. NothingToDo(run) => NothingToDo(q)
  BY <1>5 DEF NothingToDo
<1>9. RunOK(q, Nothing)
  <2>1. ReadIsTrue(q) /\ (Progress(run) => Progress(q))
    BY <1>5, <1>7 DEF ReadIsTrue, Progress
  <2> QED
    BY <1>3, <1>5, <1>8, <2>1 DEF RunOK, Pending, OwnJob
<1>10. /\ runs' = [runs EXCEPT ![w] = q]
       /\ UNCHANGED <<products, skus, options, images, files, seeded, pending>>
  BY <1>1, <1>4 DEF EndsRun
<1> QED
  BY <1>1, <1>2, <1>5, <1>9, <1>10, RunGoesOn

\* Which entry of the file a run has come to, with m SKUs and l options.
LEMMA Entries ==
  ASSUME NEW m \in Nat, NEW l \in Nat, NEW n \in 1..(m + l + 1)
  PROVE  /\ n <= m => n \in 1..m
         /\ ~(n <= m) /\ n <= m + l => n - m \in 1..l
OBVIOUS

LEMMA RowsFields ==
  ASSUME NEW p, NEW f, NEW row, row = Row(p, f)
  PROVE  row.product = p /\ row.form = f /\ row = Row(row.product, row.form)
BY DEF Row

\* A row that a run has come to is a row of the table.
LEMMA NextRows ==
  ASSUME CatalogInv, NEW w \in Commands, NEW run, run = runs[w],
         run.stage \in {"list", "sku"}
  PROVE  /\ SkusToGo(run) =>
              /\ run.next \in DOMAIN run.fixture.skus
              /\ SkuRow(NextSku(run)) /\ NextSku(run).product = run.product
              /\ NextSku(run).form = run.fixture.skus[run.next]
         /\ ~SkusToGo(run) /\ run.next <= Len(run.fixture.skus) + Len(run.fixture.options) =>
              /\ run.next - Len(run.fixture.skus) \in DOMAIN run.fixture.options
              /\ OptionRow(NextOption(run)) /\ NextOption(run).product = run.product
              /\ NextOption(run).form = run.fixture.options[run.next - Len(run.fixture.skus)]
<1>1. run.stage \in Stages
  BY DEF Stages
<1>2. run.product \in DOMAIN products
  <2>1. RunOK(run, pending[w]) /\ run \in RunRecord
    BY <1>1, RunAtStage
  <2> QED
    BY <2>1 DEF RunOK, RunRecord
<1>3. /\ Len(run.fixture.skus) \in Nat
      /\ DOMAIN run.fixture.skus = 1..Len(run.fixture.skus)
      /\ DOMAIN run.fixture.options = 1..Len(run.fixture.options)
      /\ Len(run.fixture.options) \in Nat
      /\ run.next \in 1..(Len(run.fixture.skus) + Len(run.fixture.options) + 1)
  BY <1>1, RunAtStage
<1>4. Fixture(run.fixture)
  BY <1>1, RunAtStage
<1>5. ASSUME SkusToGo(run)
      PROVE  /\ run.next \in DOMAIN run.fixture.skus
             /\ SkuRow(NextSku(run)) /\ NextSku(run).product = run.product
             /\ NextSku(run).form = run.fixture.skus[run.next]
  <2>1. run.next \in DOMAIN run.fixture.skus
    <3>1. run.next \in 1..Len(run.fixture.skus)
      BY <1>3, <1>5, Entries, Zenon DEF SkusToGo
    <3> QED
      BY <1>3, <3>1, Zenon
  <2>2. SkuForm(run.fixture.skus[run.next])
    BY <1>4, <2>1 DEF Fixture
  <2> QED
    <3>1. PICK f : f = run.fixture.skus[run.next]
      OBVIOUS
    <3>2. PICK row : row = Row(run.product, f)
      OBVIOUS
    <3>3. row.product = run.product /\ row.form = f /\ row = Row(row.product, row.form)
      BY <3>2, RowsFields
    <3>4. SkuRow(row)
      BY <1>2, <2>2, <3>1, <3>3 DEF SkuRow
    <3>5. NextSku(run) = row
      BY <3>1, <3>2 DEF NextSku
    <3> QED
      BY <2>1, <3>1, <3>3, <3>4, <3>5
<1>6. ASSUME ~SkusToGo(run), run.next <= Len(run.fixture.skus) + Len(run.fixture.options)
      PROVE  /\ run.next - Len(run.fixture.skus) \in DOMAIN run.fixture.options
             /\ OptionRow(NextOption(run)) /\ NextOption(run).product = run.product
             /\ NextOption(run).form = run.fixture.options[run.next - Len(run.fixture.skus)]
  <2>1. PICK i : i = run.next - Len(run.fixture.skus)
    OBVIOUS
  <2>2. i \in DOMAIN run.fixture.options
    BY <1>3, <1>6, <2>1, Entries DEF SkusToGo
  <2>3. OptionForm(run.fixture.options[i])
    BY <1>4, <2>2 DEF Fixture
  <2>4. PICK f : f = run.fixture.options[i]
    OBVIOUS
  <2>5. PICK row : row = Row(run.product, f)
    OBVIOUS
  <2>6. row.product = run.product /\ row.form = f /\ row = Row(row.product, row.form)
    BY <2>5, RowsFields
  <2>7. OptionRow(row)
    BY <1>2, <2>3, <2>4, <2>6 DEF OptionRow
  <2>8. NextOption(run) = row
    BY <2>1, <2>4, <2>5 DEF NextOption
  <2> QED
    BY <2>1, <2>2, <2>4, <2>6, <2>7, <2>8, Zenon
<1> QED
  BY <1>5, <1>6

\* What a command is about to write.
LEMMA JobIsSet ==
  ASSUME CatalogInv, NEW w \in Commands, NEW job, RunOK(runs[w], job),
         runs[w] # NoRun, pending' = [pending EXCEPT ![w] = job],
         UNCHANGED <<products, skus, options, images, files, seeded, runs>>
  PROVE  StepOwes
<1>1. w \in Writers /\ DOMAIN runs = Writers /\ DOMAIN pending = Writers
  BY RunIsOK DEF CatalogInv, CatalogTypeOK
<1>2. OthersAlone(w) /\ runs'[w] = runs[w] /\ pending'[w] = job
  BY <1>1 DEF OthersAlone
<1> QED
  BY <1>2, RunMoves

\* A product that lists the file allows what the file has.
LEMMA AllowsNextSkuOwes ==
  ASSUME CatalogInv, NEW w \in Commands, AllowsNextSku(w)
  PROVE  StepOwes
<1>1. PICK run : run = runs[w]
  OBVIOUS
<1>2. /\ run.stage = "sku" /\ run.stage \in Stages /\ pending[w] = Nothing
      /\ UNCHANGED <<products, skus, options, images, files, seeded>>
  BY <1>1 DEF AllowsNextSku, Stages
<1>3. /\ RunOK(run, pending[w]) /\ run # NoRun /\ run \in RunRecord
      /\ run.product # New /\ SkusToGo(run) /\ Fixture(run.fixture)
  BY <1>1, <1>2, RunAtStage DEF RunOK
<1>4. /\ SkuRow(NextSku(run)) /\ run.next \in DOMAIN run.fixture.skus
      /\ NextSku(run).product = run.product /\ NextSku(run).form = run.fixture.skus[run.next]
  BY <1>1, <1>2, <1>3, NextRows
<1>5. CASE AllowsSku(NextSku(run))
  <2> DEFINE job == [table |-> "sku", id |-> run.found, row |-> NextSku(run)]
  <2>1. pending' = [pending EXCEPT ![w] = job] /\ runs' = runs
    BY <1>1, <1>5 DEF AllowsNextSku
  <2>2. Pending(job)
    BY <1>3, <1>4 DEF Pending, RunRecord
  <2>3. OwnJob(run, job)
    BY <1>2 DEF OwnJob
  <2> HIDE DEF job
  <2>4. RunOK(run, job)
    BY <1>3, <2>2, <2>3 DEF RunOK
  <2> QED
    BY <1>1, <1>2, <1>3, <2>1, <2>4, JobIsSet
<1>6. CASE ~AllowsSku(NextSku(run))
  <2>1. runs' = Refuses(w) /\ pending' = pending
    BY <1>1, <1>6 DEF AllowsNextSku
  <2>2. ASSUME WellFormed(run.fixture), NothingToDo(run) PROVE FALSE
    <3>1. products[run.product].type # "one_time" /\ NextSku(run).form.kind # "primary"
      BY <1>4, <1>6 DEF AllowsSku
    <3>2. products[run.product] = run.fixture.product
      BY <2>2 DEF NothingToDo, Lists
    <3>3. run.fixture.product.type = "subscription"
      BY <1>3, <3>1, <3>2 DEF Fixture, ProductForm, Types
    <3> QED
      BY <1>4, <2>2, <3>1, <3>3 DEF WellFormed
  <2> QED
    BY <1>1, <1>2, <1>3, <2>1, <2>2, RefusesOwes
<1> QED
  BY <1>5, <1>6

LEMMA AllowsNextOptionOwes ==
  ASSUME CatalogInv, NEW w \in Commands, AllowsNextOption(w)
  PROVE  StepOwes
<1>1. PICK run : run = runs[w]
  OBVIOUS
<1> DEFINE matched == {o \in DOMAIN run.names : Matches(run, o)}
<1>2. /\ run.stage = "list" /\ run.stage \in Stages /\ pending[w] = Nothing
      /\ ~SkusToGo(run) /\ run.next <= Len(run.fixture.skus) + Len(run.fixture.options)
      /\ UNCHANGED <<products, skus, options, images, files, seeded>>
  BY <1>1 DEF AllowsNextOption, Stages
<1>3. /\ RunOK(run, pending[w]) /\ run # NoRun /\ run \in RunRecord
      /\ run.product # New /\ Fixture(run.fixture)
      /\ DOMAIN run.names \subseteq DOMAIN options
  BY <1>1, <1>2, RunAtStage DEF RunOK
<1>4. /\ OptionRow(NextOption(run)) /\ NextOption(run).product = run.product
      /\ run.next - Len(run.fixture.skus) \in DOMAIN run.fixture.options
  BY <1>1, <1>2, <1>3, NextRows
<1>5. CASE AllowsOption(NextOption(run))
  <2>1. PICK id \in IF matched = {} THEN {New} ELSE matched :
          pending' = [pending EXCEPT ![w] =
                        [table |-> "option", id |-> id, row |-> NextOption(run)]]
    BY <1>1, <1>5 DEF AllowsNextOption
  <2> DEFINE job == [table |-> "option", id |-> id, row |-> NextOption(run)]
  <2>2. runs' = runs
    BY <1>1, <1>5 DEF AllowsNextOption
  <2>3. id \in {New} \cup DOMAIN run.names
    OBVIOUS
  <2>4. Pending(job)
    BY <1>3, <1>4, <2>3 DEF Pending
  <2>5. IF id = New THEN \A o \in DOMAIN run.names : ~Matches(run, o) ELSE Matches(run, id)
    <3>1. New \notin DOMAIN options
      BY Ids DEF CatalogInv, CatalogTypeOK, OptionsOK
    <3> QED
      BY <1>3, <3>1
  <2>6. OwnJob(run, job)
    BY <1>2, <2>3, <2>5 DEF OwnJob
  <2> HIDE DEF job
  <2>7. RunOK(run, job)
    BY <1>3, <2>4, <2>6 DEF RunOK
  <2>8. pending' = [pending EXCEPT ![w] = job]
    BY <2>1 DEF job
  <2> QED
    BY <1>1, <1>2, <1>3, <2>2, <2>7, <2>8, JobIsSet
<1>6. CASE ~AllowsOption(NextOption(run))
  <2>1. runs' = Refuses(w) /\ pending' = pending
    BY <1>1, <1>6 DEF AllowsNextOption
  <2>2. ASSUME WellFormed(run.fixture), NothingToDo(run) PROVE FALSE
    <3>1. products[run.product].type # "one_time"
      BY <1>4, <1>6 DEF AllowsOption
    <3>2. products[run.product] = run.fixture.product
      BY <2>2 DEF NothingToDo, Lists
    <3>3. run.fixture.product.type = "subscription"
      BY <1>3, <3>1, <3>2 DEF Fixture, ProductForm, Types
    <3>4. run.fixture.options = <<>>
      BY <2>2, <3>3 DEF WellFormed
    <3> QED
      BY <1>4, <3>4
  <2> QED
    BY <1>1, <1>2, <1>3, <2>1, <2>2, RefusesOwes
<1> QED
  BY <1>5, <1>6

-----------------------------------------------------------------------------
(* Runs and requests, when they write.                                     *)

\* A write of w disturbs every other run.
LEMMA Writing ==
  ASSUME CatalogInv, NEW w \in Writers, ProductsOK', SkusOK', OptionsOK', Grows,
         UNCHANGED <<images, files, seeded>>,
         DOMAIN pending' = Writers, DOMAIN runs' = Writers,
         \A v \in Writers \ {w} : pending'[v] = pending[v] /\ runs'[v] = Disturb(runs[v]),
         WriterOK(w)', KeepsFaith(w)
  PROVE  StepOwes
<1>1. ImagesOK' /\ ImagesExist' /\ files' \subseteq Files /\ seeded' \in BOOLEAN
  BY ImagesKept DEF CatalogInv, CatalogTypeOK
<1>2. \A v \in Writers \ {w} : StandsBy(v)
  BY DEF StandsBy
<1> QED
  BY <1>1, <1>2 DEF StepOwes

\* Writing a row over itself.
LEMMA SameRow ==
  ASSUME NEW table, Table(table), NEW id \in DOMAIN table
  PROVE  Stored(table, id, table[id]) = table
<1>1. id # New /\ table \in Seq(Rows(table))
  BY Ids DEF Table
<1>2. [table EXCEPT ![id] = table[id]] = table
  BY <1>1
<1> QED
  BY <1>1, <1>2 DEF Stored

\* The product is stored first.
LEMMA WritesProductOwes ==
  ASSUME CatalogInv, NEW w \in Commands, WritesProduct(w)
  PROVE  StepOwes
<1>1. PICK run : run = runs[w]
  OBVIOUS
<1>2. run.stage = "save" /\ run.stage \in Stages
  BY <1>1 DEF WritesProduct, Stages
<1>3. /\ RunOK(run, pending[w]) /\ run # NoRun /\ run \in RunRecord
      /\ run.next = 1 /\ pending[w] = Nothing /\ Fixture(run.fixture)
  BY <1>1, <1>2, RunAtStage DEF RunOK, OwnJob
<1> DEFINE id == run.product
           form == run.fixture.product
<1>4. /\ w \in Writers /\ DOMAIN pending = Writers /\ DOMAIN runs = Writers
      /\ ProductsOK /\ Table(products)
  BY RunIsOK DEF CatalogInv, CatalogTypeOK, ProductsOK
<1>5. id \in {New} \cup DOMAIN products /\ ProductForm(form)
  BY <1>3 DEF RunRecord, Fixture
<1>6. NothingToDo(run) => id # New /\ id \in DOMAIN products /\ products[id] = form
  BY <1>5 DEF NothingToDo, Lists
<1>7. CASE ~ProductFits(id, form)
  <2>1. /\ runs' = Refuses(w)
        /\ UNCHANGED <<products, skus, options, images, files, seeded, pending>>
    BY <1>1, <1>7 DEF WritesProduct
  <2>2. ~NothingToDo(run)
    BY <1>4, <1>6, <1>7 DEF ProductsOK
  <2> QED
    BY <1>1, <1>3, <2>1, <2>2, RefusesOwes
<1>8. CASE ProductFits(id, form)
  <2> PICK n : n = IdOf(products, id)
    OBVIOUS
  <2> DEFINE p == [run EXCEPT !.stage = "read"]
  <2> PICK q : q = [p EXCEPT !.product = n]
    OBVIOUS
  <2>1. /\ products' = Stored(products, id, form)
        /\ runs' = [Disturbed(w) EXCEPT ![w].stage = "read", ![w].product = n]
        /\ UNCHANGED <<skus, options, images, files, seeded, pending>>
    BY <1>1, <1>8 DEF WritesProduct
  <2>2. Disturbed(w)[w] = run /\ DOMAIN Disturbed(w) = Writers
    BY <1>1, <1>4 DEF Disturbed
  <2>3. /\ runs'[w] = q /\ DOMAIN runs' = Writers
        /\ \A v \in Writers \ {w} : runs'[v] = Disturb(runs[v])
    BY <1>4, <2>1, <2>2 DEF Disturbed
  <2>4. /\ DOMAIN products' = DOMAIN products \cup {n} /\ products'[n] = form /\ n # New
        /\ \A r \in DOMAIN products \ {n} : products'[r] = products[r]
        /\ id # New => n = id
    <3>1. Written(products, id, form, Stored(products, id, form), n)
      BY <1>4, <1>5, Storing
    <3> QED
      BY <2>1, <3>1 DEF Written
  <2>5. ProductsOK' /\ SkusOK' /\ OptionsOK' /\ Grows
    BY <1>5, <1>8, <2>1, ProductWritten DEF CatalogInv, Grows
  <2>6. run \in RunRecord'
    BY <1>3, <2>5, RecordsStay
  <2>7. /\ q \in RunRecord' /\ q.stage = "read" /\ q.product = n /\ q.fixture = run.fixture
        /\ q.next = 1 /\ q.asListed = run.asListed /\ q.undisturbed = run.undisturbed
    BY <1>3, <2>4, <2>6 DEF RunRecord, Stages
  <2>8. Run(q)' /\ q # NoRun
    <3>1. q.fixture \in Fixtures
      BY <1>3, <2>7 DEF RunRecord
    <3> QED
      BY <2>7, <3>1, Listed, One DEF Run, NoRun
  <2>9. ASSUME NothingToDo(run) PROVE tables' = tables /\ NothingToDo(q)'
    <3>1. n = id /\ products' = products
      BY <1>4, <1>6, <2>1, <2>4, <2>9, SameRow
    <3>2. tables' = tables
      BY <2>1, <3>1 DEF tables
    <3>3. NothingToDo(run)'
      BY <2>9, <3>2, SameTables
    <3> QED
      BY <2>7, <3>1, <3>2, <3>3 DEF NothingToDo
  <2>10. Progress(q)'
    BY <2>4, <2>7 DEF Progress
  <2>11. RunOK(q, Nothing)'
    BY <1>3, <2>4, <2>7, <2>8, <2>9, <2>10 DEF RunOK, Pending, OwnJob, ReadIsTrue
  <2>12. RunOK(runs[w], pending[w])'
    <3>1. runs'[w] = q /\ pending'[w] = Nothing
      BY <1>3, <2>1, <2>3
    <3> QED
      BY <2>11, <3>1
  <2>13. KeepsFaith(w)
    <3>1. LeavesUnlisted(w)
      BY <2>1, <2>3, <2>4, <2>7 DEF LeavesUnlisted
    <3>2. ASSUME Quiet(w) PROVE RedoesNothing(w)
      BY <1>1, <1>3, <2>3, <2>7, <2>9, <3>2 DEF RedoesNothing, Quiet, RunOK
    <3> QED
      BY <3>1, <3>2 DEF KeepsFaith
  <2> QED
    BY <1>4, <2>1, <2>3, <2>5, <2>12, <2>13, RunOKIsEnough, Writing
<1> QED
  BY <1>7, <1>8

\* A run whose write has gone through goes on with the next entry.
Continues(w, run, q) ==
  /\ runs'[w] = q /\ DOMAIN runs' = Writers
  /\ \A v \in Writers \ {w} : runs'[v] = Disturb(runs[v])
  /\ Run(q)' /\ q.stage = "list" /\ q.next = run.next + 1
  /\ q.fixture = run.fixture /\ q.product = run.product
  /\ q.names = run.names /\ q.asListed = run.asListed
  /\ q.undisturbed = run.undisturbed

LEMMA GoingOn ==
  ASSUME CatalogInv, Grows, NEW w \in Commands, NEW run, run = runs[w],
         run.stage \in {"list", "sku"},
         run.next <= Len(run.fixture.skus) + Len(run.fixture.options),
         runs' = Goes(Disturbed(w), w)
  PROVE  \E q : Continues(w, run, q)
<1> DEFINE p == [run EXCEPT !.stage = "list"]
           r == [p EXCEPT !.next = run.next + 1]
<1> PICK q : q = [r EXCEPT !.found = New]
  OBVIOUS
<1>1. /\ run \in RunRecord /\ run # NoRun
      /\ run.next \in 1..(Len(run.fixture.skus) + Len(run.fixture.options) + 1)
      /\ Len(run.fixture.skus) \in Nat /\ Len(run.fixture.options) \in Nat
  BY RunAtStage DEF Stages
<1>2. w \in Writers /\ Disturbed(w)[w] = run /\ DOMAIN Disturbed(w) = Writers
  BY RunIsOK DEF Disturbed
<1>3. runs' = [Disturbed(w) EXCEPT ![w].stage = "list", ![w].next = @ + 1, ![w].found = New]
  BY <1>1, <1>2 DEF Goes
<1>4. runs'[w] = q /\ DOMAIN runs' = Writers
  <2>1. runs' = [Disturbed(w) EXCEPT ![w] = q]
    BY <1>2, <1>3
  <2> QED
    BY <1>2, <2>1
<1>5. \A v \in Writers \ {w} : runs'[v] = Disturb(runs[v])
  BY <1>2, <1>3 DEF Disturbed
<1>6. run \in RunRecord'
  BY <1>1, RecordsStay
<1>7. /\ run.next + 1 \in Nat
      /\ run.next + 1 \in 1..(Len(run.fixture.skus) + Len(run.fixture.options) + 1)
  <2>1. \A m, l \in Nat : \A k \in 1..(m + l + 1) :
          k <= m + l => k + 1 \in Nat /\ k + 1 \in 1..(m + l + 1)
    OBVIOUS
  <2> QED
    BY <1>1, <2>1
<1>8. /\ p \in RunRecord' /\ p.stage = "list" /\ p.next = run.next
      /\ p.fixture = run.fixture /\ p.product = run.product /\ p.names = run.names
      /\ p.asListed = run.asListed /\ p.undisturbed = run.undisturbed
  BY <1>6 DEF RunRecord, Stages
<1> HIDE DEF p
<1>9. PICK t : t = r
  OBVIOUS
<1>10. /\ t \in RunRecord' /\ t.stage = "list" /\ t.next = run.next + 1
       /\ t.fixture = run.fixture /\ t.product = run.product /\ t.names = run.names
       /\ t.asListed = run.asListed /\ t.undisturbed = run.undisturbed
  BY <1>7, <1>8, <1>9 DEF RunRecord
<1>11. /\ q \in RunRecord' /\ q.stage = "list" /\ q.next = run.next + 1
       /\ q.fixture = run.fixture /\ q.product = run.product /\ q.names = run.names
       /\ q.asListed = run.asListed /\ q.undisturbed = run.undisturbed
  <2>1. q = [t EXCEPT !.found = New]
    BY <1>9
  <2> QED
    BY <1>10, <2>1 DEF RunRecord
<1>12. Run(q)'
  BY <1>7, <1>11 DEF Run
<1> QED
  BY <1>4, <1>5, <1>11, <1>12 DEF Continues

\* The write of a request: it has no run that could go wrong.
LEMMA RequestWrites ==
  ASSUME CatalogInv, NEW w \in Requests, ProductsOK', SkusOK', OptionsOK', Grows,
         UNCHANGED <<images, files, seeded>>,
         pending' = [pending EXCEPT ![w] = Nothing], runs' = Goes(Disturbed(w), w)
  PROVE  StepOwes
<1>1. w \in Writers /\ w \notin Commands /\ runs[w] = NoRun
  BY CatalogAssumption DEF Writers, CatalogInv, WriterInv
<1>2. runs' = Disturbed(w)
  BY <1>1 DEF Goes, Disturbed
<1>3. /\ DOMAIN pending' = Writers /\ DOMAIN runs' = Writers
      /\ pending'[w] = Nothing /\ runs'[w] = NoRun
      /\ \A v \in Writers \ {w} : pending'[v] = pending[v] /\ runs'[v] = Disturb(runs[v])
  BY <1>1, <1>2 DEF Disturbed, CatalogInv, CatalogTypeOK
<1>4. WriterOK(w)' /\ KeepsFaith(w)
  <2>1. Pending(pending[w])' /\ Run(runs[w])'
    BY <1>3 DEF Pending, Run
  <2>2. WriterInv(w)'
    BY <1>1, <1>3 DEF WriterInv, NoRun, Nothing
  <2>3. ~Quiet(w)'
    BY <1>3 DEF Quiet
  <2> QED
    BY <2>1, <2>2, <2>3 DEF WriterOK, QuietInv, KeepsFaith
<1> QED
  BY <1>1, <1>3, <1>4, Writing

\* A request whose write is refused.
LEMMA RequestRefused ==
  ASSUME CatalogInv, NEW w \in Requests, pending' = [pending EXCEPT ![w] = Nothing],
         runs' = Refuses(w), UNCHANGED <<products, skus, options, images, files, seeded>>
  PROVE  StepOwes
<1>1. runs' = runs
  BY DEF Refuses, Writers, CatalogInv, WriterInv
<1>2. ImagesOK' /\ ImagesExist' /\ files' \subseteq Files
  BY ImagesKept DEF Grows, CatalogInv, CatalogTypeOK
<1>3. Pending(Nothing) /\ Nothing.table # "image"
  BY DEF Pending, Nothing
<1> QED
  BY <1>1, <1>2, <1>3, RequestMoves

\* What the write of a run comes to, once the run is known to be as it should.
LEMMA RunWrites ==
  ASSUME CatalogInv, NEW w \in Commands, NEW run, run = runs[w], run # NoRun,
         ProductsOK', SkusOK', OptionsOK', Grows, UNCHANGED <<images, files, seeded>>,
         pending' = [pending EXCEPT ![w] = Nothing],
         NEW q, runs'[w] = q, DOMAIN runs' = Writers,
         \A v \in Writers \ {w} : runs'[v] = Disturb(runs[v]),
         RunOK(q, Nothing)', q.stage # "refused",
         run.undisturbed => LeavesUnlisted(w),
         run.undisturbed /\ run.asListed /\ WellFormed(run.fixture) => tables' = tables
  PROVE  StepOwes
<1>1. w \in Writers /\ DOMAIN pending = Writers
  BY RunIsOK DEF CatalogInv, CatalogTypeOK
<1>2. DOMAIN pending' = Writers /\ \A v \in Writers \ {w} : pending'[v] = pending[v]
  BY <1>1
<1>3. WriterOK(w)'
  <2>1. RunOK(runs[w], pending[w])'
    BY <1>1
  <2> QED
    BY <2>1, RunOKIsEnough
<1>4. KeepsFaith(w)
  BY DEF KeepsFaith, RedoesNothing, Quiet
<1> QED
  BY <1>1, <1>2, <1>3, <1>4, Writing

\* A command about to write a SKU.
LEMMA SkuJob ==
  ASSUME CatalogInv, NEW w \in Commands, NEW run, run = runs[w], pending[w].table = "sku"
  PROVE  /\ run.stage = "sku" /\ RunOK(run, pending[w]) /\ run # NoRun /\ run \in RunRecord
         /\ pending[w].id = run.found /\ pending[w].row = NextSku(run)
         /\ run.next \in DOMAIN run.fixture.skus
         /\ NextSku(run).product = run.product
         /\ NextSku(run).form = run.fixture.skus[run.next]
<1>1. RunOK(run, pending[w]) /\ OwnJob(run, pending[w])
  BY RunIsOK DEF RunOK
<1>2. pending[w] # Nothing
  BY DEF Nothing
<1>3. ASSUME NEW id, pending[w] = [table |-> "option", id |-> id, row |-> NextOption(run)]
      PROVE  FALSE
  BY <1>3
<1>4. run.stage = "sku" /\ pending[w] = [table |-> "sku", id |-> run.found, row |-> NextSku(run)]
  BY <1>1, <1>2, <1>3 DEF OwnJob
<1>5. run.stage \in {"list", "sku"} /\ run.stage \in Stages
  BY <1>4 DEF Stages
<1>6. SkusToGo(run)
  BY <1>1, <1>4 DEF RunOK
<1>7. pending[w].id = run.found /\ pending[w].row = NextSku(run)
  BY <1>4
<1> QED
  BY <1>1, <1>4, <1>5, <1>6, <1>7, NextRows, RunAtStage

\* When there is nothing to do it is there already, and it is the one found.
LEMMA SkuThere ==
  ASSUME CatalogInv, NEW run, run.stage = "sku", run.found \in {New} \cup DOMAIN skus,
         run.next \in DOMAIN run.fixture.skus, ReadIsTrue(run), NothingToDo(run)
  PROVE  run.found \in DOMAIN skus /\ skus[run.found] = NextSku(run)
<1>1. PICK s \in DOMAIN skus : skus[s] = NextSku(run)
  BY DEF NothingToDo, Lists, NextSku
<1>2. run.found # New /\ skus[run.found].form.code = skus[s].form.code
  BY <1>1 DEF ReadIsTrue
<1>3. run.found \in DOMAIN skus /\ run.found = s
  BY <1>2 DEF CatalogInv, CatalogTypeOK, SkusOK, SkuFits
<1> QED
  BY <1>1, <1>3

\* A SKU written over one that an earlier entry lists would have its code.
LEMMA SkuListed ==
  ASSUME NEW run, ListedSoFar(run), ReadIsTrue(run), WellFormed(run.fixture),
         run.stage = "sku", run.next \in DOMAIN run.fixture.skus,
         \A i \in DOMAIN run.fixture.skus : i < run.next + 1 => i < run.next \/ i = run.next,
         \A i \in DOMAIN run.fixture.options : ~(Len(run.fixture.skus) + i < run.next + 1),
         NEW n, Written(skus, run.found, NextSku(run), skus', n),
         NEW q, q.fixture = run.fixture, q.product = run.product, q.next = run.next + 1
  PROVE  ListedSoFar(q)'
<1>1. \A i \in DOMAIN run.fixture.skus : i < q.next => i < run.next \/ i = run.next
  OBVIOUS
<1>2. \A i \in DOMAIN run.fixture.options : ~(Len(run.fixture.skus) + i < q.next)
  OBVIOUS
<1>3. /\ DOMAIN skus' = DOMAIN skus \cup {n} /\ skus'[n] = NextSku(run)
      /\ \A s \in DOMAIN skus \ {n} : skus'[s] = skus[s]
      /\ run.found # New => n = run.found
      /\ run.found = New => n \notin DOMAIN skus
  BY DEF Written
<1>4. ASSUME NEW i \in DOMAIN run.fixture.skus, i < q.next
      PROVE  \E s \in DOMAIN skus' : skus'[s] = Row(q.product, q.fixture.skus[i])
  <2>1. CASE i = run.next
    BY <1>3, <2>1 DEF NextSku
  <2>2. CASE i < run.next
    <3>1. PICK s \in DOMAIN skus : skus[s] = Row(run.product, run.fixture.skus[i])
      BY <2>2 DEF ListedSoFar
    <3>2. s # n
      <4>1. i # run.next
        BY <2>2
      <4>2. run.fixture.skus[i].code # run.fixture.skus[run.next].code
        BY <4>1 DEF WellFormed
      <4>3. skus[s].form.code # NextSku(run).form.code
        BY <3>1, <4>2 DEF NextSku, Row
      <4>4. run.found # New => skus[run.found].form.code = NextSku(run).form.code
        BY DEF ReadIsTrue
      <4> QED
        BY <1>3, <4>3, <4>4
    <3> QED
      BY <1>3, <3>1, <3>2
  <2> QED
    BY <1>1, <1>4, <2>1, <2>2
<1> QED
  BY <1>2, <1>4 DEF ListedSoFar

\* The write of a SKU, or its refusal.
LEMMA WritesSkuOwes ==
  ASSUME CatalogInv, NEW w \in Writers, WritesSku(w)
  PROVE  StepOwes
<1>1. PICK job : job = pending[w]
  OBVIOUS
<1>2. /\ job.id \in {New} \cup DOMAIN skus /\ SkuRow(job.row)
      /\ pending' = [pending EXCEPT ![w] = Nothing]
      /\ UNCHANGED <<products, options, images, files, seeded>>
  <2>1. Pending(job) /\ job.table = "sku"
    BY <1>1 DEF CatalogInv, CatalogTypeOK, WritesSku
  <2> QED
    BY <2>1 DEF WritesSku, Pending, Nothing
<1>3. w \in Requests \/ w \in Commands
  BY DEF Writers
<1>4. PICK run : run = runs[w]
  OBVIOUS
<1>5. CASE SkuFits(job.id, job.row)
  <2>1. skus' = Stored(skus, job.id, job.row) /\ runs' = Goes(Disturbed(w), w)
    BY <1>1, <1>5 DEF WritesSku
  <2>2. ProductsOK' /\ SkusOK' /\ OptionsOK' /\ Grows
    BY <1>2, <1>5, <2>1, SkuWritten DEF CatalogInv, Grows
  <2>3. CASE w \in Requests
    BY <1>2, <2>1, <2>2, <2>3, RequestWrites
  <2>4. CASE w \in Commands
    <3>1. /\ run.stage = "sku" /\ RunOK(run, job) /\ run # NoRun /\ run \in RunRecord
          /\ job.id = run.found /\ job.row = NextSku(run)
          /\ run.next \in DOMAIN run.fixture.skus
          /\ NextSku(run).product = run.product
          /\ NextSku(run).form = run.fixture.skus[run.next]
      BY <1>1, <1>4, <2>4, SkuJob DEF WritesSku
    <3>2. /\ run.next <= Len(run.fixture.skus) + Len(run.fixture.options)
          /\ \A i \in DOMAIN run.fixture.skus : i < run.next + 1 => i < run.next \/ i = run.next
          /\ \A i \in DOMAIN run.fixture.options : ~(Len(run.fixture.skus) + i < run.next + 1)
      <4>1. PICK m, l, k : m = Len(run.fixture.skus) /\ l = Len(run.fixture.options) /\ k = run.next
        OBVIOUS
      <4>2. /\ m \in Nat /\ l \in Nat /\ k \in 1..(m + l + 1) /\ k \in 1..m
            /\ DOMAIN run.fixture.skus = 1..m /\ DOMAIN run.fixture.options = 1..l
        BY <1>4, <2>4, <3>1, <4>1, RunAtStage DEF Stages
      <4>3. /\ k <= m + l
            /\ \A i \in 1..m : i < k + 1 => i < k \/ i = k
            /\ \A i \in 1..l : ~(m + i < k + 1)
        BY <4>2
      <4> QED
        BY <4>1, <4>2, <4>3, Zenon
    <3> PICK q : Continues(w, run, q)
      BY <1>4, <2>1, <2>2, <2>4, <3>1, <3>2, GoingOn
    <3>3. /\ runs'[w] = q /\ DOMAIN runs' = Writers
          /\ \A v \in Writers \ {w} : runs'[v] = Disturb(runs[v])
          /\ Run(q)' /\ q.stage = "list" /\ q.next = run.next + 1
          /\ q.fixture = run.fixture /\ q.product = run.product
          /\ q.names = run.names /\ q.asListed = run.asListed
          /\ q.undisturbed = run.undisturbed
      BY DEF Continues
    <3>4. PICK n : Written(skus, job.id, job.row, skus', n)
      BY <1>2, <2>1, Storing DEF CatalogInv, CatalogTypeOK, SkusOK
    <3>5. ASSUME run.undisturbed, run.asListed, WellFormed(run.fixture)
          PROVE  tables' = tables
      <4>1. run.found \in DOMAIN skus /\ skus[run.found] = NextSku(run)
        BY <1>2, <3>1, <3>5, SkuThere DEF RunOK
      <4>2. Stored(skus, run.found, NextSku(run)) = skus
        BY <4>1, SameRow DEF CatalogInv, CatalogTypeOK, SkusOK
      <4> QED
        BY <1>2, <2>1, <3>1, <4>2 DEF tables
    <3>6. ASSUME run.undisturbed PROVE ReadIsTrue(q)'
      BY <1>2, <3>1, <3>3, <3>6 DEF RunOK, ReadIsTrue
    <3>7. ASSUME run.undisturbed, WellFormed(run.fixture) PROVE Progress(q)'
      <4>1. ListedSoFar(run) /\ ReadIsTrue(run) /\ products[run.product] = run.fixture.product
        BY <3>1, <3>7 DEF RunOK, Progress
      <4>2. ListedSoFar(q)'
        BY <3>1, <3>2, <3>3, <3>4, <3>7, <4>1, SkuListed
      <4>3. products'[q.product] = q.fixture.product
        BY <1>2, <3>3, <4>1
      <4> QED
        BY <3>3, <4>2, <4>3 DEF Progress
    <3>8. ASSUME run.undisturbed, run.asListed, WellFormed(run.fixture)
          PROVE  NothingToDo(q)'
      <4>1. NothingToDo(run)'
        BY <3>1, <3>5, <3>8, SameTables DEF RunOK
      <4> QED
        BY <3>1, <3>3, <4>1 DEF NothingToDo
    <3>9. RunOK(q, Nothing)'
      BY <3>1, <3>3, <3>6, <3>7, <3>8 DEF RunOK, Pending, OwnJob
    <3>10. ASSUME run.undisturbed PROVE LeavesUnlisted(w)
      <4>1. ReadIsTrue(run)
        BY <3>1, <3>10 DEF RunOK
      <4>2. ASSUME NEW s \in DOMAIN skus, skus'[s] # skus[s]
            PROVE  /\ skus[s].product = run.product
                   /\ run.fixture.skus[run.next].code = skus[s].form.code
        <5>1. run.found # New /\ s = run.found
          BY <3>1, <3>4, <4>2 DEF Written
        <5> QED
          BY <3>1, <4>1, <5>1 DEF ReadIsTrue
      <4> QED
        BY <1>2, <1>4, <3>1, <3>3, <4>2 DEF LeavesUnlisted
    <3> QED
      BY <1>2, <1>4, <2>2, <2>4, <3>1, <3>3, <3>5, <3>9, <3>10, RunWrites
  <2> QED
    BY <1>3, <2>3, <2>4
<1>6. CASE ~SkuFits(job.id, job.row)
  <2>1. skus' = skus /\ runs' = Refuses(w)
    BY <1>1, <1>6 DEF WritesSku
  <2>2. CASE w \in Requests
    BY <1>2, <2>1, <2>2, RequestRefused
  <2>3. CASE w \in Commands
    <3>1. /\ run.stage = "sku" /\ RunOK(run, job) /\ run # NoRun /\ run \in RunRecord
          /\ job.id = run.found /\ job.row = NextSku(run)
          /\ run.next \in DOMAIN run.fixture.skus
      BY <1>1, <1>4, <2>3, SkuJob DEF WritesSku
    <3>2. ASSUME run.undisturbed, run.asListed, WellFormed(run.fixture)
          PROVE  FALSE
      <4>1. run.found \in DOMAIN skus /\ skus[run.found] = NextSku(run)
        BY <1>2, <3>1, <3>2, SkuThere DEF RunOK
      <4> QED
        BY <1>6, <3>1, <4>1 DEF CatalogInv, CatalogTypeOK, SkusOK
    <3>3. OthersAlone(w) /\ pending'[w] = Nothing
      BY <1>2, <2>1 DEF OthersAlone, Refuses, CatalogInv, CatalogTypeOK
    <3> QED
      BY <1>2, <1>4, <2>1, <2>3, <3>1, <3>2, <3>3, Refused
  <2> QED
    BY <1>3, <2>2, <2>3
<1> QED
  BY <1>5, <1>6

\* A command about to write a shipping option.
LEMMA OptionJob ==
  ASSUME CatalogInv, NEW w \in Commands, NEW run, run = runs[w], pending[w].table = "option"
  PROVE  /\ run.stage = "list" /\ RunOK(run, pending[w]) /\ run # NoRun /\ run \in RunRecord
         /\ ~SkusToGo(run) /\ run.next <= Len(run.fixture.skus) + Len(run.fixture.options)
         /\ pending[w].id \in {New} \cup DOMAIN run.names /\ pending[w].row = NextOption(run)
         /\ pending[w].id = New => \A o \in DOMAIN run.names : ~Matches(run, o)
         /\ pending[w].id # New => Matches(run, pending[w].id)
         /\ DOMAIN run.names \subseteq DOMAIN options
         /\ run.next - Len(run.fixture.skus) \in DOMAIN run.fixture.options
         /\ NextOption(run).product = run.product
         /\ NextOption(run).form = run.fixture.options[run.next - Len(run.fixture.skus)]
<1>1. RunOK(run, pending[w]) /\ OwnJob(run, pending[w])
  BY RunIsOK DEF RunOK
<1>2. pending[w] # Nothing
  BY DEF Nothing
<1>3. pending[w] # [table |-> "sku", id |-> run.found, row |-> NextSku(run)]
  OBVIOUS
<1>4. /\ run.stage = "list" /\ ~SkusToGo(run)
      /\ run.next <= Len(run.fixture.skus) + Len(run.fixture.options)
  BY <1>1, <1>2, <1>3 DEF OwnJob
<1>5. PICK id \in {New} \cup DOMAIN run.names :
        /\ pending[w] = [table |-> "option", id |-> id, row |-> NextOption(run)]
        /\ IF id = New THEN \A o \in DOMAIN run.names : ~Matches(run, o) ELSE Matches(run, id)
  BY <1>1, <1>2, <1>3 DEF OwnJob
<1>6. pending[w].id = id /\ pending[w].row = NextOption(run)
  BY <1>5
<1>7. run.stage \in {"list", "sku"} /\ run.stage \in Stages
  BY <1>4 DEF Stages
<1>8. run # NoRun /\ run \in RunRecord /\ DOMAIN run.names \subseteq DOMAIN options
  BY <1>7, RunAtStage
<1>9. /\ run.next - Len(run.fixture.skus) \in DOMAIN run.fixture.options
      /\ NextOption(run).product = run.product
      /\ NextOption(run).form = run.fixture.options[run.next - Len(run.fixture.skus)]
  BY <1>4, <1>7, NextRows
<1> QED
  BY <1>1, <1>4, <1>5, <1>6, <1>8, <1>9, Zenon

\* When there is nothing to do it is there already, under the id that matched.
LEMMA OptionThere ==
  ASSUME NEW run, run.stage = "list", NEW i \in DOMAIN run.fixture.options,
         NextOption(run) = Row(run.product, run.fixture.options[i]),
         NEW id \in {New} \cup DOMAIN run.names, DOMAIN run.names \subseteq DOMAIN options,
         id = New => \A o \in DOMAIN run.names : ~Matches(run, o),
         id # New => Matches(run, id),
         ReadIsTrue(run), NothingToDo(run)
  PROVE  id \in DOMAIN options /\ options[id] = NextOption(run)
<1>1. PICK o \in DOMAIN options : options[o] = NextOption(run)
  BY DEF NothingToDo, Lists
<1>2. options[o].product = run.product
  BY <1>1 DEF Row
<1>3. o \in DOMAIN run.names
  BY <1>2 DEF NothingToDo
<1>4. \A q \in DOMAIN run.names :
        /\ options[q].product = run.product
        /\ FoldOf[options[q].form.name] = FoldOf[run.names[q]]
  BY DEF ReadIsTrue
<1>5. Matches(run, o)
  BY <1>1, <1>3, <1>4 DEF Matches
<1>6. id \in DOMAIN run.names /\ Matches(run, id)
  BY <1>3, <1>5
<1>7. FoldOf[options[id].form.name] = FoldOf[options[o].form.name]
  BY <1>1, <1>4, <1>6 DEF Matches
<1>8. id = o
  BY <1>2, <1>4, <1>6, <1>7 DEF NothingToDo, NamesAreClear
<1> QED
  BY <1>1, <1>8

\* An option written over one that an earlier entry lists would have its name.
LEMMA OptionListed ==
  ASSUME NEW run, ListedSoFar(run), ReadIsTrue(run), WellFormed(run.fixture),
         run.stage = "list", NEW e \in DOMAIN run.fixture.options,
         NextOption(run) = Row(run.product, run.fixture.options[e]),
         \A i \in DOMAIN run.fixture.skus : i < run.next,
         \A i \in DOMAIN run.fixture.options :
           Len(run.fixture.skus) + i < run.next + 1 =>
             i = e \/ (i # e /\ Len(run.fixture.skus) + i < run.next),
         NEW id \in {New} \cup DOMAIN run.names, id # New => Matches(run, id),
         NEW n, Written(options, id, NextOption(run), options', n), skus' = skus,
         NEW q, q.fixture = run.fixture, q.product = run.product, q.next = run.next + 1
  PROVE  ListedSoFar(q)'
<1>1. /\ DOMAIN options' = DOMAIN options \cup {n} /\ options'[n] = NextOption(run)
      /\ \A o \in DOMAIN options \ {n} : options'[o] = options[o]
      /\ id # New => n = id
      /\ id = New => n \notin DOMAIN options
  BY DEF Written
<1>2. \A i \in DOMAIN q.fixture.skus :
        \E s \in DOMAIN skus' : skus'[s] = Row(q.product, q.fixture.skus[i])
  BY DEF ListedSoFar
<1>3. ASSUME NEW i \in DOMAIN run.fixture.options, Len(run.fixture.skus) + i < q.next
      PROVE  \E o \in DOMAIN options' : options'[o] = Row(q.product, q.fixture.options[i])
  <2>1. CASE i = e
    BY <1>1, <2>1
  <2>2. CASE i # e /\ Len(run.fixture.skus) + i < run.next
    <3>1. PICK o \in DOMAIN options : options[o] = Row(run.product, run.fixture.options[i])
      BY <2>2 DEF ListedSoFar
    <3>2. FoldOf[run.fixture.options[i].name] # FoldOf[run.fixture.options[e].name]
      BY <2>2 DEF WellFormed
    <3>3. FoldOf[options[o].form.name] # FoldOf[NextOption(run).form.name]
      BY <3>1, <3>2 DEF Row
    <3>4. id # New => FoldOf[options[id].form.name] = FoldOf[NextOption(run).form.name]
      BY DEF ReadIsTrue, Matches
    <3>5. o # n
      BY <1>1, <3>3, <3>4
    <3> QED
      BY <1>1, <3>1, <3>5
  <2> QED
    BY <1>3, <2>1, <2>2
<1> QED
  BY <1>2, <1>3 DEF ListedSoFar

\* The write of an option, or its refusal.
LEMMA WritesOptionOwes ==
  ASSUME CatalogInv, NEW w \in Writers, WritesOption(w)
  PROVE  StepOwes
<1>1. PICK job : job = pending[w]
  OBVIOUS
<1>2. /\ job.id \in {New} \cup DOMAIN options /\ OptionRow(job.row)
      /\ pending' = [pending EXCEPT ![w] = Nothing]
      /\ UNCHANGED <<products, skus, images, files, seeded>>
  <2>1. Pending(job) /\ job.table = "option"
    BY <1>1 DEF CatalogInv, CatalogTypeOK, WritesOption
  <2> QED
    BY <2>1 DEF WritesOption, Pending, Nothing
<1>3. w \in Requests \/ w \in Commands
  BY DEF Writers
<1>4. PICK run : run = runs[w]
  OBVIOUS
<1> PICK e : e = run.next - Len(run.fixture.skus)
  OBVIOUS
<1>5. ASSUME w \in Commands
      PROVE  /\ run.stage = "list" /\ RunOK(run, job) /\ run # NoRun /\ run \in RunRecord
             /\ run.next <= Len(run.fixture.skus) + Len(run.fixture.options)
             /\ job.id \in {New} \cup DOMAIN run.names /\ job.row = NextOption(run)
             /\ job.id = New => \A o \in DOMAIN run.names : ~Matches(run, o)
             /\ job.id # New => Matches(run, job.id)
             /\ DOMAIN run.names \subseteq DOMAIN options
             /\ e \in DOMAIN run.fixture.options
             /\ NextOption(run) = Row(run.product, run.fixture.options[e])
             /\ NextOption(run).product = run.product
             /\ NextOption(run).form = run.fixture.options[e]
  BY <1>1, <1>4, <1>5, OptionJob DEF WritesOption, NextOption
<1>6. CASE OptionFits(job.id, job.row)
  <2>1. options' = Stored(options, job.id, job.row) /\ runs' = Goes(Disturbed(w), w)
    BY <1>1, <1>6 DEF WritesOption
  <2>2. ProductsOK' /\ SkusOK' /\ OptionsOK' /\ Grows
    BY <1>2, <1>6, <2>1, OptionWritten DEF CatalogInv, Grows
  <2>3. CASE w \in Requests
    <3>1. /\ UNCHANGED <<images, files, seeded>>
          /\ pending' = [pending EXCEPT ![w] = Nothing] /\ runs' = Goes(Disturbed(w), w)
      BY <1>2, <2>1
    <3> QED
      BY <2>2, <2>3, <3>1, RequestWrites
  <2>4. CASE w \in Commands
    <3>1. /\ run.stage = "list" /\ RunOK(run, job) /\ run # NoRun /\ run \in RunRecord
          /\ run.next <= Len(run.fixture.skus) + Len(run.fixture.options)
          /\ job.id \in {New} \cup DOMAIN run.names /\ job.row = NextOption(run)
          /\ job.id = New => \A o \in DOMAIN run.names : ~Matches(run, o)
          /\ job.id # New => Matches(run, job.id)
          /\ DOMAIN run.names \subseteq DOMAIN options
          /\ e \in DOMAIN run.fixture.options
          /\ NextOption(run) = Row(run.product, run.fixture.options[e])
          /\ NextOption(run).product = run.product
          /\ NextOption(run).form = run.fixture.options[e]
      BY <1>5, <2>4
    <3>2. /\ \A i \in DOMAIN run.fixture.skus : i < run.next
          /\ \A i \in DOMAIN run.fixture.options :
               Len(run.fixture.skus) + i < run.next + 1 =>
                 i = e \/ (i # e /\ Len(run.fixture.skus) + i < run.next)
      <4>1. PICK m, l, k : m = Len(run.fixture.skus) /\ l = Len(run.fixture.options) /\ k = run.next
        OBVIOUS
      <4>2. /\ m \in Nat /\ l \in Nat /\ k \in 1..(m + l + 1) /\ e = k - m /\ e \in 1..l
            /\ DOMAIN run.fixture.skus = 1..m /\ DOMAIN run.fixture.options = 1..l
        BY <1>4, <2>4, <3>1, <4>1, RunAtStage DEF Stages
      <4>3. /\ \A i \in 1..m : i < k
            /\ \A i \in 1..l : m + i < k + 1 => i = e \/ (i # e /\ m + i < k)
        BY <4>2
      <4> QED
        BY <4>1, <4>2, <4>3, Zenon
    <3> PICK q : Continues(w, run, q)
      BY <1>4, <2>1, <2>2, <2>4, <3>1, GoingOn
    <3>3. /\ runs'[w] = q /\ DOMAIN runs' = Writers
          /\ \A v \in Writers \ {w} : runs'[v] = Disturb(runs[v])
          /\ Run(q)' /\ q.stage = "list" /\ q.next = run.next + 1
          /\ q.fixture = run.fixture /\ q.product = run.product
          /\ q.names = run.names /\ q.asListed = run.asListed
          /\ q.undisturbed = run.undisturbed
      BY DEF Continues
    <3>4. PICK n : Written(options, job.id, job.row, options', n)
      BY <1>2, <2>1, Storing DEF CatalogInv, CatalogTypeOK, OptionsOK
    <3>5. /\ options'[n] = NextOption(run)
          /\ \A o \in DOMAIN options \ {n} : options'[o] = options[o]
          /\ job.id # New => n = job.id
          /\ job.id = New => n \notin DOMAIN options
      BY <3>1, <3>4 DEF Written
    <3>6. ASSUME run.undisturbed, run.asListed, WellFormed(run.fixture)
          PROVE  tables' = tables
      <4>1. job.id \in DOMAIN options /\ options[job.id] = NextOption(run)
        BY <3>1, <3>6, OptionThere DEF RunOK
      <4>2. Stored(options, job.id, NextOption(run)) = options
        BY <4>1, SameRow DEF CatalogInv, CatalogTypeOK, OptionsOK
      <4> QED
        BY <1>2, <2>1, <3>1, <4>2 DEF tables
    <3>7. ASSUME run.undisturbed PROVE ReadIsTrue(q)'
      <4>1. \A o \in DOMAIN run.names :
              /\ options[o].product = run.product
              /\ FoldOf[options[o].form.name] = FoldOf[run.names[o]]
        BY <3>1, <3>7 DEF RunOK, ReadIsTrue
      <4>2. ASSUME NEW o \in DOMAIN run.names
            PROVE  /\ options'[o].product = run.product
                   /\ FoldOf[options'[o].form.name] = FoldOf[run.names[o]]
        <5>1. CASE o # n
          BY <3>1, <3>5, <4>1, <5>1
        <5>2. CASE o = n
          BY <3>1, <3>5, <5>2 DEF Matches
        <5> QED
          BY <5>1, <5>2
      <4> QED
        BY <3>3, <4>2 DEF ReadIsTrue
    <3>8. ASSUME run.undisturbed, WellFormed(run.fixture) PROVE Progress(q)'
      <4>1. ListedSoFar(run) /\ ReadIsTrue(run) /\ products[run.product] = run.fixture.product
        BY <3>1, <3>8 DEF RunOK, Progress
      <4>2. ListedSoFar(q)'
        <5>1. Written(options, job.id, NextOption(run), options', n) /\ skus' = skus
          BY <1>2, <3>1, <3>4
        <5>2. /\ run.stage = "list" /\ e \in DOMAIN run.fixture.options
              /\ NextOption(run) = Row(run.product, run.fixture.options[e])
              /\ job.id \in {New} \cup DOMAIN run.names
              /\ job.id # New => Matches(run, job.id)
          BY <3>1
        <5>3. q.fixture = run.fixture /\ q.product = run.product /\ q.next = run.next + 1
          BY <3>3
        <5> QED
          BY <3>2, <3>8, <4>1, <5>1, <5>2, <5>3, OptionListed
      <4>3. products'[q.product] = q.fixture.product
        BY <1>2, <3>3, <4>1
      <4> QED
        BY <3>3, <4>2, <4>3 DEF Progress
    <3>9. ASSUME run.undisturbed, run.asListed, WellFormed(run.fixture)
          PROVE  NothingToDo(q)'
      <4>1. NothingToDo(run)'
        BY <3>1, <3>6, <3>9, SameTables DEF RunOK
      <4> QED
        BY <3>1, <3>3, <4>1 DEF NothingToDo
    <3>10. RunOK(q, Nothing)'
      BY <3>1, <3>3, <3>7, <3>8, <3>9 DEF RunOK, Pending, OwnJob
    <3>11. ASSUME run.undisturbed PROVE LeavesUnlisted(w)
      <4>1. \A o \in DOMAIN run.names :
              /\ options[o].product = run.product
              /\ FoldOf[options[o].form.name] = FoldOf[run.names[o]]
        BY <3>1, <3>11 DEF RunOK, ReadIsTrue
      <4>2. ASSUME NEW o \in DOMAIN options, options'[o] # options[o]
            PROVE  /\ options[o].product = run.product
                   /\ Taken(run.fixture, options[o].form.name)
        <5>1. o = job.id /\ o \in DOMAIN run.names /\ Matches(run, o)
          BY <3>1, <3>5, <4>2
        <5>2. FoldOf[run.fixture.options[e].name] = FoldOf[options[o].form.name]
          <6>1. FoldOf[run.names[o]] = FoldOf[NextOption(run).form.name]
            BY <5>1 DEF Matches
          <6>2. NextOption(run).form = run.fixture.options[e]
            BY <3>1
          <6> QED
            BY <4>1, <5>1, <6>1, <6>2
        <5> QED
          BY <3>1, <4>1, <5>1, <5>2 DEF Taken
      <4> QED
        BY <1>2, <1>4, <3>3, <4>2 DEF LeavesUnlisted
    <3>12. /\ UNCHANGED <<images, files, seeded>>
           /\ pending' = [pending EXCEPT ![w] = Nothing]
      BY <1>2
    <3>13. /\ run # NoRun /\ runs'[w] = q /\ DOMAIN runs' = Writers
           /\ \A v \in Writers \ {w} : runs'[v] = Disturb(runs[v])
           /\ q.stage # "refused"
      BY <3>1, <3>3
    <3> QED
      BY <1>4, <2>2, <2>4, <3>6, <3>10, <3>11, <3>12, <3>13, RunWrites
  <2> QED
    BY <1>3, <2>3, <2>4
<1>7. CASE ~OptionFits(job.id, job.row)
  <2>1. options' = options /\ runs' = Refuses(w)
    BY <1>1, <1>7 DEF WritesOption
  <2>2. CASE w \in Requests
    BY <1>2, <2>1, <2>2, RequestRefused
  <2>3. CASE w \in Commands
    <3>1. ASSUME run.undisturbed, run.asListed, WellFormed(run.fixture)
          PROVE  FALSE
      <4>1. job.id \in DOMAIN options /\ options[job.id] = job.row
        BY <1>5, <2>3, <3>1, OptionThere DEF RunOK
      <4> QED
        BY <1>7, <4>1 DEF CatalogInv, CatalogTypeOK, OptionsOK
    <3>2. OthersAlone(w) /\ pending'[w] = Nothing
      BY <1>2, <2>1 DEF OthersAlone, Refuses, CatalogInv, CatalogTypeOK
    <3> QED
      BY <1>2, <1>4, <1>5, <2>1, <2>3, <3>1, <3>2, Refused
  <2> QED
    BY <1>3, <2>2, <2>3
<1> QED
  BY <1>6, <1>7

\* A writer that stops has no run any more.
LEMMA StopsOwes ==
  ASSUME CatalogInv, NEW w \in Writers, Stops(w)
  PROVE  StepOwes
<1>1. /\ UNCHANGED <<products, skus, options, images, files, seeded>>
      /\ DOMAIN pending' = Writers /\ DOMAIN runs' = Writers
      /\ pending'[w] = Nothing /\ runs'[w] = NoRun
      /\ \A v \in Writers \ {w} : pending'[v] = pending[v] /\ runs'[v] = runs[v]
  BY DEF Stops, CatalogInv, CatalogTypeOK
<1>2. tables' = tables /\ Grows
  BY <1>1 DEF tables, Grows
<1>3. /\ ProductsOK' /\ SkusOK' /\ OptionsOK' /\ ImagesOK' /\ ImagesExist'
      /\ files' \subseteq Files /\ seeded' \in BOOLEAN
  BY <1>1, <1>2, TablesKept, ImagesKept DEF CatalogInv, CatalogTypeOK, tables
<1>4. \A v \in Writers \ {w} : StandsBy(v)
  BY <1>1, <1>2 DEF StandsBy
<1>5. Pending(pending[w])' /\ Run(runs[w])'
  BY <1>1 DEF Pending, Run
<1>6. WriterInv(w)' /\ ~Quiet(w)'
  BY <1>1 DEF WriterInv, OwnJob, Quiet, NoRun, Nothing
<1> QED
  BY <1>1, <1>2, <1>3, <1>4, <1>5, <1>6 DEF StepOwes, WriterOK, QuietInv, KeepsFaith

-----------------------------------------------------------------------------
(* The theorems.                                                           *)

LEMMA InitCatalogInv ==
  ASSUME CatalogInit
  PROVE  CatalogInv
<1>1. /\ products = <<>> /\ skus = <<>> /\ options = <<>> /\ files = {} /\ seeded = FALSE
      /\ DOMAIN images = {} /\ DOMAIN pending = Writers /\ DOMAIN runs = Writers
      /\ \A w \in Writers : pending[w] = Nothing /\ runs[w] = NoRun
  BY DEF CatalogInit
<1>2. Table(<<>>) /\ DOMAIN <<>> = {}
  <2>1. <<>> \in Seq({}) /\ DOMAIN <<>> = {}
    OBVIOUS
  <2> QED
    BY <2>1, Tabled
<1>3. ProductsOK /\ SkusOK /\ OptionsOK /\ ImagesOK /\ ImagesExist
  BY <1>1, <1>2 DEF ProductsOK, SkusOK, OptionsOK, ImagesOK, ImagesExist
<1>4. \A w \in Writers : Pending(pending[w]) /\ Run(runs[w])
  BY <1>1 DEF Pending, Run
<1>5. \A w \in Writers : WriterInv(w) /\ QuietInv(w)
  <2>1. NoRun.stage = "none" /\ Nothing.table = "none"
    BY DEF NoRun, Nothing
  <2>2. \A w \in Writers : OwnJob(runs[w], pending[w]) /\ ~Quiet(w)
    BY <1>1 DEF OwnJob, Quiet
  <2> QED
    BY <1>1, <2>1, <2>2 DEF WriterInv, QuietInv
<1> QED
  BY <1>1, <1>3, <1>4, <1>5 DEF CatalogInv, CatalogTypeOK

LEMMA NextOwes ==
  ASSUME CatalogInv, CatalogNext
  PROVE  StepOwes
<1>1. CASE AdminStep
  BY <1>1, SavesProductOwes, SetsProductActiveOwes, SetsSkuActiveOwes, DeletesOptionOwes
     DEF AdminStep
<1>2. ASSUME NEW w \in Requests, RequestStep(w) PROVE StepOwes
  BY <1>2, AsksOwe, ImageStepsOwe DEF RequestStep
<1>3. ASSUME NEW w \in Commands, RunStep(w) PROVE StepOwes
  BY <1>3, BeginsRunOwes, FindsMasterOwes, WritesProductOwes, ReadsProductOwes,
     FindsSkuOwes, AllowsNextSkuOwes, AllowsNextOptionOwes, EndsRunOwes DEF RunStep
<1>4. ASSUME NEW w \in Writers, WritesSku(w) \/ WritesOption(w) \/ Stops(w) PROVE StepOwes
  BY <1>4, WritesSkuOwes, WritesOptionOwes, StopsOwes
<1>5. CASE Seeds
  BY <1>5, SeedsOwes
<1> QED
  BY <1>1, <1>2, <1>3, <1>4, <1>5 DEF CatalogNext

\* A step that changes nothing is nobody's.
LEMMA StutterOwes ==
  ASSUME CatalogInv, UNCHANGED catalogVars
  PROVE  StepOwes
<1>1. /\ UNCHANGED <<products, skus, options, images, files, seeded, pending, runs>>
      /\ UNCHANGED tables
  BY DEF catalogVars, tables
<1>2. ProductsOK' /\ SkusOK' /\ OptionsOK' /\ Grows
  BY <1>1, TablesKept DEF CatalogInv, Grows
<1>3. ImagesOK' /\ ImagesExist'
  BY <1>1, <1>2, ImagesKept
<1>4. \A w \in Writers : StandsBy(w)
  BY <1>1 DEF StandsBy
<1> QED
  BY <1>1, <1>2, <1>3, <1>4 DEF StepOwes, CatalogInv, CatalogTypeOK

LEMMA StepKeepsCatalogInv ==
  ASSUME CatalogInv, [CatalogNext]_catalogVars
  PROVE  CatalogInv' /\ \A w \in Writers : KeepsFaith(w)
<1>1. StepOwes
  BY NextOwes, StutterOwes
<1> QED
  BY <1>1, OwedIsEnough

\* The types and the images, and of every run in whose way nobody wrote: what
\* it has read is still so, what it has come past is there, and a run of a
\* file that was applied already has nothing to do.
THEOREM CatalogIsInvariant == CatalogSpec => []CatalogInv
<1>1. CatalogInit => CatalogInv
  BY InitCatalogInv
<1>2. CatalogInv /\ [CatalogNext]_catalogVars => CatalogInv'
  BY StepKeepsCatalogInv
<1> QED
  BY <1>1, <1>2, PTL DEF CatalogSpec

\* The columns keep their types, every SKU, option and image names a product
\* and SKUs that are there, and the UNIQUE indexes hold, whatever requests,
\* fixture commands and the server's start write in between one another.
THEOREM CatalogTypes == CatalogSpec => []CatalogTypeOK
<1>1. CatalogInv => CatalogTypeOK
  BY DEF CatalogInv
<1> QED
  BY <1>1, CatalogIsInvariant, PTL

\* Every image row names a file that is in MEDIA_DIR (images.go).
THEOREM ImagesAreThere == CatalogSpec => []ImagesExist
<1>1. CatalogInv => ImagesExist
  BY DEF CatalogInv
<1> QED
  BY <1>1, CatalogIsInvariant, PTL

\* ApplyProductFixture: a run that says "applied", and in whose way nobody
\* wrote, leaves the product, its SKUs and its options as a well-formed file
\* lists them, whatever the catalog was before.
THEOREM AppliedIsListed == CatalogSpec => []AppliedAsListed
<1>1. CatalogInv => AppliedAsListed
  BY DEF CatalogInv, QuietInv, Quiet, Progress, AppliedAsListed
<1> QED
  BY <1>1, CatalogIsInvariant, PTL

\* README.md:86: what a fixture does not list is left unchanged by its run.
THEOREM UnlistedStays == CatalogSpec => UnlistedUntouched
<1>1. CatalogInv /\ [CatalogNext]_catalogVars =>
        [\A w \in Writers : (Quiet(w) /\ Quiet(w)') => LeavesUnlisted(w)]_catalogVars
  BY StepKeepsCatalogInv DEF KeepsFaith
<1> QED
  BY <1>1, CatalogIsInvariant, PTL DEF CatalogSpec, UnlistedUntouched

\* docs/stripe-test.md:79: a run of a file that is applied already writes
\* nothing new and is not refused.
THEOREM FixturesAreIdempotent == CatalogSpec => Idempotent
<1>1. CatalogInv /\ [CatalogNext]_catalogVars =>
        [\A w \in Writers : (Quiet(w) /\ Quiet(w)') => RedoesNothing(w)]_catalogVars
  BY StepKeepsCatalogInv DEF KeepsFaith
<1> QED
  BY <1>1, CatalogIsInvariant, PTL DEF CatalogSpec, Idempotent

=============================================================================
