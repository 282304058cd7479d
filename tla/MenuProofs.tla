----------------------------- MODULE MenuProofs -----------------------------
(***************************************************************************)
(* Theorems about Menu: foreign keys, the bounds of modifier groups,       *)
(* photos, and what is sold.                                               *)
(***************************************************************************)
EXTENDS Menu, TLAPS

-----------------------------------------------------------------------------
(* Types and foreign keys *)

Types ==
  /\ categories \subseteq Categories
  /\ products \in [Products -> ProductRow \cup {None}]
  /\ variants \in [Variants -> VariantRow \cup {None}]
  /\ groups \in [Groups -> GroupRow \cup {None}]
  /\ options \in [Options -> OptionRow \cup {None}]
  /\ translations \subseteq Entities \X Languages
  /\ stored \subseteq Photos /\ urls \in [Photos -> Use]

(* Each row's parent exists; the categories are those of this restaurant.  *)
CategoryKey == \A p \in Products : products[p] # None => products[p].category \in Own \cup {None}
VariantKey == \A v \in Variants : variants[v] # None => products[variants[v].product] # None
GroupKey == \A g \in Groups : groups[g] # None => products[groups[g].product] # None
OptionKey == \A o \in Options : options[o] # None => groups[options[o].group] # None
TranslationKey == \A t \in translations : Exists(t[1])

(* What a request in progress carries is of the kind its operation needs.  *)
Sound(r) ==
  r.pc \in {"commit", "after"} =>
    \/ /\ r.pc = "commit"
       /\ r.op \in {"create_product"} \X Offered
       /\ r.op[2].category \notin Foreign
    \/ /\ r.op \in {"update_product"} \X Products \X ProductChange
       /\ r.op[3][1] = "category" => r.op[3][2] \notin Foreign
       /\ r.seen \in ProductRow
    \/ /\ r.op \in {"delete_product"} \X Products
       /\ r.seen \in ProductRow
    \/ /\ r.pc = "commit"
       /\ r.op \in {"delete_category"} \X Categories
       /\ r.seen \in [products : SUBSET Products]
    \/ /\ r.pc = "commit"
       /\ r.op \in {"update_modifier_group"} \X Groups \X GroupChange
       /\ r.seen \in GroupRow

RequestsSound == req \in [Requests -> RequestState] /\ \A q \in Requests : Sound(req[q])

TypeInv ==
  /\ Types /\ RequestsSound
  /\ CategoryKey /\ VariantKey /\ GroupKey /\ OptionKey /\ TranslationKey

LEMMA NullIsNoRow == None \notin ProductRow \cup VariantRow \cup GroupRow \cup OptionRow
BY ExistingAssumption

(* A row exists in its own table only. *)
LEMMA ExistsIn ==
  ASSUME Types
  PROVE  /\ \A p \in Products : Exists(p) <=> products[p] # None
         /\ \A g \in Groups : Exists(g) <=> groups[g] # None
BY MenuAssumption DEF Types, Exists

LEMMA TypeInvImplies == TypeInv => TypeOK
<1>1. SUFFICES ASSUME TypeInv PROVE TypeOK
  OBVIOUS
<1>2. /\ \A v \in Variants : variants[v] # None => variants[v].product \in Products
      /\ \A g \in Groups : groups[g] # None => groups[g].product \in Products
      /\ \A o \in Options : options[o] # None => options[o].group \in Groups
  BY <1>1 DEF TypeInv, Types, VariantRow, GroupRow, OptionRow
<1>3. /\ \A v \in Variants : variants[v] # None => Exists(variants[v].product)
      /\ \A g \in Groups : groups[g] # None => Exists(groups[g].product)
      /\ \A o \in Options : options[o] # None => Exists(options[o].group)
  BY <1>1, <1>2, ExistsIn DEF TypeInv, VariantKey, GroupKey, OptionKey
<1>4. /\ \A p \in Products : products[p] # None => products[p].category \in categories \cup {None}
      /\ \A t \in translations : Exists(t[1])
  BY <1>1 DEF TypeInv, CategoryKey, TranslationKey, Own
<1>5. QED
  BY <1>1, <1>3, <1>4 DEF TypeInv, Types, RequestsSound, TypeOK

LEMMA InitTypes == Init => TypeInv
<1>1. SUFFICES ASSUME Init PROVE TypeInv
  OBVIOUS
<1>2. Types
  BY <1>1, ExistingAssumption DEF Init, Types
<1>3. RequestsSound
  <2>1. \A q \in Requests : req[q] = [pc |-> "idle", op |-> None, seen |-> None]
    BY <1>1 DEF Init
  <2>2. req \in [Requests -> RequestState]
    BY <1>1 DEF Init, RequestState
  <2>3. QED
    BY <2>1, <2>2 DEF RequestsSound, Sound
<1>4. CategoryKey /\ VariantKey /\ GroupKey /\ OptionKey
  BY <1>1, ExistingAssumption DEF Init, CategoryKey, VariantKey, GroupKey, OptionKey, Own
<1>5. TranslationKey
  BY <1>1, ExistingAssumption DEF Init, TranslationKey, Exists
<1>6. QED
  BY <1>2, <1>3, <1>4, <1>5 DEF TypeInv

(* The turns of a request keep its requests sound. *)
LEMMA SoundSpend ==
  ASSUME RequestsSound, NEW q \in Requests, Spend(q)
  PROVE  RequestsSound'
<1>1. [pc |-> "done", op |-> None, seen |-> None] \in RequestState
  BY DEF RequestState
<1>2. Sound([pc |-> "done", op |-> None, seen |-> None])
  BY DEF Sound
<1>3. \A p \in Requests : req'[p] = IF p = q THEN [pc |-> "done", op |-> None, seen |-> None] ELSE req[p]
  BY DEF Spend, RequestsSound
<1>4. req' \in [Requests -> RequestState]
  BY <1>1 DEF Spend, RequestsSound
<1>5. \A p \in Requests : Sound(req'[p])
  BY <1>2, <1>3 DEF RequestsSound
<1>6. QED
  BY <1>4, <1>5 DEF RequestsSound, Sound

LEMMA SoundBegin ==
  ASSUME RequestsSound, NEW q \in Requests, NEW op \in Operation,
         NEW seen \in ProductRow \cup GroupRow \cup [products : SUBSET Products] \cup {None},
         Sound([pc |-> "commit", op |-> op, seen |-> seen]), Begin(q, op, seen)
  PROVE  RequestsSound'
<1>1. [pc |-> "commit", op |-> op, seen |-> seen] \in RequestState
  BY DEF RequestState
<1>2. \A p \in Requests : req'[p] = IF p = q THEN [pc |-> "commit", op |-> op, seen |-> seen] ELSE req[p]
  BY DEF Begin, RequestsSound
<1>3. req' \in [Requests -> RequestState]
  BY <1>1 DEF Begin, RequestsSound
<1>4. \A p \in Requests : Sound(req'[p])
  BY <1>2 DEF RequestsSound
<1>5. QED
  BY <1>3, <1>4 DEF RequestsSound, Sound

LEMMA SoundThen ==
  ASSUME RequestsSound, NEW q \in Requests, Then(q),
         \/ At(q, "commit", "update_product")
         \/ At(q, "commit", "delete_product")
  PROVE  RequestsSound'
<1>1. \A p \in Requests : req'[p] = IF p = q THEN [req[p] EXCEPT !.pc = "after"] ELSE req[p]
  BY DEF Then, RequestsSound
<1>2. /\ req[q] = [pc |-> req[q].pc, op |-> req[q].op, seen |-> req[q].seen]
      /\ req[q] \in RequestState /\ Sound(req[q])
  BY DEF RequestsSound, RequestState
<1>3. req'[q] = [pc |-> "after", op |-> req[q].op, seen |-> req[q].seen]
  BY <1>1, <1>2
<1>4. req'[q] \in RequestState
  BY <1>2, <1>3 DEF RequestState
<1>5. Sound(req'[q])
  BY <1>2, <1>3 DEF Sound, At
<1>6. req' \in [Requests -> RequestState]
  BY <1>1, <1>4 DEF Then, RequestsSound
<1>7. \A p \in Requests : Sound(req'[p])
  BY <1>1, <1>5 DEF RequestsSound
<1>8. QED
  BY <1>6, <1>7 DEF RequestsSound, Sound

(* What a request in progress works on. *)
LEMMA Arguments ==
  ASSUME RequestsSound, NEW q \in Requests
  PROVE  /\ At(q, "commit", "create_product") =>
              req[q].op[2] \in Offered /\ req[q].op[2].category \notin Foreign
         /\ \A pc \in {"commit", "after"} : At(q, pc, "update_product") =>
              /\ req[q].op[2] \in Products /\ req[q].op[3] \in ProductChange
              /\ req[q].op[3][1] = "category" => req[q].op[3][2] \notin Foreign
              /\ req[q].seen \in ProductRow
         /\ \A pc \in {"commit", "after"} : At(q, pc, "delete_product") =>
              req[q].op[2] \in Products /\ req[q].seen \in ProductRow
         /\ At(q, "commit", "delete_category") =>
              req[q].op[2] \in Categories /\ req[q].seen.products \subseteq Products
         /\ At(q, "commit", "update_modifier_group") =>
              /\ req[q].op[2] \in Groups /\ req[q].op[3] \in GroupChange
              /\ req[q].seen \in GroupRow
<1>1. Sound(req[q])
  BY DEF RequestsSound
<1>2. QED
  BY <1>1 DEF Sound, At

LEMMA SoundNext ==
  ASSUME TypeInv, NEW q \in Requests, MenuBegin(q) \/ MenuStep(q)
  PROVE  RequestsSound'
<1>1. RequestsSound /\ Types
  BY DEF TypeInv
<1>2. CASE Spend(q)
  BY <1>1, <1>2, SoundSpend
<1>3. CASE Then(q) /\ (At(q, "commit", "update_product") \/ At(q, "commit", "delete_product"))
  BY <1>1, <1>3, SoundThen
<1>4. CASE \E k \in Categories : delete_category(q, k)
  <2>1. PICK k \in Categories : delete_category(q, k)
    BY <1>4
  <2>2. <<"delete_category", k>> \in Operation
    BY DEF Operation
  <2>3. [products |-> ProductsOf(k)] \in [products : SUBSET Products]
    BY DEF ProductsOf
  <2>4. PICK seen \in [products : SUBSET Products] : seen = [products |-> ProductsOf(k)]
    BY <2>3
  <2>5. Sound([pc |-> "commit", op |-> <<"delete_category", k>>, seen |-> seen])
    BY DEF Sound
  <2>6. Begin(q, <<"delete_category", k>>, seen)
    BY <2>1, <2>4 DEF delete_category
  <2>7. QED
    BY <1>1, <2>2, <2>5, <2>6, SoundBegin
<1>5. CASE \E row \in Offered : create_product(q, row)
  <2>1. PICK row \in Offered : create_product(q, row)
    BY <1>5
  <2>2. <<"create_product", row>> \in Operation
    BY DEF Operation
  <2>3. row.category \notin Foreign
    BY <2>1 DEF create_product, Own
  <2>4. Sound([pc |-> "commit", op |-> <<"create_product", row>>, seen |-> None])
    BY <2>3 DEF Sound
  <2>5. Begin(q, <<"create_product", row>>, None)
    BY <2>1 DEF create_product
  <2>6. QED
    BY <1>1, <2>2, <2>4, <2>5, SoundBegin
<1>6. CASE \E p \in Products, change \in ProductChange : update_product(q, p, change)
  <2>1. PICK p \in Products, change \in ProductChange : update_product(q, p, change)
    BY <1>6
  <2>2. <<"update_product", p, change>> \in Operation
    BY DEF Operation
  <2>3. PICK seen \in ProductRow : seen = products[p]
    BY <1>1, <2>1 DEF Types, update_product
  <2>4. change[1] = "category" => change[2] \notin Foreign
    BY <2>1 DEF update_product, Own
  <2>5. Sound([pc |-> "commit", op |-> <<"update_product", p, change>>, seen |-> seen])
    BY <2>4 DEF Sound
  <2>6. Begin(q, <<"update_product", p, change>>, seen)
    BY <2>1, <2>3 DEF update_product
  <2>7. QED
    BY <1>1, <2>2, <2>5, <2>6, SoundBegin
<1>7. CASE \E p \in Products : delete_product(q, p)
  <2>1. PICK p \in Products : delete_product(q, p)
    BY <1>7
  <2>2. <<"delete_product", p>> \in Operation
    BY DEF Operation
  <2>3. PICK seen \in ProductRow : seen = products[p]
    BY <1>1, <2>1 DEF Types, delete_product
  <2>4. Sound([pc |-> "commit", op |-> <<"delete_product", p>>, seen |-> seen])
    BY DEF Sound
  <2>5. Begin(q, <<"delete_product", p>>, seen)
    BY <2>1, <2>3 DEF delete_product
  <2>6. QED
    BY <1>1, <2>2, <2>4, <2>5, SoundBegin
<1>8. CASE \E g \in Groups, change \in GroupChange : update_modifier_group(q, g, change)
  <2>1. PICK g \in Groups, change \in GroupChange : update_modifier_group(q, g, change)
    BY <1>8
  <2>2. <<"update_modifier_group", g, change>> \in Operation
    BY DEF Operation
  <2>3. PICK seen \in GroupRow : seen = groups[g]
    BY <1>1, <2>1 DEF Types, update_modifier_group
  <2>4. Sound([pc |-> "commit", op |-> <<"update_modifier_group", g, change>>, seen |-> seen])
    BY DEF Sound
  <2>5. Begin(q, <<"update_modifier_group", g, change>>, seen)
    BY <2>1, <2>3 DEF update_modifier_group
  <2>6. QED
    BY <1>1, <2>2, <2>4, <2>5, SoundBegin
<1>9. QED
  BY <1>2, <1>3, <1>4, <1>5, <1>6, <1>7, <1>8
  DEF MenuBegin, MenuStep, upload_photo, create_category, delete_variant, update_variant,
      create_variant, delete_modifier_group, create_modifier_group, delete_modifier_option,
      update_modifier_option, create_modifier_option, _upsert_translation,
      delete_category_commit, create_product_commit, update_product_commit, update_product_after,
      delete_product_commit, delete_product_after, update_modifier_group_commit

(* A PATCH leaves a row of the table, with the old or the new value.       *)
LEMMA ChangedProduct ==
  ASSUME NEW row \in ProductRow, NEW read \in ProductRow, NEW change \in ProductChange
  PROVE  /\ Changed(row, read, change) \in ProductRow
         /\ \/ Changed(row, read, change).category = row.category
            \/ change[1] = "category" /\ Changed(row, read, change).category = change[2]
         /\ Changed(row, read, change).photo =
              IF change[1] = "photo" /\ read.photo # change[2] THEN change[2] ELSE row.photo
<1>1. CASE change[1] = "photo"
  <2>1. change[2] \in Photos
    BY <1>1 DEF ProductChange
  <2>2. QED
    BY <1>1, <2>1 DEF Changed, ProductRow
<1>2. CASE change[1] = "category"
  <2>1. change[2] \in Categories
    BY <1>2 DEF ProductChange
  <2>2. QED
    BY <1>2, <2>1 DEF Changed, ProductRow
<1>3. CASE change[1] \in {"from", "until"}
  <2>1. change[2] \in Clock \cup {None}
    BY <1>3, MenuAssumption DEF ProductChange
  <2>2. QED
    BY <1>3, <2>1 DEF Changed, ProductRow
<1>4. CASE change[1] = "available"
  <2>1. change[2] \in BOOLEAN
    BY <1>4 DEF ProductChange
  <2>2. QED
    BY <1>4, <2>1 DEF Changed, ProductRow
<1>5. CASE change[1] = "priced"
  <2>1. change[2] \in BOOLEAN
    BY <1>5 DEF ProductChange
  <2>2. QED
    BY <1>5, <2>1 DEF Changed, ProductRow
<1>6. QED
  BY <1>1, <1>2, <1>3, <1>4, <1>5 DEF ProductChange

LEMMA ChangedGroup ==
  ASSUME NEW row \in GroupRow, NEW read \in GroupRow, NEW change \in GroupChange
  PROVE  /\ Changed(row, read, change) \in GroupRow
         /\ Changed(row, read, change).product = row.product
<1>1. CASE change[1] = "min"
  <2>1. change[2] \in Selections
    BY <1>1 DEF GroupChange
  <2>2. QED
    BY <1>1, <2>1 DEF Changed, GroupRow
<1>2. CASE change[1] = "max"
  <2>1. change[2] \in Selections \ {0}
    BY <1>2 DEF GroupChange
  <2>2. QED
    BY <1>2, <2>1 DEF Changed, GroupRow
<1>3. CASE change[1] = "active"
  <2>1. change[2] \in BOOLEAN
    BY <1>3 DEF GroupChange
  <2>2. QED
    BY <1>3, <2>1 DEF Changed, GroupRow
<1>4. QED
  BY <1>1, <1>2, <1>3 DEF GroupChange

LEMMA RowsWithout ==
  ASSUME Types, NEW gone
  PROVE  /\ Without(products, gone) \in [Products -> ProductRow \cup {None}]
         /\ Without(variants, gone) \in [Variants -> VariantRow \cup {None}]
         /\ Without(groups, gone) \in [Groups -> GroupRow \cup {None}]
         /\ Without(options, gone) \in [Options -> OptionRow \cup {None}]
         /\ \A o \in Products : Without(products, gone)[o] = IF o \in gone THEN None ELSE products[o]
         /\ \A v \in Variants : Without(variants, gone)[v] = IF v \in gone THEN None ELSE variants[v]
         /\ \A g \in Groups : Without(groups, gone)[g] = IF g \in gone THEN None ELSE groups[g]
         /\ \A o \in Options : Without(options, gone)[o] = IF o \in gone THEN None ELSE options[o]
<1>1. /\ Without(products, gone) \in [Products -> ProductRow \cup {None}]
      /\ \A o \in Products : Without(products, gone)[o] = IF o \in gone THEN None ELSE products[o]
  BY DEF Without, Types
<1>2. /\ Without(variants, gone) \in [Variants -> VariantRow \cup {None}]
      /\ \A v \in Variants : Without(variants, gone)[v] = IF v \in gone THEN None ELSE variants[v]
  BY DEF Without, Types
<1>3. /\ Without(groups, gone) \in [Groups -> GroupRow \cup {None}]
      /\ \A g \in Groups : Without(groups, gone)[g] = IF g \in gone THEN None ELSE groups[g]
  BY DEF Without, Types
<1>4. /\ Without(options, gone) \in [Options -> OptionRow \cup {None}]
      /\ \A o \in Options : Without(options, gone)[o] = IF o \in gone THEN None ELSE options[o]
  BY DEF Without, Types
<1>5. QED
  BY <1>1, <1>2, <1>3, <1>4

(* A step that touches no row keeps the tree. *)
LEMMA TreeStays ==
  ASSUME TypeInv, UNCHANGED treeVars, stored' \subseteq Photos, urls' \in [Photos -> Use]
  PROVE  Types' /\ CategoryKey' /\ VariantKey' /\ GroupKey' /\ OptionKey' /\ TranslationKey'
<1>1. UNCHANGED <<categories, products, variants, groups, options, translations>>
  BY DEF treeVars
<1>2. Types'
  BY <1>1 DEF TypeInv, Types
<1>3. CategoryKey' /\ VariantKey' /\ GroupKey' /\ OptionKey'
  BY <1>1 DEF TypeInv, CategoryKey, VariantKey, GroupKey, OptionKey, Own
<1>4. TranslationKey'
  BY <1>1 DEF TypeInv, TranslationKey, Exists
<1>5. QED
  BY <1>2, <1>3, <1>4

LEMMA GivenIs ==
  ASSUME Types, NEW p \in Products, NEW url \in Photos \cup {None}
  PROVE  Given(p, url) \in [Photos -> Use]
BY DEF Types, Given, Use

(* Categories and products. *)
LEMMA TreeCategories ==
  ASSUME TypeInv, NEW q \in Requests,
         \/ \E k \in Categories : create_category(q, k)
         \/ delete_category_commit(q)
  PROVE  Types' /\ CategoryKey' /\ VariantKey' /\ GroupKey' /\ OptionKey' /\ TranslationKey'
<1> USE DEF photoVars
<1>1. /\ Types /\ RequestsSound
      /\ CategoryKey /\ VariantKey /\ GroupKey /\ OptionKey /\ TranslationKey
  BY DEF TypeInv
<1>2. ASSUME NEW k \in Categories, create_category(q, k)
      PROVE  Types' /\ CategoryKey' /\ VariantKey' /\ GroupKey' /\ OptionKey' /\ TranslationKey'
  <2>1. /\ categories' = categories \cup {k} /\ k \notin Foreign
        /\ UNCHANGED <<products, variants, groups, options, translations, stored, urls>>
    BY <1>2 DEF create_category
  <2>2. Types'
    BY <1>1, <2>1 DEF Types
  <2>3. CategoryKey' /\ VariantKey' /\ GroupKey' /\ OptionKey'
    BY <1>1, <2>1 DEF CategoryKey, VariantKey, GroupKey, OptionKey, Own
  <2>4. TranslationKey'
    BY <1>1, <2>1 DEF TranslationKey, Exists
  <2>5. QED
    BY <2>2, <2>3, <2>4
<1>3. ASSUME delete_category_commit(q), UNCHANGED <<categories, products, translations>>
      PROVE  Types' /\ CategoryKey' /\ VariantKey' /\ GroupKey' /\ OptionKey' /\ TranslationKey'
  <2>1. UNCHANGED treeVars /\ UNCHANGED <<stored, urls>>
    BY <1>3 DEF delete_category_commit, treeVars
  <2>2. QED
    BY <1>1, <2>1, TreeStays DEF Types
<1>4. ASSUME delete_category_commit(q), ~UNCHANGED <<categories, products, translations>>
      PROVE  Types' /\ CategoryKey' /\ VariantKey' /\ GroupKey' /\ OptionKey' /\ TranslationKey'
  <2>1. PICK k, found : k = req[q].op[2] /\ found = req[q].seen.products
    OBVIOUS
  <2>2. k \in Categories
    BY <1>1, <1>4, <2>1, Arguments DEF delete_category_commit
  <2>3. /\ categories' = categories \ {k}
        /\ products' = [p \in Products |->
             IF products[p] # None /\ p \in found \cup ProductsOf(k)
               THEN [products[p] EXCEPT !.category = None] ELSE products[p]]
        /\ translations' = {t \in translations : t[1] # k}
        /\ UNCHANGED <<variants, groups, options, stored, urls>>
    BY <1>4, <2>1 DEF delete_category_commit
  <2>4. ASSUME NEW p \in Products, products[p] # None
        PROVE  /\ products'[p] \in ProductRow
               /\ \/ products'[p].category = None
                  \/ products'[p] = products[p] /\ products[p].category # k
    <3>1. products[p] \in ProductRow
      BY <1>1, <2>4 DEF Types
    <3>2. CASE p \in found \cup ProductsOf(k)
      <4>1. products'[p] = [products[p] EXCEPT !.category = None]
        BY <2>3, <2>4, <3>2
      <4>2. QED
        BY <3>1, <4>1 DEF ProductRow
    <3>3. CASE p \notin found \cup ProductsOf(k)
      <4>1. products'[p] = products[p] /\ products[p].category # k
        BY <2>3, <2>4, <3>3 DEF ProductsOf
      <4>2. QED
        BY <3>1, <4>1
    <3>4. QED
      BY <3>2, <3>3
  <2>5. \A p \in Products : products[p] = None => products'[p] = None
    BY <2>3
  <2>6. Types'
    <3>1. products' \in [Products -> ProductRow \cup {None}]
      BY <2>3, <2>4, <2>5
    <3>2. QED
      BY <1>1, <2>3, <3>1 DEF Types
  <2>7. CategoryKey'
    <3>1. SUFFICES ASSUME NEW p \in Products, products'[p] # None
                   PROVE  products'[p].category \in (categories' \ Foreign) \cup {None}
      BY DEF CategoryKey, Own
    <3>2. products[p] # None
      BY <2>5, <3>1
    <3>3. products[p].category \in (categories \ Foreign) \cup {None}
      BY <1>1, <3>2 DEF CategoryKey, Own
    <3>4. CASE products'[p].category = None
      BY <3>4
    <3>5. CASE products'[p] = products[p] /\ products[p].category # k
      <4>1. products'[p].category = products[p].category
        BY <3>5
      <4>2. QED
        BY <2>3, <3>3, <3>5, <4>1
    <3>6. QED
      BY <2>4, <3>2, <3>4, <3>5
  <2>8. \A p \in Products : products[p] # None => products'[p] # None
    BY <2>4, NullIsNoRow
  <2>9. VariantKey' /\ GroupKey' /\ OptionKey'
    BY <1>1, <2>3, <2>8 DEF VariantKey, GroupKey, OptionKey, Types, VariantRow, GroupRow
  <2>10. TranslationKey'
    BY <1>1, <2>3, <2>8 DEF TranslationKey, Exists
  <2>11. QED
    BY <2>6, <2>7, <2>9, <2>10
<1>5. QED
  BY <1>2, <1>3, <1>4

(* A product that is written keeps its variants and groups.                *)
LEMMA ProductWritten ==
  ASSUME TypeInv, NEW p \in Products, NEW row \in ProductRow, row.category \in Own \cup {None},
         products' = [products EXCEPT ![p] = row], urls' \in [Photos -> Use],
         UNCHANGED <<categories, variants, groups, options, translations, stored>>
  PROVE  Types' /\ CategoryKey' /\ VariantKey' /\ GroupKey' /\ OptionKey' /\ TranslationKey'
<1>1. /\ Types
      /\ CategoryKey /\ VariantKey /\ GroupKey /\ OptionKey /\ TranslationKey
  BY DEF TypeInv
<1>2. Types'
  BY <1>1 DEF Types
<1>3. \A o \in Products : products'[o] = IF o = p THEN row ELSE products[o]
  BY <1>1 DEF Types
<1>4. \A o \in Products : products[o] # None => products'[o] # None
  BY <1>3, NullIsNoRow
<1>5. CategoryKey'
  BY <1>1, <1>3 DEF CategoryKey, Own
<1>6. VariantKey' /\ GroupKey' /\ OptionKey'
  BY <1>1, <1>4 DEF VariantKey, GroupKey, OptionKey, Types, VariantRow, GroupRow
<1>7. TranslationKey'
  BY <1>1, <1>4 DEF TranslationKey, Exists
<1>8. QED
  BY <1>2, <1>5, <1>6, <1>7

LEMMA TreeProducts ==
  ASSUME TypeInv, NEW q \in Requests,
         create_product_commit(q) \/ update_product_commit(q) \/ delete_product_commit(q)
  PROVE  Types' /\ CategoryKey' /\ VariantKey' /\ GroupKey' /\ OptionKey' /\ TranslationKey'
<1> DEFINE Kept == Types' /\ CategoryKey' /\ VariantKey' /\ GroupKey' /\ OptionKey' /\ TranslationKey'
<1>1. /\ Types /\ RequestsSound
      /\ CategoryKey /\ VariantKey /\ GroupKey /\ OptionKey /\ TranslationKey
  BY DEF TypeInv
<1>2. ASSUME create_product_commit(q) PROVE Kept
  <2>1. PICK row \in Offered : row = req[q].op[2] /\ row.category \notin Foreign
    BY <1>1, <1>2, Arguments DEF create_product_commit
  <2>2. row \in ProductRow
    BY ExistingAssumption
  <2>3. CASE row.category \in categories
    <3>1. PICK p \in Products : /\ products' = [products EXCEPT ![p] = row]
                                /\ urls' = Given(p, row.photo)
      BY <1>2, <2>1, <2>3 DEF create_product_commit
    <3>2. urls' \in [Photos -> Use]
      BY <1>1, <2>2, <3>1, GivenIs DEF ProductRow
    <3>3. row.category \in Own \cup {None}
      BY <2>1, <2>3 DEF Own
    <3>4. UNCHANGED <<categories, variants, groups, options, translations, stored>>
      BY <1>2 DEF create_product_commit
    <3>5. QED
      BY <2>2, <3>1, <3>2, <3>3, <3>4, ProductWritten
  <2>4. CASE row.category \notin categories
    <3>1. UNCHANGED treeVars /\ UNCHANGED <<stored, urls>>
      BY <1>2, <2>1, <2>4 DEF create_product_commit, treeVars
    <3>2. QED
      BY <1>1, <3>1, TreeStays DEF Types
  <2>5. QED
    BY <2>3, <2>4
<1>3. ASSUME update_product_commit(q) PROVE Kept
  <2>1. PICK p \in Products, change \in ProductChange, read \in ProductRow :
          /\ p = req[q].op[2] /\ change = req[q].op[3] /\ read = req[q].seen
          /\ change[1] = "category" => change[2] \notin Foreign
    BY <1>1, <1>3, Arguments DEF update_product_commit
  <2>2. CASE products[p] # None /\ ~(change[1] = "category" /\ change[2] \notin categories)
    <3>1. PICK row : row = Changed(products[p], read, change)
      OBVIOUS
    <3>2. products[p] \in ProductRow
      BY <1>1, <2>2 DEF Types
    <3>3. /\ row \in ProductRow
          /\ \/ row.category = products[p].category
             \/ change[1] = "category" /\ row.category = change[2]
      BY <3>1, <3>2, ChangedProduct
    <3>4. products[p].category \in Own \cup {None}
      BY <1>1, <2>2 DEF CategoryKey
    <3>5. row.category \in Own \cup {None}
      BY <2>1, <2>2, <3>3, <3>4 DEF Own
    <3>6. products' = [products EXCEPT ![p] = row]
      <4>1. products' = [products EXCEPT ![p] = Changed(@, read, change)]
        BY <1>3, <2>1, <2>2 DEF update_product_commit, Changed
      <4>2. QED
        BY <3>1, <4>1
    <3>7. UNCHANGED <<categories, variants, groups, options, translations, stored>>
      BY <1>3 DEF update_product_commit
    <3>8. urls' \in [Photos -> Use]
      <4>1. \/ urls' = urls
            \/ change[1] = "photo" /\ urls' = Given(p, change[2])
        BY <1>3, <2>1, <2>2 DEF update_product_commit
      <4>2. change[1] = "photo" => change[2] \in Photos
        BY DEF ProductChange
      <4>3. CASE urls' = urls
        BY <1>1, <4>3 DEF Types
      <4>4. CASE change[1] = "photo" /\ urls' = Given(p, change[2])
        <5>1. Given(p, change[2]) \in [Photos -> Use]
          BY <1>1, <4>2, <4>4, GivenIs
        <5>2. QED
          BY <4>4, <5>1
      <4>5. QED
        BY <4>1, <4>3, <4>4
    <3>9. QED
      BY <3>3, <3>5, <3>6, <3>7, <3>8, ProductWritten
  <2>3. CASE products[p] = None \/ (change[1] = "category" /\ change[2] \notin categories)
    <3>1. UNCHANGED treeVars /\ UNCHANGED <<stored, urls>>
      BY <1>3, <2>1, <2>3 DEF update_product_commit, treeVars
    <3>2. QED
      BY <1>1, <3>1, TreeStays DEF Types
  <2>4. QED
    BY <2>2, <2>3
<1>4. ASSUME delete_product_commit(q) PROVE Kept
  <2>1. PICK p \in Products : p = req[q].op[2]
    BY <1>1, <1>4, Arguments DEF delete_product_commit
  <2>2. PICK gone : gone = Tree(p)
    OBVIOUS
  <2>3. /\ products' = Without(products, gone) /\ variants' = Without(variants, gone)
        /\ groups' = Without(groups, gone) /\ options' = Without(options, gone)
        /\ translations' = {t \in translations : t[1] \notin gone}
        /\ UNCHANGED <<categories, stored, urls>>
    BY <1>4, <2>1, <2>2 DEF delete_product_commit, photoVars
  <2>4. /\ products' \in [Products -> ProductRow \cup {None}]
        /\ variants' \in [Variants -> VariantRow \cup {None}]
        /\ groups' \in [Groups -> GroupRow \cup {None}]
        /\ options' \in [Options -> OptionRow \cup {None}]
    BY <1>1, <2>3, RowsWithout
  <2>5. /\ \A o \in Products : products'[o] = IF o \in gone THEN None ELSE products[o]
        /\ \A v \in Variants : variants'[v] = IF v \in gone THEN None ELSE variants[v]
        /\ \A g \in Groups : groups'[g] = IF g \in gone THEN None ELSE groups[g]
        /\ \A o \in Options : options'[o] = IF o \in gone THEN None ELSE options[o]
    BY <1>1, <2>3, RowsWithout
  <2>6. /\ \A o \in Products : o \in gone <=> o = p
        /\ \A v \in Variants : v \in gone <=> v \in VariantsOf(p)
        /\ \A g \in Groups : g \in gone <=> g \in GroupsOf(p)
        /\ \A o \in Options : o \in gone <=> \E g \in GroupsOf(p) : o \in OptionsOf(g)
    <3>1. /\ VariantsOf(p) \subseteq Variants /\ GroupsOf(p) \subseteq Groups
          /\ \A g \in Groups : OptionsOf(g) \subseteq Options
      BY DEF VariantsOf, GroupsOf, OptionsOf
    <3>2. \A e : e \in gone <=> \/ e = p \/ e \in VariantsOf(p) \/ e \in GroupsOf(p)
                              \/ \E g \in GroupsOf(p) : e \in OptionsOf(g)
      BY <2>2 DEF Tree
    <3>3. QED
      BY <3>1, <3>2, MenuAssumption
  <2>7. Types'
    BY <1>1, <2>3, <2>4 DEF Types
  <2>8. CategoryKey'
    BY <1>1, <2>3, <2>5 DEF CategoryKey, Own
  <2>9. VariantKey' /\ GroupKey'
    BY <1>1, <2>5, <2>6 DEF VariantKey, GroupKey, VariantsOf, GroupsOf, Types, VariantRow, GroupRow
  <2>10. OptionKey'
    BY <1>1, <2>5, <2>6 DEF OptionKey, OptionsOf, Types, OptionRow
  <2>11. TranslationKey'
    <3>1. SUFFICES ASSUME NEW t \in translations, t[1] \notin gone PROVE Exists(t[1])'
      BY <2>3 DEF TranslationKey
    <3>2. Exists(t[1])
      BY <1>1 DEF TranslationKey
    <3>3. QED
      BY <2>3, <2>5, <3>1, <3>2 DEF Exists
  <2>12. QED
    BY <2>7, <2>8, <2>9, <2>10, <2>11
<1>5. QED
  BY <1>2, <1>3, <1>4

(* Variants. *)
LEMMA TreeVariants ==
  ASSUME TypeInv, NEW q \in Requests, NEW v \in Variants,
         \/ \E p \in Products, active, available \in BOOLEAN : create_variant(q, v, p, active, available)
         \/ \E change \in Availability : update_variant(q, v, change)
         \/ delete_variant(q, v)
  PROVE  Types' /\ CategoryKey' /\ VariantKey' /\ GroupKey' /\ OptionKey' /\ TranslationKey'
<1>1. /\ Types
      /\ CategoryKey /\ VariantKey /\ GroupKey /\ OptionKey /\ TranslationKey
  BY DEF TypeInv
<1>2. UNCHANGED <<categories, products, groups, options, stored, urls>>
  BY DEF create_variant, update_variant, delete_variant, photoVars
<1>3. CASE /\ \E row \in VariantRow : /\ products[row.product] # None
                                      /\ variants' = [variants EXCEPT ![v] = row]
           /\ UNCHANGED translations
  <2>1. PICK row \in VariantRow : /\ products[row.product] # None
                                  /\ variants' = [variants EXCEPT ![v] = row]
    BY <1>3
  <2>2. \A w \in Variants : variants'[w] = IF w = v THEN row ELSE variants[w]
    BY <1>1, <2>1 DEF Types
  <2>3. Types'
    BY <1>1, <1>2, <1>3, <2>1 DEF Types
  <2>4. CategoryKey' /\ GroupKey' /\ OptionKey'
    BY <1>1, <1>2 DEF CategoryKey, GroupKey, OptionKey, Own
  <2>5. VariantKey'
    BY <1>1, <1>2, <2>1, <2>2 DEF VariantKey
  <2>6. TranslationKey'
    BY <1>1, <1>2, <1>3, <2>2, NullIsNoRow DEF TranslationKey, Exists
  <2>7. QED
    BY <2>3, <2>4, <2>5, <2>6
<1>4. CASE delete_variant(q, v)
  <2>1. variants' = Without(variants, {v}) /\ translations' = {t \in translations : t[1] # v}
    BY <1>4 DEF delete_variant
  <2>2. /\ variants' \in [Variants -> VariantRow \cup {None}]
        /\ \A w \in Variants : variants'[w] = IF w \in {v} THEN None ELSE variants[w]
    BY <1>1, <2>1, RowsWithout
  <2>3. Types'
    BY <1>1, <1>2, <2>1, <2>2 DEF Types
  <2>4. CategoryKey' /\ GroupKey' /\ OptionKey' /\ VariantKey'
    BY <1>1, <1>2, <2>2 DEF CategoryKey, GroupKey, OptionKey, VariantKey, Own
  <2>5. TranslationKey'
    BY <1>1, <1>2, <2>1, <2>2 DEF TranslationKey, Exists
  <2>6. QED
    BY <2>3, <2>4, <2>5
<1>5. CASE \E p \in Products, active, available \in BOOLEAN : create_variant(q, v, p, active, available)
  <2>1. PICK p \in Products, active \in BOOLEAN, available \in BOOLEAN :
          create_variant(q, v, p, active, available)
    BY <1>5
  <2>2. [product |-> p, active |-> active, available |-> available] \in VariantRow
    BY DEF VariantRow
  <2>3. QED
    BY <1>3, <2>1, <2>2 DEF create_variant
<1>6. CASE \E change \in Availability : update_variant(q, v, change)
  <2>1. PICK change \in Availability : update_variant(q, v, change)
    BY <1>6
  <2>2. PICK row : row = [variants[v] EXCEPT ![change[1]] = change[2]]
    OBVIOUS
  <2>3. variants[v] \in VariantRow
    BY <1>1, <2>1 DEF update_variant, Types
  <2>4. row \in VariantRow /\ row.product = variants[v].product
    <3>1. CASE change[1] = "active"
      BY <2>2, <2>3, <3>1 DEF VariantRow, Availability
    <3>2. CASE change[1] = "available"
      BY <2>2, <2>3, <3>2 DEF VariantRow, Availability
    <3>3. QED
      BY <3>1, <3>2 DEF Availability
  <2>5. variants' = [variants EXCEPT ![v] = row] /\ UNCHANGED translations
    BY <2>1, <2>2 DEF update_variant
  <2>6. products[row.product] # None
    BY <1>1, <2>1, <2>4 DEF VariantKey, update_variant
  <2>7. QED
    BY <1>3, <2>4, <2>5, <2>6
<1>7. QED
  BY <1>4, <1>5, <1>6

(* Modifier groups. *)
LEMMA TreeGroups ==
  ASSUME TypeInv, NEW q \in Requests,
         \/ \E g \in Groups, row \in GroupRow : create_modifier_group(q, g, row)
         \/ update_modifier_group_commit(q)
         \/ \E g \in Groups : delete_modifier_group(q, g)
  PROVE  Types' /\ CategoryKey' /\ VariantKey' /\ GroupKey' /\ OptionKey' /\ TranslationKey'
<1>1. /\ Types /\ RequestsSound
      /\ CategoryKey /\ VariantKey /\ GroupKey /\ OptionKey /\ TranslationKey
  BY DEF TypeInv
<1>2. UNCHANGED <<categories, products, variants, stored, urls>>
  BY DEF create_modifier_group, update_modifier_group_commit, delete_modifier_group, photoVars
<1>3. ASSUME NEW g \in Groups, NEW row \in GroupRow, products[row.product] # None,
             groups' = [groups EXCEPT ![g] = row], UNCHANGED <<options, translations>>
      PROVE  Types' /\ CategoryKey' /\ VariantKey' /\ GroupKey' /\ OptionKey' /\ TranslationKey'
  <2>1. \A h \in Groups : groups'[h] = IF h = g THEN row ELSE groups[h]
    BY <1>1, <1>3 DEF Types
  <2>2. Types'
    BY <1>1, <1>2, <1>3 DEF Types
  <2>3. CategoryKey' /\ VariantKey'
    BY <1>1, <1>2 DEF CategoryKey, VariantKey, Own
  <2>4. GroupKey'
    BY <1>1, <1>2, <1>3, <2>1 DEF GroupKey
  <2>5. OptionKey'
    BY <1>1, <1>3, <2>1, NullIsNoRow DEF OptionKey, Types, OptionRow
  <2>6. TranslationKey'
    BY <1>1, <1>2, <1>3, <2>1, NullIsNoRow DEF TranslationKey, Exists
  <2>7. QED
    BY <2>2, <2>3, <2>4, <2>5, <2>6
<1>4. CASE \E g \in Groups, row \in GroupRow : create_modifier_group(q, g, row)
  BY <1>3, <1>4 DEF create_modifier_group
<1>5. CASE update_modifier_group_commit(q)
  <2>1. PICK g \in Groups, change \in GroupChange, read \in GroupRow :
          g = req[q].op[2] /\ change = req[q].op[3] /\ read = req[q].seen
    BY <1>1, <1>5, Arguments DEF update_modifier_group_commit
  <2>2. PICK row : row = Changed(groups[g], read, change)
    OBVIOUS
  <2>3. /\ groups' = [groups EXCEPT ![g] = IF groups[g] # None /\ (groups[g] # None => max_gte_min(row))
                                             THEN row ELSE groups[g]]
        /\ UNCHANGED <<options, translations>>
    BY <1>5, <2>1, <2>2 DEF update_modifier_group_commit, Changed
  <2>4. CASE groups[g] # None /\ max_gte_min(row)
    <3>1. groups[g] \in GroupRow
      BY <1>1, <2>4 DEF Types
    <3>2. row \in GroupRow /\ row.product = groups[g].product
      BY <2>2, <3>1, ChangedGroup
    <3>3. products[row.product] # None
      BY <1>1, <2>4, <3>2 DEF GroupKey
    <3>4. groups' = [groups EXCEPT ![g] = row]
      BY <2>3, <2>4
    <3>5. QED
      BY <1>3, <2>3, <3>2, <3>3, <3>4
  <2>5. CASE ~(groups[g] # None /\ max_gte_min(row))
    <3>1. groups' = groups
      BY <1>1, <2>3, <2>5 DEF Types
    <3>2. UNCHANGED treeVars
      BY <1>2, <2>3, <3>1 DEF treeVars
    <3>3. QED
      BY <1>1, <1>2, <3>2, TreeStays DEF Types
  <2>6. QED
    BY <2>4, <2>5
<1>6. CASE \E g \in Groups : delete_modifier_group(q, g)
  <2>1. PICK g \in Groups : delete_modifier_group(q, g)
    BY <1>6
  <2>2. PICK gone : gone = OptionsOf(g)
    OBVIOUS
  <2>3. /\ groups' = Without(groups, {g}) /\ options' = Without(options, gone)
        /\ translations' = {t \in translations : t[1] \notin {g} \cup gone}
    BY <2>1, <2>2 DEF delete_modifier_group
  <2>4. /\ groups' \in [Groups -> GroupRow \cup {None}]
        /\ options' \in [Options -> OptionRow \cup {None}]
        /\ \A h \in Groups : groups'[h] = IF h \in {g} THEN None ELSE groups[h]
        /\ \A o \in Options : options'[o] = IF o \in gone THEN None ELSE options[o]
    BY <1>1, <2>3, RowsWithout
  <2>5. \A o \in Options : o \in gone <=> options[o] # None /\ options[o].group = g
    BY <2>2 DEF OptionsOf
  <2>6. Types'
    BY <1>1, <1>2, <2>3, <2>4 DEF Types
  <2>7. CategoryKey' /\ VariantKey' /\ GroupKey'
    BY <1>1, <1>2, <2>4 DEF CategoryKey, VariantKey, GroupKey, Own
  <2>8. OptionKey'
    BY <1>1, <2>4, <2>5 DEF OptionKey, Types, OptionRow
  <2>9. TranslationKey'
    BY <1>1, <1>2, <2>3, <2>4 DEF TranslationKey, Exists
  <2>10. QED
    BY <2>6, <2>7, <2>8, <2>9
<1>7. QED
  BY <1>4, <1>5, <1>6

(* Modifier options. *)
LEMMA TreeOptions ==
  ASSUME TypeInv, NEW q \in Requests, NEW o \in Options,
         \/ \E g \in Groups, active, available \in BOOLEAN : create_modifier_option(q, o, g, active, available)
         \/ \E change \in Availability : update_modifier_option(q, o, change)
         \/ delete_modifier_option(q, o)
  PROVE  Types' /\ CategoryKey' /\ VariantKey' /\ GroupKey' /\ OptionKey' /\ TranslationKey'
<1>1. /\ Types
      /\ CategoryKey /\ VariantKey /\ GroupKey /\ OptionKey /\ TranslationKey
  BY DEF TypeInv
<1>2. UNCHANGED <<categories, products, variants, groups, stored, urls>>
  BY DEF create_modifier_option, update_modifier_option, delete_modifier_option, photoVars
<1>3. ASSUME NEW row \in OptionRow, groups[row.group] # None,
             options' = [options EXCEPT ![o] = row], UNCHANGED translations
      PROVE  Types' /\ CategoryKey' /\ VariantKey' /\ GroupKey' /\ OptionKey' /\ TranslationKey'
  <2>1. \A p \in Options : options'[p] = IF p = o THEN row ELSE options[p]
    BY <1>1, <1>3 DEF Types
  <2>2. Types'
    BY <1>1, <1>2, <1>3 DEF Types
  <2>3. CategoryKey' /\ VariantKey' /\ GroupKey'
    BY <1>1, <1>2 DEF CategoryKey, VariantKey, GroupKey, Own
  <2>4. OptionKey'
    BY <1>1, <1>2, <1>3, <2>1 DEF OptionKey
  <2>5. TranslationKey'
    BY <1>1, <1>2, <1>3, <2>1, NullIsNoRow DEF TranslationKey, Exists
  <2>6. QED
    BY <2>2, <2>3, <2>4, <2>5
<1>4. CASE \E g \in Groups, active, available \in BOOLEAN : create_modifier_option(q, o, g, active, available)
  <2>1. PICK g \in Groups, active \in BOOLEAN, available \in BOOLEAN :
          create_modifier_option(q, o, g, active, available)
    BY <1>4
  <2>2. [group |-> g, active |-> active, available |-> available] \in OptionRow
    BY DEF OptionRow
  <2>3. QED
    BY <1>3, <2>1, <2>2 DEF create_modifier_option
<1>5. CASE \E change \in Availability : update_modifier_option(q, o, change)
  <2>1. PICK change \in Availability : update_modifier_option(q, o, change)
    BY <1>5
  <2>2. PICK row : row = [options[o] EXCEPT ![change[1]] = change[2]]
    OBVIOUS
  <2>3. options[o] \in OptionRow
    BY <1>1, <2>1 DEF update_modifier_option, Types
  <2>4. row \in OptionRow /\ row.group = options[o].group
    <3>1. CASE change[1] = "active"
      BY <2>2, <2>3, <3>1 DEF OptionRow, Availability
    <3>2. CASE change[1] = "available"
      BY <2>2, <2>3, <3>2 DEF OptionRow, Availability
    <3>3. QED
      BY <3>1, <3>2 DEF Availability
  <2>5. options' = [options EXCEPT ![o] = row] /\ UNCHANGED translations
    BY <2>1, <2>2 DEF update_modifier_option
  <2>6. groups[row.group] # None
    BY <1>1, <2>1, <2>4 DEF OptionKey, update_modifier_option
  <2>7. QED
    BY <1>3, <2>4, <2>5, <2>6
<1>6. CASE delete_modifier_option(q, o)
  <2>1. options' = Without(options, {o}) /\ translations' = {t \in translations : t[1] # o}
    BY <1>6 DEF delete_modifier_option
  <2>2. /\ options' \in [Options -> OptionRow \cup {None}]
        /\ \A p \in Options : options'[p] = IF p \in {o} THEN None ELSE options[p]
    BY <1>1, <2>1, RowsWithout
  <2>3. Types'
    BY <1>1, <1>2, <2>1, <2>2 DEF Types
  <2>4. CategoryKey' /\ VariantKey' /\ GroupKey' /\ OptionKey'
    BY <1>1, <1>2, <2>2 DEF CategoryKey, GroupKey, OptionKey, VariantKey, Own
  <2>5. TranslationKey'
    BY <1>1, <1>2, <2>1, <2>2 DEF TranslationKey, Exists
  <2>6. QED
    BY <2>3, <2>4, <2>5
<1>7. QED
  BY <1>4, <1>5, <1>6

(* Photos and translations; a request that begins touches no row.          *)
LEMMA TreeOthers ==
  ASSUME TypeInv, NEW q \in Requests,
         \/ \E url \in Photos : upload_photo(q, url)
         \/ \E e \in Entities, lang \in Languages : _upsert_translation(q, e, lang)
         \/ update_product_after(q)
         \/ delete_product_after(q)
         \/ UNCHANGED treeVars /\ UNCHANGED photoVars
  PROVE  Types' /\ CategoryKey' /\ VariantKey' /\ GroupKey' /\ OptionKey' /\ TranslationKey'
<1>1. /\ Types
      /\ CategoryKey /\ VariantKey /\ GroupKey /\ OptionKey /\ TranslationKey
  BY DEF TypeInv
<1>2. CASE \E url \in Photos : upload_photo(q, url)
  <2>1. PICK url \in Photos : upload_photo(q, url)
    BY <1>2
  <2>2. UNCHANGED treeVars /\ stored' \subseteq Photos /\ urls' \in [Photos -> Use]
    BY <1>1, <2>1 DEF upload_photo, Types, Use
  <2>3. QED
    BY <2>2, TreeStays
<1>3. CASE \E e \in Entities, lang \in Languages : _upsert_translation(q, e, lang)
  <2>1. PICK e \in Entities, lang \in Languages : _upsert_translation(q, e, lang)
    BY <1>3
  <2>2. /\ translations' = translations \cup {<<e, lang>>} /\ Exists(e)
        /\ UNCHANGED <<categories, products, variants, groups, options, stored, urls>>
    BY <2>1 DEF _upsert_translation, Owned, photoVars
  <2>3. Types'
    BY <1>1, <2>2 DEF Types
  <2>4. CategoryKey' /\ VariantKey' /\ GroupKey' /\ OptionKey'
    BY <1>1, <2>2 DEF CategoryKey, VariantKey, GroupKey, OptionKey, Own
  <2>5. TranslationKey'
    BY <1>1, <2>2 DEF TranslationKey, Exists
  <2>6. QED
    BY <2>3, <2>4, <2>5
<1>4. CASE update_product_after(q) \/ delete_product_after(q)
  <2>1. UNCHANGED treeVars /\ UNCHANGED urls /\ stored' \subseteq stored
    BY <1>4 DEF update_product_after, delete_product_after, _delete_r2_photo
  <2>2. QED
    BY <1>1, <2>1, TreeStays DEF Types
<1>5. CASE UNCHANGED treeVars /\ UNCHANGED photoVars
  BY <1>1, <1>5, TreeStays DEF Types, photoVars
<1>6. QED
  BY <1>2, <1>3, <1>4, <1>5

LEMMA TypesNext == TypeInv /\ [Next]_vars => TypeInv'
<1>1. ASSUME TypeInv, NEW q \in Requests, MenuBegin(q)
      PROVE  Types' /\ CategoryKey' /\ VariantKey' /\ GroupKey' /\ OptionKey' /\ TranslationKey'
  <2>1. CASE UNCHANGED treeVars /\ UNCHANGED photoVars
    BY <1>1, <2>1, TreeOthers
  <2>2. CASE \/ \E url \in Photos : upload_photo(q, url)
             \/ \E e \in Entities, lang \in Languages : _upsert_translation(q, e, lang)
    BY <1>1, <2>2, TreeOthers
  <2>3. CASE \E k \in Categories : create_category(q, k)
    BY <1>1, <2>3, TreeCategories
  <2>4. CASE \E v \in Variants :
               \/ \E p \in Products, active, available \in BOOLEAN :
                    create_variant(q, v, p, active, available)
               \/ \E change \in Availability : update_variant(q, v, change)
               \/ delete_variant(q, v)
    BY <1>1, <2>4, TreeVariants
  <2>5. CASE \/ \E g \in Groups, row \in GroupRow : create_modifier_group(q, g, row)
             \/ \E g \in Groups : delete_modifier_group(q, g)
    BY <1>1, <2>5, TreeGroups
  <2>6. CASE \E o \in Options :
               \/ \E g \in Groups, active, available \in BOOLEAN :
                    create_modifier_option(q, o, g, active, available)
               \/ \E change \in Availability : update_modifier_option(q, o, change)
               \/ delete_modifier_option(q, o)
    BY <1>1, <2>6, TreeOptions
  <2>7. QED
    BY <1>1, <2>1, <2>2, <2>3, <2>4, <2>5, <2>6
    DEF MenuBegin, delete_category, create_product, delete_product, update_product,
        update_modifier_group
<1>2. ASSUME TypeInv, NEW q \in Requests, MenuStep(q)
      PROVE  Types' /\ CategoryKey' /\ VariantKey' /\ GroupKey' /\ OptionKey' /\ TranslationKey'
  BY <1>2, TreeCategories, TreeProducts, TreeGroups, TreeOthers DEF MenuStep
<1>3. ASSUME TypeInv, Next PROVE TypeInv'
  BY <1>1, <1>2, <1>3, SoundNext DEF Next, TypeInv
<1>4. ASSUME TypeInv, UNCHANGED vars PROVE TypeInv'
  <2>1. UNCHANGED treeVars /\ UNCHANGED photoVars /\ UNCHANGED <<stored, urls, req>>
    BY <1>4 DEF vars, photoVars
  <2>2. Types' /\ CategoryKey' /\ VariantKey' /\ GroupKey' /\ OptionKey' /\ TranslationKey'
    BY <1>4, <2>1, TreeStays DEF TypeInv, Types
  <2>3. RequestsSound'
    BY <1>4, <2>1 DEF TypeInv, RequestsSound, Sound
  <2>4. QED
    BY <2>2, <2>3 DEF TypeInv
<1>5. QED
  BY <1>3, <1>4

(* Every row's parent exists, whatever deletions and creations overlap.    *)
THEOREM TypesHold == Spec => []TypeOK
BY InitTypes, TypesNext, TypeInvImplies, PTL DEF Spec

-----------------------------------------------------------------------------
(* The bounds of a group *)

(* A group after a step is one from before, or one whose bounds were       *)
(* checked: by create_modifier_group, or by the database.                  *)
LEMMA GroupStep ==
  ASSUME TypeInv, Next, NEW g \in Groups, groups'[g] # None
  PROVE  groups'[g] = groups[g] \/ groups'[g].min <= groups'[g].max
<1>1. Types /\ RequestsSound
  BY DEF TypeInv
<1>2. PICK q \in Requests : MenuBegin(q) \/ MenuStep(q)
  BY DEF Next
<1>3. CASE UNCHANGED groups
  BY <1>3
<1>4. CASE \E h \in Groups, row \in GroupRow : create_modifier_group(q, h, row)
  BY <1>1, <1>4 DEF create_modifier_group, Types
<1>5. CASE update_modifier_group_commit(q)
  <2>1. PICK h \in Groups, change \in GroupChange, read \in GroupRow :
          h = req[q].op[2] /\ change = req[q].op[3] /\ read = req[q].seen
    BY <1>1, <1>5, Arguments DEF update_modifier_group_commit
  <2>2. PICK new : new = Changed(groups[h], read, change)
    OBVIOUS
  <2>3. groups' = [groups EXCEPT ![h] = IF groups[h] # None /\ (groups[h] # None => max_gte_min(new))
                                             THEN new ELSE groups[h]]
    BY <1>5, <2>1, <2>2 DEF update_modifier_group_commit, Changed
  <2>4. CASE groups[h] # None /\ max_gte_min(new)
    <3>1. new \in GroupRow
      BY <1>1, <2>2, <2>4, ChangedGroup DEF Types
    <3>2. new.min <= new.max
      BY <2>4, <3>1, MenuAssumption DEF max_gte_min, GroupRow
    <3>3. QED
      BY <1>1, <2>3, <2>4, <3>2 DEF Types
  <2>5. CASE ~(groups[h] # None /\ max_gte_min(new))
    BY <1>1, <2>3, <2>5 DEF Types
  <2>6. QED
    BY <2>4, <2>5
<1>6. CASE \E gone : groups' = Without(groups, gone)
  BY <1>1, <1>6 DEF Types, Without
<1>7. QED
  BY <1>2, <1>3, <1>4, <1>5, <1>6
  DEF MenuBegin, MenuStep, treeVars, upload_photo, create_category, delete_category, create_product,
      delete_product, update_product, delete_variant, update_variant, create_variant,
      delete_modifier_group, update_modifier_group, delete_modifier_option, update_modifier_option,
      create_modifier_option, _upsert_translation, delete_category_commit, create_product_commit,
      update_product_commit, update_product_after, delete_product_commit, delete_product_after

(* A group can be satisfied, however PATCHes of its two bounds overlap.    *)
THEOREM GroupBoundsHolds == Spec => []GroupBounds
<1>1. Init => GroupBounds
  BY ExistingAssumption DEF Init, GroupBounds
<1>2. TypeInv /\ GroupBounds /\ [Next]_vars => GroupBounds'
  <2>1. ASSUME TypeInv, GroupBounds, Next PROVE GroupBounds'
    BY <2>1, GroupStep DEF GroupBounds
  <2>2. ASSUME GroupBounds, UNCHANGED vars PROVE GroupBounds'
    BY <2>2 DEF GroupBounds, vars, treeVars
  <2>3. QED
    BY <2>1, <2>2
<1>3. QED
  BY <1>1, <1>2, InitTypes, TypesNext, PTL DEF Spec

-----------------------------------------------------------------------------
(* What is sold *)

LEMMA ModOnce == \A n \in Int, m \in Nat \ {0} : 0 <= n /\ n < m => n % m = n
OBVIOUS

LEMMA ModTwice == \A n \in Int, m \in Nat \ {0} : m <= n /\ n < 2 * m => n % m = n - m
OBVIOUS

LEMMA LocalIsHour == \A hour, zone \in Clock : Local(hour, zone) \in Clock
BY MenuAssumption DEF Local, Clock

(* The hours that is_within_schedule admits are those that the clock       *)
(* passes from the start of the window before it comes to its end, for a   *)
(* day of any length and a window over midnight too.                       *)
LEMMA WindowIsWalked ==
  ASSUME NEW from \in Clock, NEW until \in Clock, NEW t \in Clock,
         \/ from = until
         \/ from < until /\ from <= t /\ t < until
         \/ from > until /\ (t >= from \/ t < until)
  PROVE  InHours(from, until, t)
<1>1. Hours \in Nat \ {0} /\ Clock = 0..(Hours - 1)
  BY MenuAssumption DEF Clock
<1>2. /\ from \in Int /\ until \in Int /\ t \in Int /\ Hours \in Int
      /\ 0 <= from /\ from < Hours /\ 0 <= until /\ until < Hours /\ 0 <= t /\ t < Hours
  BY <1>1
<1> DEFINE k == IF t >= from THEN t - from ELSE t + Hours - from
<1>3. k \in Clock /\ (from + k) % Hours = t
  <2>1. CASE t >= from
    <3>1. from + k = t /\ k \in Clock /\ t \in Int /\ 0 <= t /\ t < Hours
      BY <1>1, <1>2, <2>1
    <3>2. t % Hours = t
      BY <1>1, <3>1, ModOnce
    <3>3. QED
      BY <3>1, <3>2
  <2>2. CASE t < from
    <3>1. /\ from + k = t + Hours /\ k \in Clock
          /\ t + Hours \in Int /\ Hours <= t + Hours /\ t + Hours < 2 * Hours
      BY <1>1, <1>2, <2>2
    <3>2. (t + Hours) % Hours = t
      BY <1>1, <3>1, ModTwice
    <3>3. QED
      BY <3>1, <3>2
  <2>3. QED
    BY <1>1, <2>1, <2>2
<1>4. ASSUME NEW j \in 1..k PROVE (from + j) % Hours # until
  <2>1. CASE from + j < Hours
    <3>1. (from + j) % Hours = from + j
      BY <1>1, <1>3, <2>1, ModOnce
    <3>2. QED
      BY <1>1, <1>2, <2>1, <3>1
  <2>2. CASE from + j >= Hours
    <3>1. from + j < 2 * Hours /\ t < from
      BY <1>1, <1>2, <1>3, <2>2
    <3>2. (from + j) % Hours = from + j - Hours
      <4>1. PICK n \in Int : n = from + j
        BY <1>2
      <4>2. n % Hours = n - Hours
        BY <1>1, <2>2, <3>1, <4>1, ModTwice
      <4>3. QED
        BY <1>2, <4>1, <4>2
    <3>3. from + j - Hours <= t /\ from + j - Hours < from
      BY <1>1, <1>2, <1>3, <3>1
    <3>4. QED
      BY <1>1, <3>1, <3>2, <3>3
  <2>3. QED
    BY <1>1, <2>1, <2>2
<1>5. QED
  BY <1>3, <1>4 DEF InHours

(* What create_order takes at a location is on that location's menu, with  *)
(* the variant and options chosen, within the hours the admin set, whatever *)
(* the menu, the day and the time zones are; and on the restaurant's menu  *)
(* when that is judged in the same zone or the product has no hours.       *)
LEMMA TypesSell == TypeInv => SoldAsShown
<1>1. SUFFICES ASSUME TypeInv,
                      NEW hour \in Clock, NEW zone \in Zones \cup {Bad}, NEW p \in Products,
                      NEW v \in Variants \cup {None}, NEW selected \in SUBSET Options,
                      TakesItem(p, v, selected, hour, zone), products[p].category # None
               PROVE  /\ p \in get_restaurant_by_slug(hour, zone)
                      /\ \A first \in Zones \cup {Bad} :
                           first = zone \/ ~Scheduled(p) => p \in get_menu(hour, first)
                      /\ ShownVariants(p) # {} => v \in ShownVariants(p)
                      /\ selected \subseteq ShownOptions(p)
                      /\ zone # Bad /\ None \notin {products[p].from, products[p].until} =>
                           InHours(products[p].from, products[p].until, Local(hour, zone))
  BY DEF SoldAsShown
<1>2. /\ products[p] # None /\ products[p].available
      /\ Available(p, hour, zone)
      /\ Scheduled(p) => is_within_schedule(products[p].from, products[p].until, hour, zone)
      /\ _validate_modifiers(p, selected)
      /\ ShownVariants(p) # {} => v \in VariantsOf(p) /\ variants[v].active
  BY <1>1 DEF TakesItem, Available
<1>3. products[p] \in ProductRow
  BY <1>1, <1>2 DEF TypeInv, Types
<1>4. /\ p \in get_restaurant_by_slug(hour, zone)
      /\ \A first \in Zones \cup {Bad} : first = zone \/ ~Scheduled(p) => p \in get_menu(hour, first)
  <2>1. products[p].category \in Own
    BY <1>1, <1>2 DEF TypeInv, CategoryKey
  <2>2. zone # None
    BY MenuAssumption
  <2>3. _product_visible(p, hour, zone)
    BY <1>2, <2>2 DEF _product_visible
  <2>4. p \in get_restaurant_by_slug(hour, zone)
    BY <1>2, <2>1, <2>3 DEF get_restaurant_by_slug
  <2>5. ASSUME NEW first \in Zones \cup {Bad}, first = zone \/ ~Scheduled(p)
        PROVE  p \in get_menu(hour, first)
    <3>1. CASE first = zone
      BY <2>4, <3>1 DEF get_menu
    <3>2. CASE ~Scheduled(p)
      BY <1>2, <2>1, <3>2 DEF get_menu, get_restaurant_by_slug, _product_visible, Available
    <3>3. QED
      BY <2>5, <3>1, <3>2
  <2>6. QED
    BY <2>4, <2>5
<1>5. ShownVariants(p) # {} => v \in ShownVariants(p)
  BY <1>2 DEF ShownVariants
<1>6. selected \subseteq ShownOptions(p)
  BY <1>2 DEF _validate_modifiers
<1>7. ASSUME zone # Bad, None \notin {products[p].from, products[p].until}
      PROVE  InHours(products[p].from, products[p].until, Local(hour, zone))
  <2>1. PICK from, until : from = products[p].from /\ until = products[p].until
    OBVIOUS
  <2>2. from \in Clock /\ until \in Clock
    BY <1>3, <1>7, <2>1 DEF ProductRow
  <2>3. PICK t \in Clock : t = Local(hour, zone)
    BY <1>7, LocalIsHour, MenuAssumption
  <2>4. is_within_schedule(from, until, hour, zone)
    BY <1>2, <1>7, <2>1 DEF Scheduled
  <2>5. \/ from = until
        \/ from < until /\ from <= t /\ t < until
        \/ ~(from < until) /\ (t >= from \/ t < until)
    BY <1>7, <2>1, <2>3, <2>4 DEF is_within_schedule
  <2>6. \/ from = until
        \/ from < until /\ from <= t /\ t < until
        \/ from > until /\ (t >= from \/ t < until)
    BY <2>2, <2>5 DEF Clock
  <2>7. InHours(from, until, t)
    BY <2>2, <2>6, WindowIsWalked
  <2>8. QED
    BY <2>1, <2>3, <2>7
<1>8. QED
  BY <1>4, <1>5, <1>6, <1>7

THEOREM SoldAsShownHolds == Spec => []SoldAsShown
BY InitTypes, TypesNext, TypesSell, PTL DEF Spec

-----------------------------------------------------------------------------
(* Photos *)

(* Product p has the photo; request q saw it on product p; q has deleted   *)
(* the product it saw.                                                     *)
HasPhoto(p, url) == products[p] # None /\ products[p].photo = url
Saw(q, p, url) ==
  /\ \E pc \in {"commit", "after"} : At(q, pc, "update_product") \/ At(q, pc, "delete_product")
  /\ req[q].op[2] = p /\ req[q].seen.photo = url
Deleted(q) == At(q, "after", "delete_product")

(* A photo that was given once is on one product, and whoever may remove   *)
(* it saw it on that product; once it has been deleted there, it is on     *)
(* none.                                                                   *)
PhotoInv ==
  \A url \in Photos :
    /\ urls[url] = "uploaded" => url \in stored
    /\ \A p \in Products : HasPhoto(p, url) => urls[url] \in {"given", "reused"}
    /\ urls[url] = "given" => \A p, o \in Products :
         HasPhoto(p, url) => url \in stored /\ (HasPhoto(o, url) => o = p)
    /\ \A q \in Requests, p \in Products : Saw(q, p, url) =>
         /\ urls[url] \in {"given", "reused"}
         /\ urls[url] = "given" => \A o \in Products :
              HasPhoto(o, url) => o = p /\ ~Deleted(q)

(* What a step may do to a photo: nothing, or take it off a product;       *)
(* upload it; give it to a product; remove it, for a request that saw it.  *)
Quiet(url) ==
  /\ urls'[url] = urls[url] /\ (url \in stored' <=> url \in stored)
  /\ \A p \in Products : HasPhoto(p, url)' => HasPhoto(p, url)
Uploaded(url) ==
  /\ urls[url] = "unknown"
  /\ urls'[url] = "uploaded" /\ url \in stored'
  /\ \A p \in Products : HasPhoto(p, url)' => HasPhoto(p, url)
GivenTo(p, url) ==
  /\ urls'[url] = IF urls[url] = "uploaded" THEN "given" ELSE "reused"
  /\ url \in stored' <=> url \in stored
  /\ \A o \in Products : HasPhoto(o, url)' => HasPhoto(o, url) \/ o = p
Removed(q, p, url) ==
  /\ Saw(q, p, url) /\ (Deleted(q) \/ ~HasPhoto(p, url))
  /\ urls'[url] = urls[url]
  /\ \A o \in Products : HasPhoto(o, url)' => HasPhoto(o, url)
PhotoStep(url) ==
  \/ Quiet(url) \/ Uploaded(url)
  \/ \E p \in Products : GivenTo(p, url)
  \/ \E q \in Requests, p \in Products : Removed(q, p, url)

(* A product row is written and its photo's URL recorded.                  *)
LEMMA PhotoGiven ==
  ASSUME Types, NEW p \in Products, NEW row \in ProductRow, NEW url \in Photos,
         products' = [products EXCEPT ![p] = row], stored' = stored,
         urls' = Given(p, row.photo)
  PROVE  PhotoStep(url)
<1>1. \A o \in Products : products'[o] = IF o = p THEN row ELSE products[o]
  BY DEF Types
<1>2. \A o \in Products : HasPhoto(o, url)' => HasPhoto(o, url) \/ (o = p /\ row.photo = url)
  BY <1>1 DEF HasPhoto
<1>3. row.photo \in Photos \cup {None} /\ None \notin Photos
  BY MenuAssumption DEF ProductRow
<1>4. CASE row.photo # url
  <2>1. urls'[url] = urls[url]
    BY <1>3, <1>4 DEF Given, Types
  <2>2. QED
    BY <1>2, <1>4, <2>1 DEF PhotoStep, Quiet
<1>5. CASE row.photo = url /\ HasPhoto(p, url)
  <2>1. urls'[url] = urls[url]
    BY <1>5 DEF Given, HasPhoto
  <2>2. QED
    BY <1>2, <1>5, <2>1 DEF PhotoStep, Quiet
<1>6. CASE row.photo = url /\ ~HasPhoto(p, url)
  <2>1. urls' = [urls EXCEPT ![url] = IF urls[url] = "uploaded" THEN "given" ELSE "reused"]
    BY <1>3, <1>6 DEF Given, HasPhoto
  <2>2. urls'[url] = IF urls[url] = "uploaded" THEN "given" ELSE "reused"
    BY <2>1 DEF Types
  <2>3. GivenTo(p, url)
    BY <1>2, <2>2 DEF GivenTo
  <2>4. QED
    BY <2>3 DEF PhotoStep
<1>7. QED
  BY <1>4, <1>5, <1>6

LEMMA PhotoSteps ==
  ASSUME TypeInv, NEW q \in Requests, MenuBegin(q) \/ MenuStep(q), NEW url \in Photos
  PROVE  PhotoStep(url)
<1>1. Types /\ RequestsSound
  BY DEF TypeInv
<1>2. CASE UNCHANGED products /\ UNCHANGED photoVars
  BY <1>2 DEF PhotoStep, Quiet, HasPhoto, photoVars
<1>3. CASE \E new \in Photos : upload_photo(q, new)
  <2>1. PICK new \in Photos : upload_photo(q, new)
    BY <1>3
  <2>2. /\ urls[new] = "unknown"
        /\ stored' = stored \cup {new} /\ urls' = [urls EXCEPT ![new] = "uploaded"]
        /\ UNCHANGED products
    BY <2>1 DEF upload_photo, treeVars
  <2>3. \A p \in Products : HasPhoto(p, url)' => HasPhoto(p, url)
    BY <2>2 DEF HasPhoto
  <2>4. CASE url = new
    BY <1>1, <2>2, <2>3, <2>4 DEF PhotoStep, Uploaded, Types
  <2>5. CASE url # new
    BY <1>1, <2>2, <2>3, <2>5 DEF PhotoStep, Quiet, Types
  <2>6. QED
    BY <2>4, <2>5
<1>4. CASE delete_category_commit(q)
  <2>1. UNCHANGED <<stored, urls>>
    BY <1>4 DEF delete_category_commit, photoVars
  <2>2. \A p \in Products : \/ products'[p] = products[p]
                            \/ /\ products[p] # None
                               /\ products'[p] = [products[p] EXCEPT !.category = None]
    BY <1>4 DEF delete_category_commit
  <2>3. ASSUME NEW p \in Products, HasPhoto(p, url)' PROVE HasPhoto(p, url)
    <3>1. CASE products'[p] = products[p]
      BY <2>3, <3>1 DEF HasPhoto
    <3>2. CASE products[p] # None /\ products'[p] = [products[p] EXCEPT !.category = None]
      <4>1. products[p] \in ProductRow
        BY <1>1, <3>2 DEF Types
      <4>2. products'[p].photo = products[p].photo
        BY <3>2, <4>1 DEF ProductRow
      <4>3. QED
        BY <2>3, <3>2, <4>2 DEF HasPhoto
    <3>3. QED
      BY <2>2, <3>1, <3>2
  <2>4. QED
    BY <2>1, <2>3 DEF PhotoStep, Quiet
<1>5. CASE create_product_commit(q)
  <2>1. PICK row \in ProductRow : row = req[q].op[2]
    BY <1>1, <1>5, Arguments, ExistingAssumption DEF create_product_commit
  <2>2. CASE UNCHANGED <<products, urls>>
    BY <1>2, <1>5, <2>2 DEF create_product_commit, photoVars
  <2>3. CASE \E p \in Products : products' = [products EXCEPT ![p] = row] /\ urls' = Given(p, row.photo)
    BY <1>1, <1>5, <2>3, PhotoGiven DEF create_product_commit
  <2>4. QED
    BY <1>5, <2>1, <2>2, <2>3 DEF create_product_commit
<1>6. CASE update_product_commit(q)
  <2>1. PICK p \in Products, change \in ProductChange, read \in ProductRow :
          p = req[q].op[2] /\ change = req[q].op[3] /\ read = req[q].seen
    BY <1>1, <1>6, Arguments DEF update_product_commit
  <2>2. PICK row : row = Changed(products[p], read, change)
    OBVIOUS
  <2>3. CASE UNCHANGED <<products, urls>>
    BY <1>2, <1>6, <2>3 DEF update_product_commit, photoVars
  <2>4. CASE /\ products[p] # None
             /\ products' = [products EXCEPT ![p] = row]
             /\ urls' = IF change[1] = "photo" /\ read.photo # change[2] THEN Given(p, change[2]) ELSE urls
    <3>1. products[p] \in ProductRow
      BY <1>1, <2>4 DEF Types
    <3>2. /\ row \in ProductRow
          /\ row.photo = IF change[1] = "photo" /\ read.photo # change[2] THEN change[2] ELSE products[p].photo
      BY <2>2, <3>1, ChangedProduct
    <3>3. urls' = Given(p, row.photo)
      <4>1. CASE change[1] = "photo" /\ read.photo # change[2]
        BY <2>4, <3>2, <4>1
      <4>2. CASE ~(change[1] = "photo" /\ read.photo # change[2])
        BY <2>4, <3>2, <4>2 DEF Given
      <4>3. QED
        BY <4>1, <4>2
    <3>4. stored' = stored
      BY <1>6 DEF update_product_commit
    <3>5. QED
      BY <1>1, <2>4, <3>2, <3>3, <3>4, PhotoGiven
  <2>5. QED
    <3>1. \/ UNCHANGED <<products, urls>>
          \/ /\ products[p] # None
             /\ products' = [products EXCEPT ![p] = Changed(@, read, change)]
             /\ urls' = IF change[1] = "photo" /\ read.photo # change[2] THEN Given(p, change[2]) ELSE urls
      BY <1>6, <2>1 DEF update_product_commit, Changed
    <3>2. QED
      BY <2>2, <2>3, <2>4, <3>1
<1>7. CASE delete_product_commit(q)
  <2>1. PICK gone : gone = Tree(req[q].op[2])
    OBVIOUS
  <2>2. products' = Without(products, gone) /\ UNCHANGED <<stored, urls>>
    BY <1>7, <2>1 DEF delete_product_commit, photoVars
  <2>3. \A p \in Products : products'[p] = IF p \in gone THEN None ELSE products[p]
    BY <1>1, <2>2, RowsWithout
  <2>4. QED
    BY <2>2, <2>3 DEF PhotoStep, Quiet, HasPhoto
<1>8. CASE update_product_after(q) \/ delete_product_after(q)
  <2>1. PICK p \in Products, old \in Photos \cup {None} :
          /\ p = req[q].op[2] /\ old = req[q].seen.photo
          /\ At(q, "after", "update_product") \/ At(q, "after", "delete_product")
    BY <1>1, <1>8, Arguments DEF update_product_after, delete_product_after, ProductRow
  <2>2. UNCHANGED products /\ UNCHANGED urls
    BY <1>8 DEF update_product_after, delete_product_after, treeVars
  <2>3. \/ UNCHANGED stored
        \/ stored' = stored \ {old} /\ (Deleted(q) \/ ~HasPhoto(p, old))
    BY <1>8, <2>1
    DEF update_product_after, delete_product_after, _delete_r2_photo, OutOfUse, Deleted, HasPhoto
  <2>4. CASE url # old \/ UNCHANGED stored
    BY <2>2, <2>3, <2>4 DEF PhotoStep, Quiet, HasPhoto
  <2>5. CASE url = old /\ (Deleted(q) \/ ~HasPhoto(p, old))
    <3>1. Saw(q, p, url)
      BY <2>1, <2>5 DEF Saw
    <3>2. Removed(q, p, url)
      BY <2>2, <2>5, <3>1 DEF Removed, HasPhoto
    <3>3. QED
      BY <3>2 DEF PhotoStep
  <2>6. QED
    BY <2>3, <2>4, <2>5
<1>9. QED
  BY <1>2, <1>3, <1>4, <1>5, <1>6, <1>7, <1>8
  DEF MenuBegin, MenuStep, treeVars, create_category, delete_category, create_product,
      delete_product, update_product, delete_variant, update_variant, create_variant,
      create_modifier_group, delete_modifier_group, update_modifier_group, delete_modifier_option,
      update_modifier_option, create_modifier_option, _upsert_translation,
      update_modifier_group_commit

(* Who saw a photo saw it before, or sees it now on the product; and a     *)
(* request that deletes a product leaves it without a photo.               *)
LEMMA SawStep ==
  ASSUME TypeInv, NEW r \in Requests, MenuBegin(r) \/ MenuStep(r),
         NEW q \in Requests, NEW p \in Products, NEW url \in Photos, Saw(q, p, url)'
  PROVE  \/ /\ Saw(q, p, url)
            /\ Deleted(q)' => Deleted(q) \/ products'[p] = None
         \/ /\ HasPhoto(p, url) /\ ~Deleted(q)'
            /\ UNCHANGED products /\ UNCHANGED photoVars
<1>1. Types /\ RequestsSound
  BY DEF TypeInv
<1>2. CASE req'[q] = req[q]
  BY <1>2 DEF Saw, Deleted, At
<1>3. CASE q = r /\ Spend(r)
  <2>1. req'[q].pc = "done"
    BY <1>1, <1>3 DEF Spend, RequestsSound
  <2>2. QED
    BY <2>1 DEF Saw, At
<1>4. CASE /\ q = r
           /\ \/ \E o \in Products, change \in ProductChange : update_product(r, o, change)
              \/ \E o \in Products : delete_product(r, o)
  <2>1. PICK o \in Products, name \in {"update_product", "delete_product"} :
          /\ products[o] # None
          /\ req'[r].pc = "commit" /\ req'[r].op[2] = o /\ req'[r].seen = products[o]
          /\ UNCHANGED products /\ UNCHANGED photoVars
    <3>1. CASE \E o \in Products, change \in ProductChange : update_product(r, o, change)
      BY <1>1, <3>1 DEF update_product, Begin, RequestsSound, treeVars
    <3>2. CASE \E o \in Products : delete_product(r, o)
      BY <1>1, <3>2 DEF delete_product, Begin, RequestsSound, treeVars
    <3>3. QED
      BY <1>4, <3>1, <3>2
  <2>2. o = p /\ products[p].photo = url
    BY <1>4, <2>1 DEF Saw
  <2>3. QED
    BY <1>4, <2>1, <2>2 DEF HasPhoto, Deleted, At
<1>5. CASE /\ q = r
           /\ \/ \E k \in Categories : delete_category(r, k)
              \/ \E row \in Offered : create_product(r, row)
              \/ \E g \in Groups, change \in GroupChange : update_modifier_group(r, g, change)
  <2>1. req'[r].op[1] \in {"delete_category", "create_product", "update_modifier_group"}
    <3>1. CASE \E k \in Categories : delete_category(r, k)
      BY <1>1, <3>1 DEF delete_category, Begin, RequestsSound
    <3>2. CASE \E row \in Offered : create_product(r, row)
      BY <1>1, <3>2 DEF create_product, Begin, RequestsSound
    <3>3. CASE \E g \in Groups, change \in GroupChange : update_modifier_group(r, g, change)
      BY <1>1, <3>3 DEF update_modifier_group, Begin, RequestsSound
    <3>4. QED
      BY <1>5, <3>1, <3>2, <3>3
  <2>2. QED
    BY <1>5, <2>1 DEF Saw, At
<1>6. CASE q = r /\ (update_product_commit(r) \/ delete_product_commit(r)) /\ Then(r)
  <2>1. /\ req'[q].pc = "after" /\ req'[q].op = req[q].op /\ req'[q].seen = req[q].seen
    <3>1. req[r] = [pc |-> req[r].pc, op |-> req[r].op, seen |-> req[r].seen]
      BY <1>1 DEF RequestsSound, RequestState
    <3>2. req'[r] = [req[r] EXCEPT !.pc = "after"]
      BY <1>1, <1>6 DEF Then, RequestsSound
    <3>3. req'[r] = [pc |-> "after", op |-> req[r].op, seen |-> req[r].seen]
      BY <3>1, <3>2
    <3>4. QED
      BY <1>6, <3>3
  <2>2. At(q, "commit", "update_product") \/ At(q, "commit", "delete_product")
    BY <1>6 DEF update_product_commit, delete_product_commit
  <2>3. Saw(q, p, url)
    BY <2>1, <2>2 DEF Saw
  <2>4. ASSUME Deleted(q)' PROVE products'[p] = None
    <3>1. delete_product_commit(r) /\ req[r].op[2] = p
      BY <1>6, <2>1, <2>3, <2>4 DEF Deleted, At, Saw, update_product_commit
    <3>2. PICK gone : gone = Tree(p)
      OBVIOUS
    <3>3. products' = Without(products, gone) /\ p \in gone
      BY <3>1, <3>2 DEF delete_product_commit, Tree
    <3>4. QED
      BY <1>1, <3>3, RowsWithout
  <2>5. QED
    BY <2>3, <2>4
<1>7. CASE q # r /\ \E row : req' = [req EXCEPT ![r] = row]
  BY <1>1, <1>2, <1>7 DEF RequestsSound
<1>8. \E row : req' = [req EXCEPT ![r] = row]
  BY DEF MenuBegin, MenuStep, Spend, Then, Begin, upload_photo, create_category, delete_category,
         create_product, delete_product, update_product, delete_variant, update_variant, create_variant,
         create_modifier_group, delete_modifier_group, update_modifier_group, delete_modifier_option,
         update_modifier_option, create_modifier_option, _upsert_translation,
         delete_category_commit, create_product_commit, update_product_commit, update_product_after,
         delete_product_commit, delete_product_after, update_modifier_group_commit
<1>9. QED
  BY <1>3, <1>4, <1>5, <1>6, <1>7, <1>8
  DEF MenuBegin, MenuStep, upload_photo, create_category, delete_variant, update_variant,
      create_variant, create_modifier_group, delete_modifier_group, delete_modifier_option,
      update_modifier_option, create_modifier_option, _upsert_translation,
      delete_category_commit, create_product_commit, update_product_commit, update_product_after,
      delete_product_commit, delete_product_after, update_modifier_group_commit

(* The conjuncts of PhotoInv for one photo. *)
LEMMA PhotoInvStep ==
  ASSUME TypeInv, PhotoInv, NEW r \in Requests, MenuBegin(r) \/ MenuStep(r), NEW url \in Photos
  PROVE  /\ urls'[url] = "uploaded" => url \in stored'
         /\ \A p \in Products : HasPhoto(p, url)' => urls'[url] \in {"given", "reused"}
         /\ urls'[url] = "given" => \A p, o \in Products :
              HasPhoto(p, url)' => url \in stored' /\ (HasPhoto(o, url)' => o = p)
         /\ \A q \in Requests, p \in Products : Saw(q, p, url)' =>
              /\ urls'[url] \in {"given", "reused"}
              /\ urls'[url] = "given" => \A o \in Products :
                   HasPhoto(o, url)' => o = p /\ ~Deleted(q)'
<1>1. /\ urls[url] = "uploaded" => url \in stored
      /\ \A p \in Products : HasPhoto(p, url) => urls[url] \in {"given", "reused"}
      /\ urls[url] = "given" => \A p, o \in Products :
           HasPhoto(p, url) => url \in stored /\ (HasPhoto(o, url) => o = p)
      /\ \A q \in Requests, p \in Products : Saw(q, p, url) =>
           /\ urls[url] \in {"given", "reused"}
           /\ urls[url] = "given" => \A o \in Products :
                HasPhoto(o, url) => o = p /\ ~Deleted(q)
  BY DEF PhotoInv
<1>2. PhotoStep(url)
  BY PhotoSteps
<1>3. ASSUME NEW q \in Requests, NEW p \in Products, Saw(q, p, url)'
      PROVE  \/ Saw(q, p, url) /\ (Deleted(q)' => Deleted(q) \/ products'[p] = None)
             \/ /\ HasPhoto(p, url) /\ ~Deleted(q)'
                /\ UNCHANGED products /\ UNCHANGED photoVars
  BY <1>3, SawStep
<1>4. ASSUME urls'[url] = urls[url], \A o \in Products : HasPhoto(o, url)' => HasPhoto(o, url),
             NEW q \in Requests, NEW p \in Products, Saw(q, p, url)'
      PROVE  /\ urls'[url] \in {"given", "reused"}
             /\ urls'[url] = "given" => \A o \in Products :
                  HasPhoto(o, url)' => o = p /\ ~Deleted(q)'
  <2>1. CASE Saw(q, p, url) /\ (Deleted(q)' => Deleted(q) \/ products'[p] = None)
    BY <1>1, <1>4, <2>1 DEF HasPhoto
  <2>2. CASE HasPhoto(p, url) /\ ~Deleted(q)'
    BY <1>1, <1>4, <2>2
  <2>3. QED
    BY <1>3, <1>4, <2>1, <2>2
<1>5. CASE Quiet(url)
  BY <1>1, <1>4, <1>5 DEF Quiet
<1>6. CASE Uploaded(url)
  <2>1. \A o \in Products : ~HasPhoto(o, url) /\ ~HasPhoto(o, url)'
    BY <1>1, <1>6 DEF Uploaded
  <2>2. \A q \in Requests, p \in Products : ~Saw(q, p, url)'
    BY <1>1, <1>3, <1>6, <2>1 DEF Uploaded
  <2>3. QED
    BY <1>6, <2>1, <2>2 DEF Uploaded
<1>7. CASE \E p \in Products : GivenTo(p, url)
  <2>1. PICK p \in Products : GivenTo(p, url)
    BY <1>7
  <2>2. CASE urls[url] = "uploaded"
    <3>1. \A o \in Products : ~HasPhoto(o, url) /\ (HasPhoto(o, url)' => o = p)
      BY <1>1, <2>1, <2>2 DEF GivenTo
    <3>2. \A q \in Requests, o \in Products : ~Saw(q, o, url)'
      BY <1>1, <1>3, <2>2, <3>1
    <3>3. QED
      BY <1>1, <2>1, <2>2, <3>1, <3>2 DEF GivenTo
  <2>3. CASE urls[url] # "uploaded"
    BY <2>1, <2>3 DEF GivenTo
  <2>4. QED
    BY <2>2, <2>3
<1>8. CASE \E q \in Requests, p \in Products : Removed(q, p, url)
  <2>1. PICK q \in Requests, p \in Products : Removed(q, p, url)
    BY <1>8
  <2>2. urls[url] = "given" => \A o \in Products : ~HasPhoto(o, url)
    BY <1>1, <2>1 DEF Removed
  <2>3. QED
    BY <1>1, <1>4, <2>1, <2>2 DEF Removed
<1>9. QED
  BY <1>2, <1>5, <1>6, <1>7, <1>8 DEF PhotoStep

LEMMA InitPhotos == Init => PhotoInv
<1>1. SUFFICES ASSUME Init, NEW url \in Photos
               PROVE  /\ urls[url] = "uploaded" => url \in stored
                      /\ \A p \in Products : HasPhoto(p, url) => urls[url] \in {"given", "reused"}
                      /\ urls[url] = "given" => \A p, o \in Products :
                           HasPhoto(p, url) => url \in stored /\ (HasPhoto(o, url) => o = p)
                      /\ \A q \in Requests, p \in Products : ~Saw(q, p, url)
  BY DEF PhotoInv
<1>2. \A q \in Requests, p \in Products : ~Saw(q, p, url)
  BY <1>1 DEF Init, Saw, At
<1>3. url # None
  BY MenuAssumption
<1>4. QED
  BY <1>1, <1>2, <1>3, ExistingAssumption DEF Init, HasPhoto

LEMMA PhotosNext == TypeInv /\ PhotoInv /\ [Next]_vars => PhotoInv'
<1>1. ASSUME TypeInv, PhotoInv, Next PROVE PhotoInv'
  <2>1. PICK r \in Requests : MenuBegin(r) \/ MenuStep(r)
    BY <1>1 DEF Next
  <2>2. QED
    BY <1>1, <2>1, PhotoInvStep DEF PhotoInv
<1>2. ASSUME PhotoInv, UNCHANGED vars PROVE PhotoInv'
  BY <1>2 DEF PhotoInv, HasPhoto, Saw, Deleted, At, vars, treeVars, photoVars
<1>3. QED
  BY <1>1, <1>2

(* A photo whose URL was given once is in R2 while a product shows it,     *)
(* though photos are removed after the commit by a URL read ahead of it.   *)
THEOREM ShownPhotosExistHolds == Spec => []ShownPhotosExist
<1>1. TypeInv /\ PhotoInv => ShownPhotosExist
  BY DEF TypeInv, Types, ProductRow, PhotoInv, HasPhoto, ShownPhotosExist
<1>2. QED
  BY <1>1, InitTypes, TypesNext, InitPhotos, PhotosNext, PTL DEF Spec
=============================================================================
