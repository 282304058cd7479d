-------------------------------- MODULE Menu --------------------------------
(***************************************************************************)
(* The menu of one restaurant: the admin's operations on categories,       *)
(* products, variants, modifiers and translations, the photos in           *)
(* Cloudflare R2, the menu the public sees and the rules by which          *)
(* create_order takes an item.                                             *)
(*                                                                         *)
(* A request is one operation, a PATCH one of one field.  It has a step    *)
(* for its reads and one for its commit where the commit, or what follows  *)
(* it, depends on what was read.  An INSERT whose parent has vanished      *)
(* fails as the search for the parent would: one step does for both.       *)
(* Names, descriptions, sort order, badges and amounts are left out.       *)
(***************************************************************************)
EXTENDS FiniteSets, Integers

CONSTANTS
  Requests,       \* bound: the operations of a behaviour
  Categories, Products, Variants, Groups, Options, Photos, Languages,
  Foreign,        \* categories of another restaurant
  Offered,        \* bound: the products admins enter
  Times,          \* bound: the hours of the schedules admins enter
  Selections,     \* bound: the values of min_selections and max_selections
  Hours,          \* hours of a day
  Zones, Bad,     \* offsets of time zones, and a name that is none
  ProductsLimit,  \* products_limit of the plan, -1 is no limit
  Existing,       \* the menu as it is found
  None            \* SQL NULL, no row

Clock == 0..(Hours - 1)
Entities == Categories \cup Products \cup Variants \cup Groups \cup Options

ASSUME MenuAssumption ==
  /\ IsFiniteSet(Products) /\ IsFiniteSet(Options)
  /\ Foreign \subseteq Categories
  /\ Categories \cap (Products \cup Variants \cup Groups \cup Options) = {}
  /\ Products \cap (Variants \cup Groups \cup Options) = {}
  /\ Variants \cap (Groups \cup Options) = {} /\ Groups \cap Options = {}
  /\ Hours \in Nat \ {0} /\ Selections \subseteq Nat
  /\ Times \subseteq Clock /\ Zones \subseteq Clock
  /\ ProductsLimit \in Int
  /\ None \notin Clock \cup Photos \cup Entities \cup Selections \cup {Bad}

VARIABLES
  categories,    \* the categories that exist
  products,      \* [Products -> row or None]
  variants,      \* product_variants, [Variants -> row or None]
  groups,        \* modifier_groups, [Groups -> row or None]
  options,       \* modifier_options, [Options -> row or None]
  translations,  \* <<entity, language>> of the rows of the five tables
  stored,        \* the photos in R2
  urls,          \* history: the furthest each URL has come, [Photos -> Use]
  req            \* [Requests -> state of the request]

treeVars == <<categories, products, variants, groups, options, translations>>
photoVars == <<stored, urls>>
vars == <<treeVars, photoVars, req>>

ProductRow == [category : Categories \cup {None}, priced : BOOLEAN, available : BOOLEAN,
               from : Clock \cup {None}, until : Clock \cup {None}, photo : Photos \cup {None}]
VariantRow == [product : Products, active : BOOLEAN, available : BOOLEAN]
GroupRow == [product : Products, min : Selections, max : Selections \ {0}, active : BOOLEAN]
OptionRow == [group : Groups, active : BOOLEAN, available : BOOLEAN]

(* A URL is "reused" when a product is given it that had it once or that   *)
(* finds it on another product.                                            *)
Use == {"unknown", "uploaded", "given", "reused"}

(* The menu as it is found obeys its foreign keys and the CHECK; no        *)
(* product is in a category of another restaurant, and a photo is missing  *)
(* or shared only if its URL was reused.                                   *)
ASSUME ExistingAssumption ==
  /\ None \notin ProductRow \cup VariantRow \cup GroupRow \cup OptionRow
  /\ Offered \subseteq ProductRow
  /\ Existing.categories \subseteq Categories
  /\ Existing.products \in [Products -> ProductRow \cup {None}]
  /\ Existing.variants \in [Variants -> VariantRow \cup {None}]
  /\ Existing.groups \in [Groups -> GroupRow \cup {None}]
  /\ Existing.options \in [Options -> OptionRow \cup {None}]
  /\ Existing.translations \subseteq Entities \X Languages
  /\ Existing.stored \subseteq Photos /\ Existing.urls \in [Photos -> Use]
  /\ \A p \in Products : Existing.products[p] # None =>
       Existing.products[p].category \in (Existing.categories \ Foreign) \cup {None}
  /\ \A v \in Variants : Existing.variants[v] # None =>
       Existing.products[Existing.variants[v].product] # None
  /\ \A g \in Groups : Existing.groups[g] # None =>
       /\ Existing.products[Existing.groups[g].product] # None
       /\ Existing.groups[g].min <= Existing.groups[g].max
  /\ \A o \in Options : Existing.options[o] # None =>
       Existing.groups[Existing.options[o].group] # None
  /\ \A t \in Existing.translations :
       \/ t[1] \in Existing.categories
       \/ t[1] \in Products /\ Existing.products[t[1]] # None
       \/ t[1] \in Variants /\ Existing.variants[t[1]] # None
       \/ t[1] \in Groups /\ Existing.groups[t[1]] # None
       \/ t[1] \in Options /\ Existing.options[t[1]] # None
  /\ \A p \in Products : Existing.products[p] # None /\ Existing.products[p].photo # None =>
       LET url == Existing.products[p].photo
       IN \/ Existing.urls[url] = "reused"
          \/ /\ Existing.urls[url] = "given" /\ url \in Existing.stored
             /\ \A o \in Products \ {p} : Existing.products[o] # None => Existing.products[o].photo # url
  /\ \A url \in Photos : Existing.urls[url] = "uploaded" => url \in Existing.stored

(* The field a PATCH changes, and its value. *)
ProductChange ==
  ({"photo"} \X Photos) \cup ({"category"} \X Categories)
  \cup ({"from", "until"} \X (Times \cup {None})) \cup ({"available"} \X BOOLEAN)
  \cup ({"priced"} \X {TRUE})
GroupChange == ({"min"} \X Selections) \cup ({"max"} \X (Selections \ {0})) \cup ({"active"} \X BOOLEAN)
Availability == {"active", "available"} \X BOOLEAN

Operation ==
  ({"create_product"} \X Offered)
  \cup ({"update_product"} \X Products \X ProductChange)
  \cup ({"delete_product"} \X Products)
  \cup ({"delete_category"} \X Categories)
  \cup ({"update_modifier_group"} \X Groups \X GroupChange)

RequestState == [pc : {"idle", "commit", "after", "done"}, op : Operation \cup {None},
                 seen : ProductRow \cup GroupRow \cup [products : SUBSET Products] \cup {None}]

Exists(e) ==
  \/ e \in categories
  \/ e \in Products /\ products[e] # None
  \/ e \in Variants /\ variants[e] # None
  \/ e \in Groups /\ groups[e] # None
  \/ e \in Options /\ options[e] # None

(* Type invariant, foreign keys included. *)
TypeOK ==
  /\ categories \subseteq Categories
  /\ products \in [Products -> ProductRow \cup {None}]
  /\ variants \in [Variants -> VariantRow \cup {None}]
  /\ groups \in [Groups -> GroupRow \cup {None}]
  /\ options \in [Options -> OptionRow \cup {None}]
  /\ translations \subseteq Entities \X Languages
  /\ stored \subseteq Photos /\ urls \in [Photos -> Use]
  /\ req \in [Requests -> RequestState]
  /\ \A p \in Products : products[p] # None => products[p].category \in categories \cup {None}
  /\ \A v \in Variants : variants[v] # None => Exists(variants[v].product)
  /\ \A g \in Groups : groups[g] # None => Exists(groups[g].product)
  /\ \A o \in Options : options[o] # None => Exists(options[o].group)
  /\ \A t \in translations : Exists(t[1])

Init ==
  /\ categories = Existing.categories /\ products = Existing.products
  /\ variants = Existing.variants /\ groups = Existing.groups /\ options = Existing.options
  /\ translations = Existing.translations
  /\ stored = Existing.stored /\ urls = Existing.urls
  /\ req = [q \in Requests |-> [pc |-> "idle", op |-> None, seen |-> None]]

-----------------------------------------------------------------------------
(* Requests *)

Begin(q, op, seen) == req' = [req EXCEPT ![q] = [pc |-> "commit", op |-> op, seen |-> seen]]
Spend(q) == req' = [req EXCEPT ![q] = [pc |-> "done", op |-> None, seen |-> None]]
Then(q) == req' = [req EXCEPT ![q].pc = "after"]
At(q, pc, name) == req[q].pc = pc /\ req[q].op[1] = name

(* The ORM writes a column whose value is not the one it has read. *)
Changed(row, read, change) ==
  IF read[change[1]] = change[2] THEN row ELSE [row EXCEPT ![change[1]] = change[2]]

Own == categories \ Foreign
VariantsOf(p) == {v \in Variants : variants[v] # None /\ variants[v].product = p}
GroupsOf(p) == {g \in Groups : groups[g] # None /\ groups[g].product = p}
OptionsOf(g) == {o \in Options : options[o] # None /\ options[o].group = g}
ProductsOf(k) == {p \in Products : products[p] # None /\ products[p].category = k}

-----------------------------------------------------------------------------
(* Photos *)

upload_photo(q, url) ==
  /\ urls[url] = "unknown"
  /\ Spend(q)
  /\ stored' = stored \cup {url} /\ urls' = [urls EXCEPT ![url] = "uploaded"]
  /\ UNCHANGED treeVars

(* delete_object may fail, which is only logged. *)
_delete_r2_photo(url) == stored' \in {stored, stored \ {url}}

(* history: product p is given a URL, which it may have at present. *)
Given(p, url) ==
  IF url = None \/ (products[p] # None /\ products[p].photo = url) THEN urls
  ELSE [urls EXCEPT ![url] = IF @ = "uploaded" THEN "given" ELSE "reused"]

-----------------------------------------------------------------------------
(* Categories *)

create_category(q, k) ==
  /\ k \notin categories \cup Foreign
  /\ Spend(q)
  /\ categories' = categories \cup {k}
  /\ UNCHANGED <<products, variants, groups, options, translations, photoVars>>

(* The flush reads the products of the category, to set their category_id  *)
(* to NULL.                                                                *)
delete_category(q, k) ==
  /\ k \in Own
  /\ Begin(q, <<"delete_category", k>>, [products |-> ProductsOf(k)])
  /\ UNCHANGED <<treeVars, photoVars>>

(* It updates them by primary key, the foreign key (ON DELETE SET NULL)    *)
(* those that came since.  Of products deleted meanwhile the UPDATE misses *)
(* the rows: the flush may notice.                                         *)
delete_category_commit(q) ==
  LET k == req[q].op[2]
      found == req[q].seen.products
  IN /\ At(q, "commit", "delete_category")
     /\ Spend(q)
     /\ \/ /\ categories' = categories \ {k}
           /\ products' = [p \in Products |->
                IF products[p] # None /\ p \in found \cup ProductsOf(k)
                  THEN [products[p] EXCEPT !.category = None] ELSE products[p]]
           /\ translations' = {t \in translations : t[1] # k}
        \/ /\ \E p \in found : products[p] = None
           /\ UNCHANGED <<categories, products, translations>>
     /\ UNCHANGED <<variants, groups, options, photoVars>>

-----------------------------------------------------------------------------
(* Products *)

_check_products_quota ==
  \/ ProductsLimit = -1
  \/ Cardinality({p \in Products : products[p] # None}) < ProductsLimit

create_product(q, row) ==
  /\ _check_products_quota
  /\ row.category \in Own
  /\ row.photo # None => urls[row.photo] # "unknown"
  /\ Begin(q, <<"create_product", row>>, None)
  /\ UNCHANGED <<treeVars, photoVars>>

create_product_commit(q) ==
  LET row == req[q].op[2]
  IN /\ At(q, "commit", "create_product")
     /\ Spend(q)
     /\ \/ /\ row.category \in categories
           /\ \E p \in Products :
                /\ products[p] = None
                /\ products' = [products EXCEPT ![p] = row]
                /\ urls' = Given(p, row.photo)
        \/ row.category \notin categories /\ UNCHANGED <<products, urls>>
     /\ UNCHANGED <<categories, variants, groups, options, translations, stored>>

update_product(q, p, change) ==
  /\ products[p] # None
  /\ change[1] = "category" => change[2] \in Own
  /\ change[1] = "photo" => urls[change[2]] # "unknown"
  /\ Begin(q, <<"update_product", p, change>>, products[p])
  /\ UNCHANGED <<treeVars, photoVars>>

(* A product or a category that has gone makes the UPDATE fail. *)
update_product_commit(q) ==
  LET p == req[q].op[2]
      change == req[q].op[3]
      read == req[q].seen
      fails == products[p] = None \/ (change[1] = "category" /\ change[2] \notin categories)
  IN /\ At(q, "commit", "update_product")
     /\ \/ /\ ~fails
           /\ products' = [products EXCEPT ![p] = Changed(@, read, change)]
           /\ urls' = IF change[1] = "photo" /\ read.photo # change[2] THEN Given(p, change[2]) ELSE urls
           /\ IF change[1] = "photo" THEN Then(q) ELSE Spend(q)
        \/ fails /\ Spend(q) /\ UNCHANGED <<products, urls>>
     /\ UNCHANGED <<categories, variants, groups, options, translations, stored>>

(* Mutant: the old photo goes, whatever the new one. *)
OutOfUse_Old(old, p) == old # None

(* The photo read before the commit, against the one the refresh reads. *)
OutOfUse(old, p) == old # None /\ old # products[p].photo

(* db.refresh, which fails when the product is gone, and the old photo. *)
update_product_after(q) ==
  LET p == req[q].op[2]
      old == req[q].seen.photo
  IN /\ At(q, "after", "update_product")
     /\ Spend(q)
     /\ IF products[p] # None /\ OutOfUse(old, p) THEN _delete_r2_photo(old) ELSE UNCHANGED stored
     /\ UNCHANGED <<treeVars, urls>>

delete_product(q, p) ==
  /\ products[p] # None
  /\ Begin(q, <<"delete_product", p>>, products[p])
  /\ UNCHANGED <<treeVars, photoVars>>

(* Mutant: the groups of the product stay. *)
Tree_NoGroups(p) == {p} \cup VariantsOf(p)

(* What goes with a product (cascade, and ON DELETE CASCADE). *)
Tree(p) == {p} \cup VariantsOf(p) \cup GroupsOf(p) \cup UNION {OptionsOf(g) : g \in GroupsOf(p)}

Without(rows, gone) == [e \in DOMAIN rows |-> IF e \in gone THEN None ELSE rows[e]]

(* A product that is gone already is no error. *)
delete_product_commit(q) ==
  LET gone == Tree(req[q].op[2])
  IN /\ At(q, "commit", "delete_product")
     /\ products' = Without(products, gone) /\ variants' = Without(variants, gone)
     /\ groups' = Without(groups, gone) /\ options' = Without(options, gone)
     /\ translations' = {t \in translations : t[1] \notin gone}
     /\ Then(q)
     /\ UNCHANGED <<categories, photoVars>>

delete_product_after(q) ==
  /\ At(q, "after", "delete_product")
  /\ Spend(q)
  /\ IF req[q].seen.photo # None THEN _delete_r2_photo(req[q].seen.photo) ELSE UNCHANGED stored
  /\ UNCHANGED <<treeVars, urls>>

-----------------------------------------------------------------------------
(* Variants *)

create_variant(q, v, p, active, available) ==
  /\ products[p] # None /\ variants[v] = None
  /\ Spend(q)
  /\ variants' = [variants EXCEPT ![v] = [product |-> p, active |-> active, available |-> available]]
  /\ UNCHANGED <<categories, products, groups, options, translations, photoVars>>

update_variant(q, v, change) ==
  /\ variants[v] # None
  /\ Spend(q)
  /\ variants' = [variants EXCEPT ![v][change[1]] = change[2]]
  /\ UNCHANGED <<categories, products, groups, options, translations, photoVars>>

delete_variant(q, v) ==
  /\ variants[v] # None
  /\ Spend(q)
  /\ variants' = Without(variants, {v})
  /\ translations' = {t \in translations : t[1] # v}
  /\ UNCHANGED <<categories, products, groups, options, photoVars>>

-----------------------------------------------------------------------------
(* Modifiers *)

(* Mutant: the database has no such constraint. *)
max_gte_min_None(row) == TRUE

(* ck_modifier_groups_max_gte_min *)
max_gte_min(row) == row.max >= row.min

create_modifier_group(q, g, row) ==
  /\ products[row.product] # None /\ groups[g] = None
  /\ row.min <= row.max
  /\ Spend(q)
  /\ groups' = [groups EXCEPT ![g] = row]
  /\ UNCHANGED <<categories, products, variants, options, translations, photoVars>>

(* The new bounds are compared as the row was read. *)
update_modifier_group(q, g, change) ==
  /\ groups[g] # None
  /\ LET new == [groups[g] EXCEPT ![change[1]] = change[2]] IN new.min <= new.max
  /\ Begin(q, <<"update_modifier_group", g, change>>, groups[g])
  /\ UNCHANGED <<treeVars, photoVars>>

update_modifier_group_commit(q) ==
  LET g == req[q].op[2]
      new == Changed(groups[g], req[q].seen, req[q].op[3])
      valid == groups[g] # None => max_gte_min(new)
  IN /\ At(q, "commit", "update_modifier_group")
     /\ Spend(q)
     /\ groups' = [groups EXCEPT ![g] = IF @ # None /\ valid THEN new ELSE @]
     /\ UNCHANGED <<categories, products, variants, options, translations, photoVars>>

delete_modifier_group(q, g) ==
  /\ groups[g] # None
  /\ Spend(q)
  /\ groups' = Without(groups, {g}) /\ options' = Without(options, OptionsOf(g))
  /\ translations' = {t \in translations : t[1] \notin {g} \cup OptionsOf(g)}
  /\ UNCHANGED <<categories, products, variants, photoVars>>

create_modifier_option(q, o, g, active, available) ==
  /\ groups[g] # None /\ options[o] = None
  /\ Spend(q)
  /\ options' = [options EXCEPT ![o] = [group |-> g, active |-> active, available |-> available]]
  /\ UNCHANGED <<categories, products, variants, groups, translations, photoVars>>

update_modifier_option(q, o, change) ==
  /\ options[o] # None
  /\ Spend(q)
  /\ options' = [options EXCEPT ![o][change[1]] = change[2]]
  /\ UNCHANGED <<categories, products, variants, groups, translations, photoVars>>

delete_modifier_option(q, o) ==
  /\ options[o] # None
  /\ Spend(q)
  /\ options' = Without(options, {o})
  /\ translations' = {t \in translations : t[1] # o}
  /\ UNCHANGED <<categories, products, variants, groups, photoVars>>

-----------------------------------------------------------------------------
(* Translations *)

Owned(e) == Exists(e) /\ e \notin Foreign

(* Two that insert the same row at one time leave one row. *)
_upsert_translation(q, e, lang) ==
  /\ Owned(e)
  /\ Spend(q)
  /\ translations' = translations \cup {<<e, lang>>}
  /\ UNCHANGED <<categories, products, variants, groups, options, photoVars>>

-----------------------------------------------------------------------------
(* What the public sees and what it may order, at a UTC hour.  Locations   *)
(* have time zones of their own, and each of the three asks another one.   *)

Local(hour, zone) == (hour + zone) % Hours

(* Mutant: the hour the window ends is in it. *)
is_within_schedule_Closed(from, until, hour, zone) ==
  \/ zone = Bad \/ None \in {from, until} \/ from = until
  \/ LET now == Local(hour, zone)
     IN IF from < until THEN from <= now /\ now <= until ELSE now >= from \/ now <= until

(* An unknown zone and half a window are no restriction. *)
is_within_schedule(from, until, hour, zone) ==
  \/ zone = Bad \/ None \in {from, until} \/ from = until
  \/ LET now == Local(hour, zone)
     IN IF from < until THEN from <= now /\ now < until ELSE now >= from \/ now < until

Scheduled(p) == products[p].from # None \/ products[p].until # None

Available(p, hour, zone) ==
  /\ products[p].available
  /\ Scheduled(p) => is_within_schedule(products[p].from, products[p].until, hour, zone)

(* Without an active location what is scheduled is not shown. *)
_product_visible(p, hour, zone) == Available(p, hour, zone) /\ (Scheduled(p) => zone # None)

(* The products of the menu of a location with this slug, with whose id    *)
(* (location_id) the client then orders; the restaurant's slug stands for  *)
(* the first active location.                                              *)
get_restaurant_by_slug(hour, zone) ==
  {p \in Products : /\ products[p] # None
                    /\ products[p].category \in Own
                    /\ _product_visible(p, hour, zone)}

(* The menu under the restaurant's id, in the time zone of its first active *)
(* location.                                                               *)
get_menu(hour, first) == get_restaurant_by_slug(hour, first)

(* What is sold out is shown as such. *)
ShownVariants(p) == {v \in VariantsOf(p) : variants[v].active}
ShownOptions(p) == {o \in Options : \E g \in GroupsOf(p) :
                      groups[g].active /\ o \in OptionsOf(g) /\ options[o].active}

_validate_modifiers(p, selected) ==
  /\ \A o \in selected : o \in ShownOptions(p) /\ options[o].available
  /\ \A g \in GroupsOf(p) : groups[g].active =>
       LET count == Cardinality(selected \cap OptionsOf(g))
       IN groups[g].min <= count /\ count <= groups[g].max

(* create_order takes the item at the active location X-Location-Id names: *)
(* without an active variant the product's price counts and the variant_id *)
(* is ignored.                                                             *)
TakesItem(p, v, selected, hour, zone) ==
  /\ products[p] # None
  /\ Available(p, hour, zone)
  /\ IF ShownVariants(p) = {} THEN products[p].priced
     ELSE v \in VariantsOf(p) /\ variants[v].active /\ variants[v].available
  /\ _validate_modifiers(p, selected)

-----------------------------------------------------------------------------
MenuBegin(q) ==
  /\ req[q].pc = "idle"
  /\ \/ \E url \in Photos : upload_photo(q, url)
     \/ \E k \in Categories : create_category(q, k) \/ delete_category(q, k)
     \/ \E row \in Offered : create_product(q, row)
     \/ \E p \in Products : delete_product(q, p)
     \/ \E p \in Products, change \in ProductChange : update_product(q, p, change)
     \/ \E v \in Variants : delete_variant(q, v)
     \/ \E v \in Variants, change \in Availability : update_variant(q, v, change)
     \/ \E v \in Variants, p \in Products, active, available \in BOOLEAN :
          create_variant(q, v, p, active, available)
     \/ \E g \in Groups : delete_modifier_group(q, g)
     \/ \E g \in Groups, change \in GroupChange : update_modifier_group(q, g, change)
     \/ \E g \in Groups, row \in GroupRow : create_modifier_group(q, g, row)
     \/ \E o \in Options : delete_modifier_option(q, o)
     \/ \E o \in Options, change \in Availability : update_modifier_option(q, o, change)
     \/ \E o \in Options, g \in Groups, active, available \in BOOLEAN :
          create_modifier_option(q, o, g, active, available)
     \/ \E e \in Entities, lang \in Languages : _upsert_translation(q, e, lang)

MenuStep(q) ==
  \/ delete_category_commit(q)
  \/ create_product_commit(q)
  \/ update_product_commit(q) \/ update_product_after(q)
  \/ delete_product_commit(q) \/ delete_product_after(q)
  \/ update_modifier_group_commit(q)

Next == \E q \in Requests : MenuBegin(q) \/ MenuStep(q)

Spec == Init /\ [][Next]_vars

-----------------------------------------------------------------------------
(* Properties *)

(* Walking the clock from the hour the window opens, one comes to hour t   *)
(* before it closes.                                                       *)
InHours(from, until, t) ==
  \E k \in Clock : (from + k) % Hours = t /\ \A j \in 1..k : (from + j) % Hours # until

(* What create_order takes at a location is on that location's menu at that *)
(* hour, with the variant and the options chosen, and within the hours the *)
(* admin set; and on the restaurant's menu when its first active location  *)
(* is in the same time zone.  A product whose category was deleted is sold *)
(* and on no menu.                                                         *)
SoldAsShown ==
  \A hour \in Clock, zone \in Zones \cup {Bad}, p \in Products :
  \A v \in Variants \cup {None}, selected \in SUBSET Options :
    TakesItem(p, v, selected, hour, zone) /\ products[p].category # None =>
      LET from == products[p].from
          until == products[p].until
      IN /\ p \in get_restaurant_by_slug(hour, zone)
         /\ \A first \in Zones \cup {Bad} : first = zone \/ ~Scheduled(p) => p \in get_menu(hour, first)
         /\ ShownVariants(p) # {} => v \in ShownVariants(p)
         /\ selected \subseteq ShownOptions(p)
         /\ zone # Bad /\ None \notin {from, until} => InHours(from, until, Local(hour, zone))

(* A product's photo is in R2, whatever updates and deletions overlap or   *)
(* are repeated, unless its URL had been given to a product before: photos *)
(* are removed after the commit, by the URL read ahead of it.              *)
ShownPhotosExist ==
  \A p \in Products :
    LET url == products[p].photo
    IN products[p] # None /\ url # None => url \in stored \/ urls[url] = "reused"

(* A group can be satisfied, min <= max, though each PATCH compares one    *)
(* new bound with the other bound as it was.                               *)
GroupBounds == \A g \in Groups : groups[g] # None => groups[g].min <= groups[g].max
=============================================================================
