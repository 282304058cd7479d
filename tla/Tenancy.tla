------------------------------ MODULE Tenancy ------------------------------
(***************************************************************************)
(* Who owns what and who may act: agencies, their restaurants, the         *)
(* restaurants' locations with slug and Telegram bot, JWT sessions and     *)
(* their revocation, and the cache of bots of the one worker process.      *)
(*                                                                         *)
(* Restaurants are only deactivated and locations never deleted.  A        *)
(* request is one operation; one that reads and writes at its commit, or   *)
(* goes on after it, has a step for each.  A refused request changes       *)
(* nothing and is not a step.  Telegram's own register of webhooks is not  *)
(* modelled.                                                               *)
(***************************************************************************)
EXTENDS FiniteSets, Integers

CONSTANTS
  Requests,      \* bound: the operations of a behaviour
  Agencies, Restaurants, Slugs, Bots, Tokens,
  MaxLocations,  \* bound: location ids are 1..MaxLocations, in the order of insertion
  Tables, Calls, \* used by Floor, part of what requests are about; ids of deleted rows come again
  Existing,      \* the rows found at the start
  CallStatuses,  \* what the admin sets a waiter call to
  MaxTime,       \* bound of the clock, in half seconds
  TokenLife,     \* ACCESS_TOKEN_EXPIRE_HOURS, in seconds
  None           \* SQL NULL, no row

Locations == 1..MaxLocations
Time == 0..MaxTime

VARIABLES
  now,          \* the clock, in half seconds: PostgreSQL compares fractions, jose does not
  agencies,     \* [Agencies -> "none", "active", "frozen"]
  restaurants,  \* [Restaurants -> row or None]
  locations,    \* [Locations -> row or None]
  botCache,     \* handlers._BOT_CACHE, [Locations -> bot or None]
  sessions,     \* [Tokens -> claims of the JWT or None]
  revoked,      \* revoked_tokens
  loggedOut,    \* history: tokens whose revocation was written
  req,          \* [Requests -> state of the request]
  overlap       \* history: pairs of requests that were in progress at one time

rowVars == <<agencies, restaurants, locations>>
authVars == <<now, sessions, revoked, loggedOut>>
requestVars == <<req, overlap>>
tenancyVars == <<rowVars, authVars, botCache, requestVars>>

Agency == {"none", "active", "frozen"}
RestaurantRow == [agency : Agencies, slug : Slugs, active : BOOLEAN]
LocationRow == [restaurant : Restaurants, slug : Slugs, active : BOOLEAN,
                bot : Bots \cup {None}, waiter : BOOLEAN]
Claims == [role : {"agency_owner"}, of : Agencies, exp : Nat]
          \cup [role : {"restaurant_admin"}, of : Restaurants, exp : Nat]
          \cup [role : {"superadmin"}, of : {None}, exp : Nat]

ASSUME TenancyAssumption ==
  /\ IsFiniteSet(Requests) /\ IsFiniteSet(Agencies) /\ IsFiniteSet(Restaurants)
  /\ MaxLocations \in Nat /\ MaxTime \in Nat /\ TokenLife \in Nat
  /\ None \notin Agencies \cup Restaurants \cup Bots \cup Locations
  /\ None \notin RestaurantRow \cup LocationRow \cup Claims
  /\ Existing.agencies \in [Agencies -> Agency]
  /\ Existing.restaurants \in [Restaurants -> RestaurantRow \cup {None}]
  /\ Existing.locations \in [Locations -> LocationRow \cup {None}]
  /\ Existing.sessions \in [Tokens -> Claims \cup {None}]

(* A restaurant is created with its first location.  One that was inactive *)
(* when locations were introduced (migration 0010) got an inactive one and *)
(* is left out.                                                            *)
ASSUME ExistingAssumption ==
  \A r \in Restaurants : Existing.restaurants[r] # None =>
    \E l \in Locations : /\ Existing.locations[l] # None
                         /\ Existing.locations[l].restaurant = r /\ Existing.locations[l].active

(* Operations of more than one step, with what they are about. *)
Operation ==
  ({"create_restaurant"} \X Agencies \X Slugs \X (Bots \cup {None}))
  \cup ({"update_restaurant"} \X Restaurants \X Bots)
  \cup ({"delete_restaurant"} \X Restaurants)
  \cup ({"delete_location"} \X Locations)
  \cup ({"get_location_bot"} \X Locations)
  \cup ({"create_table"} \X Locations \X Nat)
  \cup ({"create_waiter_call"} \X Tables)
  \cup ({"update_status"} \X Calls \X CallStatuses)

(* seen is what the request has read and uses later; a failed request was   *)
(* answered 500 after its commit.                                          *)
RequestState == [pc : {"idle", "commit", "after", "done", "failed"}, op : Operation \cup {None},
                 seen : Locations \cup Bots \cup {None}]

TenancyTypeOK ==
  /\ now \in Time
  /\ agencies \in [Agencies -> Agency]
  /\ restaurants \in [Restaurants -> RestaurantRow \cup {None}]
  /\ locations \in [Locations -> LocationRow \cup {None}]
  /\ botCache \in [Locations -> Bots \cup {None}]
  /\ sessions \in [Tokens -> Claims \cup {None}]
  /\ revoked \subseteq Tokens /\ loggedOut \subseteq Tokens
  /\ req \in [Requests -> RequestState]
  /\ overlap \subseteq SUBSET Requests

Idle == [pc |-> "idle", op |-> None, seen |-> None]

TenancyInit ==
  /\ now = 0
  /\ agencies = Existing.agencies /\ restaurants = Existing.restaurants
  /\ locations = Existing.locations /\ sessions = Existing.sessions
  /\ botCache = [l \in Locations |-> None]
  /\ revoked = {} /\ loggedOut = {}
  /\ req = [q \in Requests |-> Idle] /\ overlap = {}

-----------------------------------------------------------------------------
(* Queries *)

LocationsOf(r) == {l \in Locations : locations[l] # None /\ locations[l].restaurant = r}
ActiveLocations(r) == {l \in LocationsOf(r) : locations[l].active}

(* ORDER BY id, first(). *)
First(rows) == IF rows = {} THEN None ELSE CHOOSE l \in rows : \A k \in rows : l <= k
_get_primary_location(r) == First(ActiveLocations(r))

AgencyActive(a) == agencies[a] = "active"
RestaurantActive(r) == restaurants[r] # None /\ restaurants[r].active
Serving(r) == RestaurantActive(r) /\ AgencyActive(restaurants[r].agency)
RestaurantsOf(a) == {r \in Restaurants : restaurants[r] # None /\ restaurants[r].agency = a}

(* The bot that get_telegram_user verifies initData with. *)
_bot_location(r) == First({l \in ActiveLocations(r) : locations[l].bot # None})

(* initData signed by bot is accepted for X-Restaurant-Id r. *)
get_telegram_user(r, bot) ==
  /\ Serving(r)
  /\ _bot_location(r) # None
  /\ locations[_bot_location(r)].bot = bot

(* Mutant: the restaurant's own locations are the ones compared. *)
_bot_token_in_use_Own(bot, excluded) ==
  \E l \in Locations : /\ locations[l] # None
                       /\ locations[l].restaurant = excluded
                       /\ locations[l].bot = bot

(* Also locations that are inactive, or of inactive restaurants. *)
_bot_token_in_use(bot, excluded) ==
  \E l \in Locations : /\ locations[l] # None
                       /\ locations[l].restaurant # excluded
                       /\ locations[l].bot = bot

-----------------------------------------------------------------------------
(* Sessions *)

(* jose refuses exp < now, both in whole seconds. *)
decode_token(s) ==
  /\ sessions[s] # None
  /\ sessions[s].exp >= now \div 2
  /\ s \notin revoked

Authenticates(s, role, of) ==
  decode_token(s) /\ sessions[s].role = role /\ sessions[s].of = of

get_current_agency(s, a) == Authenticates(s, "agency_owner", a) /\ AgencyActive(a)
get_current_restaurant_admin(s, r) == Authenticates(s, "restaurant_admin", r) /\ Serving(r)
get_current_superadmin(s) == Authenticates(s, "superadmin", None)

Owner(a) == \E s \in Tokens : get_current_agency(s, a)
Admin(r) == \E s \in Tokens : get_current_restaurant_admin(s, r)
Superadmin == \E s \in Tokens : get_current_superadmin(s)

-----------------------------------------------------------------------------
(* Requests *)

Running == {q \in Requests : req[q].pc \in {"commit", "after"}}

To(q, pc, op, seen) == req' = [req EXCEPT ![q] = [pc |-> pc, op |-> op, seen |-> seen]]

Begin(q, op, seen) ==
  /\ To(q, "commit", op, seen)
  /\ overlap' = overlap \cup {{q, p} : p \in Running}

Proceed(q) == To(q, "after", req[q].op, req[q].seen) /\ UNCHANGED overlap
Finish(q) == To(q, "done", req[q].op, None) /\ UNCHANGED overlap
Fail(q) == To(q, "failed", req[q].op, req[q].seen) /\ UNCHANGED overlap
At(q, pc, name) == req[q].pc = pc /\ req[q].op[1] = name

(* An operation of one step. *)
Spend(q) == To(q, "done", None, None) /\ UNCHANGED overlap

-----------------------------------------------------------------------------
(* Logins and logouts *)

(* Mutant: a token without exp. *)
BuildToken_NoExp(role, of) ==
  \E s \in Tokens :
    /\ sessions[s] = None
    /\ sessions' = [sessions EXCEPT ![s] = [role |-> role, of |-> of, exp |-> None]]

BuildToken(role, of) ==
  \E s \in Tokens :
    /\ sessions[s] = None
    /\ sessions' = [sessions EXCEPT ![s] =
                      [role |-> role, of |-> of, exp |-> now \div 2 + TokenLife]]

(* login_restaurant_admin does not look at the agency, impersonate_agency  *)
(* does not ask whether it is frozen.                                      *)
Login(q) ==
  /\ Spend(q)
  /\ \/ \E a \in Agencies : AgencyActive(a) /\ BuildToken("agency_owner", a)
     \/ \E r \in Restaurants : RestaurantActive(r) /\ BuildToken("restaurant_admin", r)
     \/ BuildToken("superadmin", None)
     \/ \E a \in Agencies :
          Superadmin /\ agencies[a] # "none" /\ BuildToken("agency_owner", a)
  /\ UNCHANGED <<rowVars, now, revoked, loggedOut, botCache>>

(* The token is revoked; when the INSERT fails the answer is 200 as well. *)
Logout(q) ==
  \E s \in Tokens :
    /\ \/ \E a \in Agencies : get_current_agency(s, a)
       \/ \E r \in Restaurants : get_current_restaurant_admin(s, r)
       \/ get_current_superadmin(s)
    /\ Spend(q)
    /\ \/ revoked' = revoked \cup {s} /\ loggedOut' = loggedOut \cup {s}
       \/ UNCHANGED <<revoked, loggedOut>>
    /\ UNCHANGED <<rowVars, now, sessions, botCache>>

(* Mutant: DELETE without its WHERE. *)
Purged_All == revoked

(* Rows with expires_at < NOW(). *)
Purged == {s \in revoked : 2 * sessions[s].exp < now}

(* Everything in memory is gone, the startup purges revoked_tokens. *)
Restart ==
  /\ botCache' = [l \in Locations |-> None]
  /\ req' = [q \in Requests |->
               IF q \in Running
                 THEN [pc |-> "done", seen |-> None,
                       op |-> IF req[q].pc = "after" THEN req[q].op ELSE None]
                 ELSE req[q]]
  /\ revoked' \in {revoked, revoked \ Purged}
  /\ UNCHANGED <<rowVars, now, sessions, loggedOut, overlap>>

Tick ==
  /\ now < MaxTime
  /\ now' = now + 1
  /\ UNCHANGED <<rowVars, sessions, revoked, loggedOut, botCache, requestVars>>

-----------------------------------------------------------------------------
(* Superadmin *)

(* register_agency needs no session, create_agency the superadmin's. *)
CreateAgency(q, a) ==
  /\ agencies[a] = "none"
  /\ Spend(q)
  /\ agencies' = [agencies EXCEPT ![a] = "active"]
  /\ UNCHANGED <<restaurants, locations, authVars, botCache>>

UpdateAgency(q, a) ==
  /\ Superadmin /\ agencies[a] # "none"
  /\ Spend(q)
  /\ \E state \in {"active", "frozen"} : agencies' = [agencies EXCEPT ![a] = state]
  /\ UNCHANGED <<restaurants, locations, authVars, botCache>>

FreezeRestaurant(q, r) ==
  /\ Superadmin /\ restaurants[r] # None
  /\ Spend(q)
  /\ \E active \in BOOLEAN : restaurants' = [restaurants EXCEPT ![r].active = active]
  /\ UNCHANGED <<agencies, locations, authVars, botCache>>

TransferRestaurant(q, r, a) ==
  /\ Superadmin /\ restaurants[r] # None /\ agencies[a] # "none"
  /\ Spend(q)
  /\ restaurants' = [restaurants EXCEPT ![r].agency = a]
  /\ UNCHANGED <<agencies, locations, authVars, botCache>>

-----------------------------------------------------------------------------
(* The agency's restaurants *)

CreateRestaurantBegin(q, a, slug, bot) ==
  /\ Owner(a)
  /\ \A r \in Restaurants : restaurants[r] # None => restaurants[r].slug # slug
  /\ bot # None => ~_bot_token_in_use(bot, None)
  /\ Begin(q, <<"create_restaurant", a, slug, bot>>, None)
  /\ UNCHANGED <<rowVars, authVars, botCache>>

(* The restaurant and its first location are one transaction; both slugs   *)
(* are UNIQUE.  A conflict of the location's is a 409, one of the          *)
(* restaurant's, met at the flush, a 500.                                  *)
CreateRestaurantCommit(q) ==
  LET a == req[q].op[2]
      slug == req[q].op[3]
      bot == req[q].op[4]
      free == /\ \A r \in Restaurants : restaurants[r] # None => restaurants[r].slug # slug
              /\ \A l \in Locations : locations[l] # None => locations[l].slug # slug
  IN /\ At(q, "commit", "create_restaurant")
     /\ Finish(q)
     /\ \/ /\ free
           /\ \E r \in Restaurants, l \in Locations :
                /\ restaurants[r] = None
                /\ l = First({k \in Locations : locations[k] = None})
                /\ restaurants' = [restaurants EXCEPT ![r] =
                     [agency |-> a, slug |-> slug, active |-> TRUE]]
                /\ locations' = [locations EXCEPT ![l] =
                     [restaurant |-> r, slug |-> slug, active |-> TRUE, bot |-> bot,
                      waiter |-> FALSE]]
        \/ ~free /\ UNCHANGED <<restaurants, locations>>
     /\ UNCHANGED <<agencies, authVars, botCache>>

(* The token goes to the first active location; without one only a warning *)
(* is logged and the request goes on.                                      *)
UpdateRestaurantBegin(q, r, bot) ==
  /\ \E a \in Agencies : Owner(a) /\ r \in RestaurantsOf(a)
  /\ ~_bot_token_in_use(bot, r)
  /\ Begin(q, <<"update_restaurant", r, bot>>, _get_primary_location(r))
  /\ UNCHANGED <<rowVars, authVars, botCache>>

UpdateRestaurantCommit(q) ==
  LET l == req[q].seen
  IN /\ At(q, "commit", "update_restaurant")
     /\ Proceed(q)
     /\ locations' = [k \in Locations |->
          IF k = l THEN [locations[k] EXCEPT !.bot = req[q].op[3]] ELSE locations[k]]
     /\ UNCHANGED <<agencies, restaurants, authVars, botCache>>

(* Mutant: the cache keeps the bot. *)
invalidate_bot_cache_Not(l) == UNCHANGED botCache

(* The entry under the restaurant's id, which the code drops too, can only  *)
(* be of a location with that number; it is left.                          *)
invalidate_bot_cache(l) == botCache' = [k \in Locations |-> IF k = l THEN None ELSE botCache[k]]

UpdateRestaurantInvalidate(q) ==
  /\ At(q, "after", "update_restaurant")
  /\ Finish(q)
  /\ invalidate_bot_cache(req[q].seen)
  /\ UNCHANGED <<rowVars, authVars>>

(* The rows are read again after the commit (db.refresh, location.id); when *)
(* that fails the answer is 500 and the cache is as it was.                *)
UpdateRestaurantFails(q) ==
  /\ At(q, "after", "update_restaurant")
  /\ Fail(q)
  /\ UNCHANGED <<rowVars, authVars, botCache>>

DeleteRestaurant(q, r) ==
  /\ \E a \in Agencies : Owner(a) /\ r \in RestaurantsOf(a)
  /\ To(q, "after", <<"delete_restaurant", r>>, None)
  /\ overlap' = overlap \cup {{q, p} : p \in Running}
  /\ restaurants' = [restaurants EXCEPT ![r].active = FALSE]
  /\ UNCHANGED <<agencies, locations, authVars, botCache>>

(* The first location with a bot, active or not; the query may fail. *)
DeleteRestaurantInvalidate(q) ==
  /\ At(q, "after", "delete_restaurant")
  /\ Finish(q)
  /\ \/ invalidate_bot_cache(First({l \in LocationsOf(req[q].op[2]) : locations[l].bot # None}))
     \/ UNCHANGED botCache
  /\ UNCHANGED <<rowVars, authVars>>

-----------------------------------------------------------------------------
(* The restaurant's locations *)

SlugFree(slug, l) == \A k \in Locations : locations[k] # None /\ k # l => locations[k].slug # slug

CreateLocation(q, r, slug) ==
  /\ Admin(r) /\ SlugFree(slug, None)
  /\ Spend(q)
  /\ \E l \in Locations, waiter \in BOOLEAN :
       /\ l = First({k \in Locations : locations[k] = None})
       /\ locations' = [locations EXCEPT ![l] =
            [restaurant |-> r, slug |-> slug, active |-> TRUE, bot |-> None, waiter |-> waiter]]
  /\ UNCHANGED <<agencies, restaurants, authVars, botCache>>

(* PATCH: the slug or the waiter flag, also of an inactive location; the   *)
(* schema has no is_active.                                                *)
UpdateLocation(q, r, l) ==
  /\ Admin(r) /\ l \in LocationsOf(r)
  /\ Spend(q)
  /\ \/ \E slug \in Slugs :
          SlugFree(slug, l) /\ locations' = [locations EXCEPT ![l].slug = slug]
     \/ \E waiter \in BOOLEAN : locations' = [locations EXCEPT ![l].waiter = waiter]
  /\ UNCHANGED <<agencies, restaurants, authVars, botCache>>

(* Mutant: the location itself is not counted among the active ones. *)
MayDeactivate_Last(r) == Cardinality(ActiveLocations(r)) >= 1

(* Guard I-4. *)
MayDeactivate(r) == Cardinality(ActiveLocations(r)) > 1

DeleteLocationBegin(q, r, l) ==
  /\ Admin(r) /\ l \in ActiveLocations(r) /\ MayDeactivate(r)
  /\ Begin(q, <<"delete_location", l>>, None)
  /\ UNCHANGED <<rowVars, authVars, botCache>>

DeleteLocationCommit(q) ==
  /\ At(q, "commit", "delete_location")
  /\ Finish(q)
  /\ locations' = [locations EXCEPT ![req[q].op[2]].active = FALSE]
  /\ UNCHANGED <<agencies, restaurants, authVars, botCache>>

-----------------------------------------------------------------------------
(* The cache of bots: a webhook that has read an active location with a    *)
(* bot, or a task that has been given one, looks into the cache and, when  *)
(* there is nothing, decrypts what it has read.                            *)

ReadLocation(q, l) ==
  /\ locations[l] # None /\ locations[l].active /\ locations[l].bot # None
  /\ Begin(q, <<"get_location_bot", l>>, locations[l].bot)
  /\ UNCHANGED <<rowVars, authVars, botCache>>

GetLocationBot(q) ==
  LET l == req[q].op[2]
  IN /\ At(q, "commit", "get_location_bot")
     /\ Finish(q)
     /\ botCache' = [botCache EXCEPT ![l] = IF @ = None THEN req[q].seen ELSE @]
     /\ UNCHANGED <<rowVars, authVars>>

-----------------------------------------------------------------------------
TenancyStep(q) ==
  \/ CreateRestaurantCommit(q)
  \/ UpdateRestaurantCommit(q) \/ UpdateRestaurantInvalidate(q) \/ UpdateRestaurantFails(q)
  \/ DeleteRestaurantInvalidate(q)
  \/ DeleteLocationCommit(q)
  \/ GetLocationBot(q)

TenancyBegin(q) ==
  /\ req[q].pc = "idle"
  /\ \/ Login(q) \/ Logout(q)
     \/ \E a \in Agencies : CreateAgency(q, a) \/ UpdateAgency(q, a)
     \/ \E r \in Restaurants : FreezeRestaurant(q, r) \/ DeleteRestaurant(q, r)
     \/ \E r \in Restaurants, a \in Agencies : TransferRestaurant(q, r, a)
     \/ \E a \in Agencies, slug \in Slugs, bot \in Bots \cup {None} :
          CreateRestaurantBegin(q, a, slug, bot)
     \/ \E r \in Restaurants, bot \in Bots : UpdateRestaurantBegin(q, r, bot)
     \/ \E r \in Restaurants, slug \in Slugs : CreateLocation(q, r, slug)
     \/ \E r \in Restaurants, l \in Locations :
          UpdateLocation(q, r, l) \/ DeleteLocationBegin(q, r, l)
     \/ \E l \in Locations : ReadLocation(q, l)

TenancyNext ==
  \/ \E q \in Requests : TenancyBegin(q) \/ TenancyStep(q)
  \/ Restart \/ Tick

-----------------------------------------------------------------------------
(* Properties *)

(* What requests that were in progress at one time may have done. *)
Overlapping(S, T) ==
  \E p, q \in Requests : p # q /\ {p, q} \in overlap /\ req[p].op \in S /\ req[q].op \in T

(* A restaurant keeps an active location, which _get_primary_location      *)
(* relies on: guard I-4 counts before it commits, so only two              *)
(* delete_location at one time leave it without one.                       *)
ActiveLocationRemains ==
  \A r \in Restaurants : restaurants[r] # None /\ ActiveLocations(r) = {} =>
    LET deletions == {"delete_location"} \X LocationsOf(r)
    IN Overlapping(deletions, deletions)

(* Cross-restaurant isolation rests on distinct bots (agency.py:62):       *)
(* initData signed for one restaurant is accepted by another only after    *)
(* two requests that set the same bot at one time, however often bots are  *)
(* changed and restaurants frozen, transferred and deleted.                *)
BotIsolation ==
  \A r, s \in Restaurants, bot \in Bots :
    r # s /\ get_telegram_user(r, bot) /\ get_telegram_user(s, bot) =>
      LET sets == ({"create_restaurant"} \X Agencies \X Slugs \X {bot})
                  \cup ({"update_restaurant"} \X Restaurants \X {bot})
      IN Overlapping(sets, sets)

(* A cached bot is the location's bot, through any changes of bots, slugs  *)
(* and owners and restarts, unless a request that changed it has still to  *)
(* invalidate (agency.py:565) or was answered 500 before it did, or a      *)
(* message was being sent meanwhile.                                       *)
CacheFresh ==
  \A l \in Locations : botCache[l] # None /\ botCache[l] # locations[l].bot =>
    \/ \E q \in Requests : /\ At(q, "after", "update_restaurant") \/ At(q, "failed", "update_restaurant")
                           /\ req[q].seen = l
    \/ Overlapping({"update_restaurant"} \X {locations[l].restaurant} \X Bots,
                   {<<"get_location_bot", l>>})

(* "its presence in the table does not affect security" (auth.py:465): a   *)
(* revoked token that a purge has forgotten is accepted again, but only    *)
(* within the second in which it expires.                                  *)
RevokedStaysOut ==
  \A s \in loggedOut : decode_token(s) => now \div 2 = sessions[s].exp
=============================================================================
