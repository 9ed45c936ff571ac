------------------------------ MODULE RateLimit ------------------------------
(***************************************************************************)
(* The rate limiter in front of the backend's routes                       *)
(* (backend/src/middleware/rate-limit.middleware.ts) as backend/src/index.ts*)
(* mounts it, for one client: a counter in Redis for each path, with a time *)
(* to live that the script in backend/src/services/redis-lua.ts sets with   *)
(* the first request of a window.                                          *)
(*                                                                         *)
(* Express strips the mount point from req.path, so a request to /api/p and*)
(* one to /api/admin/p count at the same key: the former at the limiter of *)
(* /api, the latter at that of /api, under another key, and then at that of*)
(* /api/admin.                                                             *)
(***************************************************************************)
EXTENDS Naturals

CONSTANTS
    PublicMax,    \* requests a window takes at the limiter of /api, 60
    AdminMax,     \* and at that of /api/admin, 20
    Window        \* the length of a window

Keys == {"/p", "/admin/p"}
Cap == PublicMax + 1      \* bound: the counter is not followed further

VARIABLES
    hits,         \* rl:<key>:<client>, 0 when absent
    ttl,          \* what is left of its window
    through       \* an admin request that has passed the first limiter

rateVars == <<hits, ttl, through>>

RateInit ==
    /\ hits = [k \in Keys |-> 0] /\ ttl = [k \in Keys |-> 0]
    /\ through = FALSE

(* The script: INCR, and EXPIRE when the key is new.  (A mutant renews the  *)
(* window with every request.)                                              *)
Renewed(k) == Window
WindowOf(k) == IF hits[k] = 0 THEN Window ELSE ttl[k]

IncrWithExpire(k) ==
    /\ hits' = [hits EXCEPT ![k] = IF @ < Cap THEN @ + 1 ELSE @]
    /\ ttl' = [ttl EXCEPT ![k] = WindowOf(k)]

(* Over the maximum the answer is 429; otherwise the request goes on.       *)
PublicRequest == IncrWithExpire("/p") /\ UNCHANGED through

AdminRequest ==
    /\ ~through
    /\ IncrWithExpire("/admin/p")
    /\ through' = (hits'["/admin/p"] <= PublicMax)

AdminLimiter ==
    /\ through
    /\ IncrWithExpire("/p")
    /\ through' = FALSE

(* Time passes; a key whose time is up is gone.                             *)
Tick ==
    /\ \E k \in Keys : ttl[k] > 0
    /\ ttl' = [k \in Keys |-> IF ttl[k] = 0 THEN 0 ELSE ttl[k] - 1]
    /\ hits' = [k \in Keys |-> IF ttl[k] = 1 THEN 0 ELSE hits[k]]
    /\ UNCHANGED through

RateNext == Tick \/ PublicRequest \/ AdminRequest \/ AdminLimiter

RateFairness == WF_rateVars(Tick)

RateSpec == RateInit /\ [][RateNext]_rateVars /\ RateFairness

-----------------------------------------------------------------------------
(* Properties *)

(* A client that is refused is let through again, though it goes on sending*)
(* requests of both kinds all the while.                                    *)
BlockedClientRecovers == \A k \in Keys : hits[k] > AdminMax ~> hits[k] = 0
==============================================================================
