------------------------------ MODULE RateLimit ------------------------------
(***************************************************************************)
(* The counters of RateLimitMiddleware (boltchats-api, by address) and of  *)
(* check_message_rate_limit (boltchats-ws, by user): INCR, EXPIRE when the *)
(* answer is 1, refuse when it is over the limit.  The two Redis calls are *)
(* two steps, the caller may stop between them.  A counter is a number and *)
(* whether its key expires; counts above Limit + 1 are not told apart.     *)
(***************************************************************************)
EXTENDS Naturals

CONSTANT Limit

Counter == [n : 0..(Limit + 1), ttl : BOOLEAN]
Fresh == [n |-> 0, ttl |-> FALSE]

\* INCR; a key that does not exist starts at 0, without expiry.
Incr(c) == [c EXCEPT !.n = IF @ > Limit THEN @ ELSE @ + 1]

\* EXPIRE follows only the first request of a window.
StartsWindow(c) == c.n = 1

Expire(c) == [c EXCEPT !.ttl = (c.n > 0)]

Within(c) == c.n <= Limit

\* The window ends: Redis deletes the key.
Elapse(c) == Fresh

\* A counter that no later request will give an expiry.
Stuck(c) == c.n > 0 /\ ~c.ttl
=============================================================================
