------------------------------ MODULE MCBackoff ------------------------------
(* Two workers; backoffs of one, two and four ticks, a RetryAfter of three, and a *)
(* limiter of ten requests in a window of two ticks, so that every level allows   *)
(* another number of requests.                                                    *)
EXTENDS Backoff
==============================================================================
