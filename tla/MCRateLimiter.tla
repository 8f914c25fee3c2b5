--------------------------- MODULE MCRateLimiter ---------------------------
(* Two rules, as for a user and for an address, for the TLC run of         *)
(* RateLimiter.                                                            *)
EXTENDS RateLimiter

MCLimits == <<3, 2>>
=============================================================================
