------------------------ MODULE MCHmacAuthenticator ------------------------
(* TLC instances of HmacAuthenticator: the smallest settings that are safe *)
(* (HmacAuthenticator.cfg), a TTL of the threshold (NonceTTL.cfg), nonces  *)
(* at both edges of the window, and a clock that moves by half seconds.    *)
EXTENDS HmacAuthenticator

MCTimestamps == 0..9
MCNonces == {0, 1000, 1500, 3000}
MCSteps == {500}
=============================================================================
