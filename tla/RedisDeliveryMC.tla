-------------------------- MODULE RedisDeliveryMC --------------------------
(* The instance of RedisDelivery that TLC checks. *)
EXTENDS RedisDelivery
CONSTANTS o1, h1, h2, w1
=============================================================================
