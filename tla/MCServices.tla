------------------------------ MODULE MCServices ------------------------------
(* Two background threads, one logger, two messages and two jobs.              *)
EXTENDS Services

CONSTANTS w1, w2

MCWorkers == {w1, w2}
MCClients == {w1, w2, Main}
=============================================================================
