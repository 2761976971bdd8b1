---------------------------- MODULE MCMonitoring ----------------------------
(***************************************************************************)
(* A small instance of Monitoring for TLC: a stock agent and another one   *)
(* with rows in the database and one admin, and an agent that is           *)
(* authorized but has no rows, as in the repository's CentralTest.         *)
(***************************************************************************)
EXTENDS Monitoring

CONSTANTS stock, client, orphan, boss

MCAdminOf == [t \in Registered |-> boss]
=============================================================================
