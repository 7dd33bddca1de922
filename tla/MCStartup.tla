------------------------------ MODULE MCStartup ------------------------------
(***************************************************************************)
(* Two processes, which may be given different files and environments: a   *)
(* container that is replaced, an upgrade, a mistake in a setting.         *)
(***************************************************************************)
EXTENDS Startup

File(says) == [parses |-> TRUE, says |-> says]

MCFiles ==
    {File([instanceMode |-> "multi", driver |-> "postgres", writeTimeout |-> "75s", mediaSlots |-> "4"]),
     File([publishVia |-> "redis", redisMode |-> "sentinel", port |-> "9090", redact |-> "off",
           writeTimeout |-> "soon"]),
     [parses |-> FALSE, says |-> Nothing]}

MCEnvironments ==
    {Nothing,
     [instanceMode |-> "multi", driver |-> "sqlite", port |-> "8080", mediaSlots |-> "-1",
      redact |-> "True", publishVia |-> ""],
     [instanceMode |-> "cluster"]}
=============================================================================
