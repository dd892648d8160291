-------------------------- MODULE MCEntityRegistry --------------------------
(***************************************************************************)
(* An instance of EntityRegistry for TLC: two entities that may be         *)
(* registered, and presets that list nothing, or one of them beside a name *)
(* that nobody registers ("role", which a class name in a preset would do  *)
(* as well: neither has a class).                                          *)
(***************************************************************************)
EXTENDS EntityRegistry

MCKeys == {"User", "orderItem"}
MCNames == {"user", "role", "order_item", "constructor"}
MCNameOf == [k \in MCKeys |-> IF k = "User" THEN "user" ELSE "order_item"]
MCPresets == {"basic", "full", "orders"}
MCContents == {{}, {"role", "order_item"}}
=============================================================================
