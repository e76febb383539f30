---------------------------- MODULE MC_GpsReceiver ----------------------------
(* Two interface names, an IPv4 multicast, an IPv4 unicast and an IPv6     *)
(* multicast address, ports at and around the range limits, and two fixes. *)
EXTENDS GpsReceiver

MC_Default4 == [family |-> 4, multicast |-> TRUE, id |-> "224.0.0.224"]
MC_Default6 == [family |-> 6, multicast |-> TRUE, id |-> "FF02:0:0:0:0:0:0:1"]
MC_Addresses ==
    { [family |-> 4, multicast |-> TRUE,  id |-> "m4"],
      [family |-> 4, multicast |-> FALSE, id |-> "u4"],
      [family |-> 6, multicast |-> TRUE,  id |-> "m6"] }
MC_NotANumber == -1

(* Three parameters per configuration file. *)
MC_ParamBound == Len(added) + (IF last_addr = None THEN 0 ELSE 1)
                 + (IF last_port = NoPort THEN 0 ELSE 1) <= 3
==============================================================================
