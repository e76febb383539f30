----------------------------- MODULE GpsReceiver -----------------------------
(***************************************************************************)
(* The gpsreceiver plugin (src/lib/gpsreceiver/src): configured through    *)
(* GpsRecConfig, started by init_gpsrec (gpsreceiver.c), which checks the  *)
(* configuration, initialises the NMEA parser and creates one multicast    *)
(* receive socket per configured interface (create_receive_interface,      *)
(* recinterfaces.c), then fed NMEA packets by the olsrd scheduler through  *)
(* packet_received_from_gps, and stopped by close_gpsrec.                  *)
(*                                                                         *)
(* A socket is named by the interface it is created for: each interface is *)
(* configured at most once, so it has at most one.  open holds the         *)
(* sockets that are open, registered those add_olsr_socket handed to the   *)
(* scheduler, list the names in the non_olsr_interfaces list, head first.  *)
(* create_receive_socket either succeeds, fails at socket(), or fails      *)
(* after it (setsockopt, bind, the interface address or the multicast     *)
(* join) and closes the socket at its bail label.  olsr_malloc never       *)
(* returns NULL in olsrd and get_gps_interface_name never returns NULL,    *)
(* so those branches of the loop are left out.                             *)
(***************************************************************************)
EXTENDS GpsRecConfig

CONSTANTS
    Fixes     \* the positions nmea_parse can deliver from a packet

VARIABLES
    pc,                 \* "config", "init", "create", "running", "failed",
                        \* "closed", or "unloaded" (a parameter was rejected)
    parser,             \* nmea_parser: "zero" (static), "ready", "destroyed"
    count,              \* the loop counter of create_receive_interface
    failed_interfaces,
    list, open, registered,
    reported            \* the last position passed to lq_gps_lite_update_position

rec_vars == <<pc, parser, count, failed_interfaces, list, open, registered, reported>>
vars == <<config_vars, rec_vars>>

NoFix == "nofix"

-----------------------------------------------------------------------------
RecInit ==
    /\ Init
    /\ pc = "config"
    /\ parser = "zero"
    /\ count = 0
    /\ failed_interfaces = 0
    /\ list = <<>> /\ open = {} /\ registered = {}
    /\ reported = NoFix

(* The plugin loader hands every parameter to its setter, in order. *)
Configure ==
    /\ pc = "config"
    /\ ConfigNext
    /\ UNCHANGED rec_vars

(* With all parameters set, olsrd_plugin_init calls init_gpsrec; a        *)
(* rejected parameter stops the loading of the plugin before.             *)
LoadPlugin ==
    /\ pc = "config"
    /\ pc' = IF param_error THEN "unloaded" ELSE "init"
    /\ UNCHANGED <<config_vars, parser, count, failed_interfaces, list, open,
                   registered, reported>>

(* Mutant: the walk of close_receive_interfaces stops after the head. *)
CloseReceiveInterfaces_head_only ==
    LET gone == IF list = <<>> THEN {} ELSE {Head(list)} IN
    /\ open' = open \ gone
    /\ registered' = registered \ gone
    /\ list' = <<>>

(* close_receive_interfaces: every socket of the list is removed from the *)
(* scheduler (its handler is set) and closed, and the list emptied.        *)
CloseReceiveInterfaces ==
    LET gone == ToSet(list) IN
    /\ open' = open \ gone
    /\ registered' = registered \ gone
    /\ list' = <<>>

(* close_gpsrec: destroy the parser, then close the receive interfaces. *)
CloseGpsrec ==
    /\ parser' = "destroyed"
    /\ CloseReceiveInterfaces

(* check_config: at least one receive interface is configured. *)
check_config == gps_interfaces # <<>>

(* init_gpsrec up to the loop of create_receive_interface: check_config   *)
(* fails without interfaces (goto error: close_gpsrec); nmea_parser_init  *)
(* may fail (return false, nothing to clean up); otherwise                  *)
(* create_receive_interface reads get_gps_addr, which sets the default     *)
(* address when none was configured, and the interface count.             *)
init_gpsrec ==
    /\ pc = "init"
    /\ \/ /\ ~check_config
          /\ CloseGpsrec
          /\ pc' = "failed"
          /\ UNCHANGED <<config_vars, count>>
       \/ /\ check_config
          /\ pc' = "failed"
          /\ UNCHANGED <<config_vars, parser, count, list, open, registered>>
       \/ /\ check_config
          /\ parser' = "ready"
          /\ gps_addr' = IF is_gps_addr_set THEN gps_addr
                         ELSE [ip |-> DefaultAddr, port |-> GPSREC_GPS_PORT_DEFAULT]
          /\ is_gps_addr_set' = TRUE
          /\ count' = Len(gps_interfaces)
          /\ pc' = "create"
          /\ UNCHANGED <<gps_interfaces, param_error, added, last_addr, last_port,
                         list, open, registered>>
    /\ UNCHANGED <<failed_interfaces, reported>>

(* The results of create_receive_socket: a socket, -1 because socket()     *)
(* failed, or -1 after the socket was closed at bail because setsockopt,  *)
(* bind, get_ipv4_addr or the multicast join failed.                       *)
SocketOutcomes == {"ok", "no_socket", "bail"}

(* One pass of the while (count--) loop, for gps_interfaces[count]       *)
(* (0-based): create_receive_socket, then add_olsr_socket and the append *)
(* to the list, or failed_interfaces++ and free.                          *)
CreateReceiveSocket(outcome) ==
    LET name == gps_interfaces[count] IN
    /\ pc = "create"
    /\ count > 0
    /\ count' = count - 1
    /\ \/ /\ outcome = "ok"
          /\ open' = open \cup {name}
          /\ registered' = registered \cup {name}
          /\ list' = Append(list, name)
          /\ UNCHANGED failed_interfaces
       \/ /\ outcome \in {"no_socket", "bail"}
          /\ failed_interfaces' = failed_interfaces + 1
          /\ UNCHANGED <<open, registered, list>>
    /\ UNCHANGED <<config_vars, pc, parser, reported>>

(* The end of create_receive_interface and of init_gpsrec: success when   *)
(* no interface failed, else goto error: close_gpsrec.                    *)
CreateDone ==
    /\ pc = "create"
    /\ count = 0
    /\ \/ /\ failed_interfaces = 0
          /\ pc' = "running"
          /\ UNCHANGED <<parser, list, open, registered>>
       \/ /\ failed_interfaces > 0
          /\ CloseGpsrec
          /\ pc' = "failed"
    /\ UNCHANGED <<config_vars, count, failed_interfaces, reported>>

(* packet_received_from_gps on the socket of interface n: a packet that   *)
(* cannot be received, is shorter than 3 bytes, does not start with "$GP"  *)
(* or has no fix (smask == GPNON) changes nothing; any other hands its     *)
(* sanitised position f to lq_gps_lite_update_position.                    *)
packet_received_from_gps(n, f) ==
    /\ pc = "running"
    /\ n \in registered
    /\ reported' = f
    /\ UNCHANGED <<config_vars, pc, parser, count, failed_interfaces, list,
                   open, registered>>

(* close_gpsrec at the unloading of a running plugin. *)
close_gpsrec ==
    /\ pc = "running"
    /\ CloseGpsrec
    /\ pc' = "closed"
    /\ UNCHANGED <<config_vars, count, failed_interfaces, reported>>

Next ==
    \/ Configure
    \/ LoadPlugin
    \/ init_gpsrec
    \/ \E o \in SocketOutcomes : CreateReceiveSocket(o)
    \/ CreateDone
    \/ \E n \in IfNames, f \in Fixes : packet_received_from_gps(n, f)
    \/ close_gpsrec

Spec == RecInit /\ [][Next]_vars

-----------------------------------------------------------------------------
RecTypeOK ==
    /\ ConfigTypeOK
    /\ pc \in {"config", "init", "create", "running", "failed", "closed", "unloaded"}
    /\ parser \in {"zero", "ready", "destroyed"}
    /\ count \in 0 .. MAX_INTERFACES
    /\ failed_interfaces \in 0 .. MAX_INTERFACES
    /\ list \in Seq(IfNames)
    /\ open \subseteq IfNames /\ registered \subseteq IfNames
    /\ reported \in Fixes \cup {NoFix}

(* No receive socket leaks or dangles, whichever sockets fail: every open  *)
(* socket is in the list and registered with the scheduler and vice versa, *)
(* no interface has two, a running plugin has one per configured           *)
(* interface, and once init_gpsrec has failed (after some sockets were     *)
(* created: recinterfaces.c lines 262-266, gpsreceiver.c line 183) or the *)
(* plugin is closed, none is left open or registered.                      *)
SocketsAccounted ==
    /\ ToSet(list) = open
    /\ registered = open
    /\ Len(list) = Cardinality(open)
    /\ pc = "running" => open = ToSet(gps_interfaces)
    /\ pc \in {"failed", "closed", "unloaded"} => open = {}
=============================================================================
