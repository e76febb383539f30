---------------------------- MODULE GpsRecConfig ----------------------------
(***************************************************************************)
(* The parameters of the gpsreceiver plugin                                *)
(* (src/lib/gpsreceiver/src/configuration.c): the receive interfaces and   *)
(* the multicast address and port, set by the olsrd core's plugin loader   *)
(* calling add_gps_interface, set_gps_addr and set_gps_port once per       *)
(* configured parameter, in the order of the configuration file, and read *)
(* through get_gps_addr, which sets the defaults lazily.                   *)
(*                                                                         *)
(* Abstractions.  A parameter string is an element of a small set: an      *)
(* interface name (or one longer than IFNAMSIZ), an address record (its    *)
(* family, whether it is multicast, and an identity), NotAnAddress, and a  *)
(* port given by the number strtoul would return (NotANumber for a string *)
(* it rejects).  Ports are kept in host byte order; the code converts with *)
(* htons on every store and ntohs on no read that matters here.            *)
(***************************************************************************)
EXTENDS Integers, SequencesExt

CONSTANTS
    IfNames,        \* interface names of at most IFNAMSIZ characters
    LongIfName,     \* a name longer than IFNAMSIZ
    MAX_INTERFACES,
    Addresses,      \* parseable address strings: [family, multicast, id]
    NotAnAddress,   \* a string inet_pton rejects for both families
    PortValues,     \* numbers strtoul may return
    NotANumber,     \* a string strtoul does not convert entirely (an
                    \* integer outside 0 .. 65535, so that it compares)
    IpVersion,      \* olsr_cnf->ip_version: 4 or 6
    Default4,       \* the address GPSREC_GPS_ADDR_4_DEFAULT parses to
    Default6        \* the address GPSREC_GPS_ADDR_6_DEFAULT parses to

GPSREC_GPS_PORT_DEFAULT == 2240
None == [family |-> 0, multicast |-> FALSE, id |-> "none"]
NoPort == 0

VARIABLES
    gps_interfaces,   \* the names in gps_interfaces[0 .. gps_interfaces_count-1]
    gps_addr,         \* [ip, port]
    is_gps_addr_set,
    param_error,      \* a setter has returned an error
    added,            \* history: names add_gps_interface accepted, in order
    last_addr,        \* history: the last address set_gps_addr accepted
    last_port         \* history: the last port set_gps_port accepted

config_vars == <<gps_interfaces, gps_addr, is_gps_addr_set, param_error,
                 added, last_addr, last_port>>

-----------------------------------------------------------------------------
DefaultAddr == IF IpVersion = 4 THEN Default4 ELSE Default6

(* The static gps_addr before any setter: all zero. *)
ZeroAddr == [ip |-> None, port |-> 0]

(* is_multicast: IN_MULTICAST or IN6_IS_ADDR_MULTICAST of the address. *)
IsMulticast(a) == a.multicast

(* read_uint16: strtoul converted the whole string to a value that fits  *)
(* in 16 bits.                                                            *)
ReadUint16(v) == v # NotANumber /\ v <= 65535

(* Mutant: the stored port is not carried over to a new address. *)
ReadIpAddr_default_port(a) == [ip |-> a, port |-> GPSREC_GPS_PORT_DEFAULT]

(* read_ip_addr: the parsed address, taking the port already stored when *)
(* an address is set, the default port otherwise.                         *)
ReadIpAddr(a) ==
    [ip |-> a, port |-> IF is_gps_addr_set THEN gps_addr.port ELSE GPSREC_GPS_PORT_DEFAULT]

(* set_gps_addr(value) for an address that parses: store it, then reject  *)
(* it if it is not multicast (the stored value stays).                     *)
SetGpsAddr(a) ==
    /\ gps_addr' = ReadIpAddr(a)
    /\ is_gps_addr_set' = TRUE
    /\ param_error' = (param_error \/ ~IsMulticast(a))
    /\ last_addr' = IF IsMulticast(a) THEN a ELSE last_addr

Init ==
    /\ gps_interfaces = <<>>
    /\ gps_addr = ZeroAddr
    /\ is_gps_addr_set = FALSE
    /\ param_error = FALSE
    /\ added = <<>>
    /\ last_addr = None
    /\ last_port = NoPort

(* is_gps_interface over the names configured so far. *)
IsGpsInterface(v) == \E i \in 1 .. Len(gps_interfaces) : gps_interfaces[i] = v

add_gps_interface(v) ==
    /\ \/ /\ Len(gps_interfaces) >= MAX_INTERFACES
          /\ param_error' = TRUE
          /\ UNCHANGED <<gps_interfaces, added>>
       \/ /\ Len(gps_interfaces) < MAX_INTERFACES
          /\ v = LongIfName
          /\ param_error' = TRUE
          /\ UNCHANGED <<gps_interfaces, added>>
       \/ /\ Len(gps_interfaces) < MAX_INTERFACES
          /\ v # LongIfName
          /\ gps_interfaces' = IF IsGpsInterface(v) THEN gps_interfaces
                               ELSE Append(gps_interfaces, v)
          /\ added' = Append(added, v)
          /\ UNCHANGED param_error
    /\ UNCHANGED <<gps_addr, is_gps_addr_set, last_addr, last_port>>

set_gps_addr(v) ==
    /\ \/ /\ v = NotAnAddress
          /\ param_error' = TRUE
          /\ UNCHANGED <<gps_addr, is_gps_addr_set, last_addr>>
       \/ /\ v # NotAnAddress
          /\ SetGpsAddr(v)
    /\ UNCHANGED <<gps_interfaces, added, last_port>>

(* get_gps_addr, as used by set_gps_port: set the default address first  *)
(* when none is set, then store the port in it.                           *)
GpsAddrWithPort(p) ==
    [ip |-> IF is_gps_addr_set THEN gps_addr.ip ELSE DefaultAddr, port |-> p]

(* Mutant: a port of 0 passes the range check. *)
set_gps_port_zero_ok(v) ==
    /\ \/ /\ ~ReadUint16(v)
          /\ param_error' = TRUE
          /\ UNCHANGED <<gps_addr, is_gps_addr_set, last_port>>
       \/ /\ ReadUint16(v)
          /\ gps_addr' = GpsAddrWithPort(v)
          /\ is_gps_addr_set' = TRUE
          /\ last_port' = v
          /\ UNCHANGED param_error
    /\ UNCHANGED <<gps_interfaces, added, last_addr>>

set_gps_port(v) ==
    /\ \/ /\ ~ReadUint16(v) \/ v < 1
          /\ param_error' = TRUE
          /\ UNCHANGED <<gps_addr, is_gps_addr_set, last_port>>
       \/ /\ ReadUint16(v) /\ v >= 1
          /\ gps_addr' = GpsAddrWithPort(v)
          /\ is_gps_addr_set' = TRUE
          /\ last_port' = v
          /\ UNCHANGED param_error
    /\ UNCHANGED <<gps_interfaces, added, last_addr>>

(* The plugin loader stops at the first parameter that returns an error. *)
ConfigNext ==
    /\ ~param_error
    /\ \/ \E v \in IfNames \cup {LongIfName} : add_gps_interface(v)
       \/ \E v \in Addresses \cup {NotAnAddress} : set_gps_addr(v)
       \/ \E v \in PortValues \cup {NotANumber} : set_gps_port(v)

ConfigSpec == Init /\ [][ConfigNext]_config_vars

-----------------------------------------------------------------------------
ConfigTypeOK ==
    /\ gps_interfaces \in Seq(IfNames)
    /\ gps_addr \in [ip : Addresses \cup {Default4, Default6, None}, port : 0 .. 65535]
    /\ is_gps_addr_set => gps_addr.port \in 1 .. 65535
    /\ param_error \in BOOLEAN

(* The names add_gps_interface accepted, each once, in the order of their *)
(* first addition.                                                         *)
FirstOccurrences(s) ==
    FoldLeft(LAMBDA acc, x : IF Contains(acc, x) THEN acc ELSE Append(acc, x), <<>>, s)

(* Whatever the order of the parameters in the configuration file, as     *)
(* long as none was rejected the plugin ends up with every interface named *)
(* once, in configuration order, and with the address and the port that    *)
(* were given last, or their defaults: a port given before the address     *)
(* survives the address (read_ip_addr, lines 143-147), and an address set  *)
(* lazily by set_gps_port (get_gps_addr, lines 238-244) is the default.     *)
ConfigIsLastGiven ==
    ~param_error =>
        /\ gps_interfaces = FirstOccurrences(added)
        /\ is_gps_addr_set =>
              /\ gps_addr.ip = IF last_addr = None THEN DefaultAddr ELSE last_addr
              /\ gps_addr.port = IF last_port = NoPort THEN GPSREC_GPS_PORT_DEFAULT
                                 ELSE last_port
=============================================================================
