# TLA+ models of the olsrd GPS link-quality plugins

This directory holds TLA+ models of the GPS-aware link-quality (LQ) code of
this repository, the TLC configurations that check them, and `PROJECT.json`,
which records the runs, the mapping from every definition to the source lines
it models, the mutants that show each property can fail, the findings and the
list of hazards.

## 1. Inventory of the system

The code is single-threaded. The olsrd core calls every handler from its
packet-receive and timer callbacks, and a handler runs to completion. Nothing
here is concurrent in the threading sense. What is hard is the *order* of
calls from outside: GPS records that arrive late, twice or never; packets
processed in an order the code did not expect; counters and timestamps at
their limits; and state left behind by a previous call.

| Component | Source | State | Operations (state-changing) |
|---|---|---|---|
| pud position cache | `src/src/lq_plugin_gps_pud.c` 116-278, `.h` 59-92 | `node_position_tree` (AVL tree: main address → `lq_node_position`), `local_record` | `lq_update_gps_record_pud`, `lq_update_local_record_pud`, `lq_update_distances`, `lq_calc_dist_multiplier` (caches the multiplier as a side effect of a cost read) |
| pud LQ handler | `lq_plugin_gps_pud.c` 280-447 | per link: `struct lq_gps_pud` {lq, nlq, quickstart, addr}; `link->linkcost` | `lq_packet_loss_worker_gps_pud`, `lq_memorize_foreign_hello_gps_pud`, `lq_copy_link2tc_gps_pud`, `lq_clear_gps_pud`, `lq_calc_cost_gps_pud` |
| lite LQ handler | `src/src/lq_plugin_gps_lite.c`, `.h` | `my_position` {position, last_gps_update}, `buffered_position` (one shared slot), per link `struct lq_link_gps_lite` {lq, nlq, mlq, quickstart, nposition, last_gps_update, last_multiplier_calc, distance, speed} | `lq_gps_lite_update_position`, `lq_deserialize_global_gps_lite`, `lq_memorize_foreign_hello_gps_lite` → `lq_set_dist_multiplier`, `lq_packet_loss_worker_gps_lite` with `lq_calc_cost_gps_lite`, copy/clear |
| cost function | `lq_calc_cost_gps_lite` (lite 254-273), `lq_calc_cost_gps_pud` (pud 280-300) | none (pure) | saturation below `MINIMAL_USEFUL_LQ`, float → `olsr_linkcost` conversion, clamp, 0 → 1 |
| wire codec | serialize/deserialize in both files | none (pure) | 8-bit quantisation of lq/nlq, raw `mlq` float or main address, padding to 4 bytes; the wire sizes each handler publishes |
| GPS receiver plugin | `src/lib/gpsreceiver/src/gpsreceiver.c` | NMEA parser, `gpsrec_error_use_syslog` | `init_gpsrec`, `close_gpsrec`, `packet_received_from_gps` → `lq_gps_lite_update_position` |
| receiver configuration | `configuration.c` | `gps_interfaces[32]`, count, `gps_addr`, `is_gps_addr_set` | `add_gps_interface`, `set_gps_addr`, `set_gps_port`, `get_gps_addr` (sets defaults lazily), `check_config` |
| receive interfaces | `recinterfaces.c` | list `non_olsr_interfaces_head` / `last_non_olsr_interface` | `create_receive_interface`, `close_receive_interfaces` |
| debug buffered strings | `src/src/debug.c` | linked list of strings with a print countdown | `olsr_buffered_print(f)`, `olsr_print_buffered_strings` |
| jsoninfo helpers | `src/lib/jsoninfo/src/olsrd_jsoninfo_helpers.c` | `entrynumber[16]`, `currentjsondepth` | `abuf_json_mark_output`, `abuf_json_mark_object`, the value writers, `get_string_from_file`, `read_uuid_from_file` |

How they interact. The olsrd core (not in this repository) calls the handler
table (`lq_etx_gps_pud_handler`, `lq_etx_gps_lite_handler`): per received
HELLO it deserializes the global record (lite: into `buffered_position`) and
the LQ pairs, then calls `memorize_foreign_hello`; per HELLO interval it calls
`packet_loss_worker`, which ages `lq`, recomputes `link->linkcost` and signals
a cost change. The pud cache is fed by the PUD plugin (not in this
repository) through `lq_update_gps_record_pud` and `lq_update_local_record_pud`
and is read by `lq_calc_cost_gps_pud` through `avl_find` on the link's `addr`.
The GPS receiver plugin feeds the lite variant's own position through
`lq_gps_lite_update_position`. The MID table resolves interface addresses to
main addresses.

Hard behaviours, per component, and what makes the component correct:

* pud cache: records per node arrive reordered, duplicated or lost and must be
  admitted only when strictly newer; aliases must be resolved before the
  self-check; distances are refreshed at most once per time unit, from the
  later of the two records; the multiplier is cached per `last_update_time`
  and divides by `delta_t`; all times are `uint32_t` and `time + 1` wraps.
  Correct means: the tree holds the newest record of every other node; the
  distance is stale only within a time unit; the cached multiplier is finite
  and matches the current distances.
* lite handler: `buffered_position` is shared between packets; the clock
  `now_times` wraps; the speed divides by an elapsed time. Correct means: a
  link's position is the one its neighbour sent; the elapsed time is never 0;
  the speed stays within the ±25 clamp; quickstart lasts exactly
  `LQ_QUICKSTART_STEPS` outcomes.
* cost: never 0, saturated below the threshold, monotone; the float-to-integer
  conversion must not overflow before the clamp.
* codec: declared sizes equal the bytes written and read; quantisation error.
* receiver/config/interfaces: a failed initialisation must release exactly
  what was acquired; configuration order must not change the result.
* debug buffer / jsoninfo: each string printed a fixed number of times;
  commas only between entries, nesting within bounds.

## 2. Plan

Modules, in order of importance (the first is done):

1. `LqGpsPud` (done) - the pud position cache. `MC_LqGpsPud` instantiates it.
2. `LqGpsLite` (done) - own position, `buffered_position`, per-link state,
   `lq_set_dist_multiplier`, and the packet loss worker with quickstart and
   the cost it stores, with a wrapping `now_times` clock; one HELLO is
   received as one step (deserialize, then memorize).
3. `LqLink` (done) - one end of a pud link composed with the position
   cache (`Cache == INSTANCE LqGpsPud`): packet loss worker with quickstart
   and the cost read through the cache (`lq_calc_dist_multiplier` on the
   peer's entry), the HELLO pair's quantisation, memorize (with the peer's
   address) and clear; cache reports interleave with the link's steps.
4. `LqCost` (done) - pure operators checked over bounded rational inputs
   against the spec's `combine_cost` (saturation, never 0, monotone).
5. `PositionStore` (done) - an abstract specification of the cache (latest record per
   node); `LqGpsPud` shown to refine it through a refinement mapping.
6. `GpsReceiver` (with `recinterfaces.c`) and `GpsRecConfig` (done).
7. `DebugBuffer` (done), `JsonInfo` (done).
8. `WireCodec` and `WireTransfer` (done) - the serializers and
   deserializers of both plugins over bytes, with the core's cursor loop.

## 3. What is modelled

### `LqGpsPud` (src/src/lq_plugin_gps_pud.c)

State: `node_position_tree` is a function from main address to a record with
the fields of `struct lq_node_position`; `local_record` is the own
`lq_gps_record`; `newest_reported` is a history variable (not in the code)
recording, per main address, the first delivered record among those with the
greatest timestamp, used only by a property.
`Init` is the static initialiser of `local_record` together with
`lq_initialize_gps_pud`, whose `avl_init` leaves the tree empty.

Actions: `lq_update_gps_record_pud(a, r)` for every address `a` and report `r`
(disjuncts `CreatePosition`, `RefreshPosition`, `DiscardPosition`),
`lq_update_local_record_pud(r)` (which walks the whole tree, as the code
does), and `lq_calc_dist_multiplier(k)`, the side effect of a cost read; its
per-entry update is the operator `CalcDistMultiplier`, which `LqLink` calls
from inside its cost computation, as `lq_calc_cost_gps_pud` does.
`lq_update_distances` is an operator used inside those actions, as in the code.

Abstractions: a GPS fix is an element of `Pos` and `distance_lineofsight` the
operator `Distance` (in the MC module the fixes lie on a line); the multiplier
`alpha*expf(delta_d/delta_t*beta)` is the pair it is computed from, or
`NonFinite` when `delta_t` is 0; the memset value is `ZeroMultiplier`.
`olsr_malloc` never returns NULL in olsrd (it exits), so that branch is left
out. `uint32_t` time fields keep their arithmetic modulo `2^TimeBits`.

### `LqGpsLite` (src/src/lq_plugin_gps_lite.c)

State: `now_times` (the core's `uint32_t` millisecond clock, at width
`ClockBits`), `my_position`, `buffered_position`, and `link`, a function from
neighbour to the fields of `struct lq_link_gps_lite` that this code writes
(`lq`, `nlq`, `mlq`, `quickstart`, `nposition`, `last_gps_update`,
`last_multiplier_calc`, `distance`, `speed`), and `linkcost`, the
`link->linkcost` the loss worker stores. `ticks` counts clock steps and bounds the run;
`neighbour_position` is what each neighbour serializes. `last_fix`,
`fix_accepted_at`, `last_hello` and `hello_accepted_at` are history
variables: the last report delivered and the tick at which the code last took
one (for links, observed as a change of `last_gps_update`); `outcomes` and
`last_alpha` count a link's packet outcomes since its clear and record the
alpha of the last one.

Actions: `Tick`; `lq_gps_lite_update_position(p)` (the GPS receiver's call);
`NeighbourMoves`; `ReceiveHelloListed(n, b)`, the core's processing of one
HELLO that carries our LQ pair with byte `b` (`lq_deserialize_global_gps_lite`
into `buffered_position`, `lq_deserialize_lq_pair_gps_lite`,
`lq_memorize_foreign_hello_gps_lite` and, when `now_times` is past the link's
last update, `lq_set_dist_multiplier`); `ReceiveHelloUnlisted(n)`, a HELLO
without our pair (`nlq = 0`); `lq_clear_link_gps_lite(n)`;
`lq_packet_loss_worker_gps_lite(n, lost, llm)`, one packet outcome: alpha is
`LQ_QUICKSTART_AGING` while `quickstart < LQ_QUICKSTART_STEPS` (which it
advances), else `lq_aging`; `lq *= 1 - alpha`, plus
`alpha * llm / 65536` when the packet was received (`AgedLite`); then
`lq_calc_cost_gps_lite` of the record (`LiteCost`) into `linkcost`.

Abstractions: floats `speed` and `mlq` are kept as their class (`Zero`/`One`,
another finite value, `NaN`); the instantaneous speed is computed exactly from
the integer distance change and elapsed milliseconds, so the ±25 clamp and the
0/0 case are decided exactly. `nlq` is the received byte. The core runs one
HELLO to completion, so `buffered_position` is always written just before it
is read; links do not share any other state, so one neighbour suffices and
two multiply the state space by the product of two independent links.
`lq` is an exact rational (module `ExactRational`, shared with `LqLink`);
float rounding is not modelled. `LiteCost` gives the truncated quotient
`1024 / (lq * nlq)` when `mlq` is exactly 1.0, the value `Scaled` (-1, no
real cost) for another finite `mlq`, and 1 for a NaN `mlq`, as an x86-64
build converts it. The copies to the neighbour and TC views and
`lq_clear_gps_lite` are `memcpy`/`memset` into records this plugin never
reads back, and are left out.

### `PositionStore` (spec section 4.3) and the refinement

`PositionStore` is what the cache promises, written from the spec, not the
code: a function `store` from remote main addresses to records, created for
any address but our own and replaced only by a record with a strictly
greater timestamp, and an `own` record replaced likewise; timestamps are
plain naturals (a monotonic clock). `LqGpsPud` instantiates it as
`Abstract` with the refinement mapping `store <- [k \in DOMAIN
node_position_tree |-> node_position_tree[k].gps_record]` and `own <-
local_record`; the distance fields and the multiplier cache are invisible to
it, so `lq_calc_dist_multiplier` and discarded reports are stuttering steps.
`RefinesPositionStore == Abstract!Spec` is checked as a `PROPERTY` of
`pud_cache`. It covers the own record too, which `CacheHoldsLatestReport`
does not: a `+ 1` that wraps at line 213 would let an older own fix replace
a newer one.

### `LqCost` (both cost functions)

`lq_calc_cost_gps_lite` and `lq_calc_cost_gps_pud` share one body,
`CostOutcomes(l, n, m)`: the `MINIMAL_USEFUL_LQ` check, the product
`1/(lq*nlq) * m * 1024` converted to `olsr_linkcost`, the clamp to
`LINK_COST_BROKEN` and the 0 → 1 rule. They differ in where `m` comes from:
lite takes the record's `mlq`, pud takes the cache entry's multiplier or 1.0
when `avl_find` returns NULL. lq and nlq are wire bytes (`lq = b/255`). The
state is the input and result of the last computation, so the monotonicity
of the cost is an action property over two consecutive computations.
Arithmetic is exact (rounding of `float` is not modelled). The conversion of a
NaN or infinite float is undefined in C; the model takes the x86-64 result
(`cvttss2si` gives 2^63, whose low 32 bits are 0). `MINIMAL_USEFUL_LQ` (0.1)
and `LINK_COST_BROKEN` (2^22) come from the olsrd core and are constants.
TLC's integers stop at 2^31, so finite products beyond 2^32 (which would wrap
modulo 2^32 on x86-64) are not explored; the non-finite multipliers reach the
same undefined conversion.

### `DebugBuffer` (src/src/debug.c)

`nodes` is the list of `struct buffered_string`, `nodes[1]` being the static
head `hook_buffered_strings`; a node holds a string number (or `NULL`) and its
`uint8_t` countdown, decremented modulo 256. `olsr_buffered_print` (the
target of `olsr_buffered_printf` as well) walks to the first node without a
string, appending one when it runs off the end; `olsr_buffered_memdump` also
records whether any byte it formats lies outside its allocation;
`olsr_print_buffered_strings` prints every string once, frees a string whose
countdown reaches 0, resets the head's countdown and unlinks freed later
nodes. `printed` (history) counts the prints of each string. The printing is
weakly fair: the core calls it on every pass of its change processing.
`NUMBER_OF_PRINTS` is 3 in the run instead of 8; with 4 strings that is
enough for the head to be freed and reused while later nodes still hold
strings at other countdowns.

### `GpsRecConfig` (src/lib/gpsreceiver/src/configuration.c)

The plugin loader of the olsrd core (not in this repository) calls the three
setters of `plugin_parameters` (`olsrd_plugin.h`) once per parameter, in the
order of the configuration file, and stops at the first that returns an
error. A parameter string is abstracted to what its parsing yields: an
interface name of at most `IFNAMSIZ` characters or a longer one; an address
record (family, multicast or not, identity) or `NotAnAddress`; a port number
or `NotANumber`. State: `gps_interfaces` (the array and its count as a
sequence), `gps_addr` as `[ip, port]`, `is_gps_addr_set`, `param_error`, and
the histories `added`, `last_addr`, `last_port`. `set_gps_addr` stores the
address (with the port already stored, `read_ip_addr` lines 143-147) before
rejecting a non-multicast one; `set_gps_port` rejects 0 and values over
65535 and otherwise sets the port on `get_gps_addr()`, which first installs
the default address when none is set. Sockets store the port in network byte
order; ports are kept in host order since every store converts and no
property reads the raw bytes.

### `GpsReceiver` (gpsreceiver.c, recinterfaces.c)

Extends `GpsRecConfig` with the plugin's life: `pc` runs through `config`,
`init`, `create` (the loop of `create_receive_interface`, one step per
interface, from the last configured to the first), then `running`, `failed`,
`closed` or `unloaded` (a parameter was rejected). A socket is named by its
interface (each is configured once); `open`, `registered` (handed to the
scheduler by `add_olsr_socket`) and `list` (the `non_olsr_interfaces` list)
are tracked separately, so that a socket opened and not listed, or listed
and not closed, shows. `create_receive_socket` is one of three outcomes: a
socket, `socket()` failing, or a later failure that closes the socket at
`bail`. `nmea_parser_init` may fail; nmealib is external, and a packet either
yields a fix passed to `lq_gps_lite_update_position` or changes nothing.
`init_gpsrec`'s error path runs `close_gpsrec`, which destroys the parser
(also the never-initialised one when `check_config` fails) and closes the
list.

### `JsonInfo` (src/lib/jsoninfo/src/olsrd_jsoninfo_helpers.c)

`entrynumber[]` (over depths `0 .. MaxDepth`) and `currentjsondepth` are the
state; the text written is abstracted to its structural tokens (`<` `>` for
the output braces, `{` `[` `}` `]`, `,` and `v` for a key/value pair), and
each step records the token written before it (`before`) and the tokens it
appends (`step`), so the check needs no growing history. The helpers that
write one pair (`abuf_json_boolean`, `_string`, `_int`, `_float`,
`_ip_address`) share one action. `abuf_json_sys_class_net` reads the file
through `GetStringFromFile`, which gives for each outcome of `open`/`read`
the indices the code writes a NUL at and whether a non-empty string remains.
The callers are the jsoninfo plugin (not in this repository); the model lets
them call the helpers in any order their asserts allow, closing containers
with the kind they were opened with, and reset at any time (a request that
ends early). `read_uuid_from_file` is one action over a uuid file given as
its bytes (an ordinary character, a newline or a NUL) or as a failed
`fopen`: the `memset`, `fread` of at most `sizeof(uuid) - 1` bytes
(`Fread`), the terminator and the `strchr` cut at the first newline of the
string (`CutAtNewline`, `CString`), and the return value. `uuid_read`
records the last file read and the result, for `UuidIsFirstLine`.

### `LqLink` (src/src/lq_plugin_gps_pud.c, link handler)

`rec` is the `struct lq_gps_pud` node `Me` keeps for its link to `Peer`
(`lq`, `nlq` as exact rationals, `quickstart`, and the peer's `addr` the
memorize copies), `linkcost` the `link->linkcost` the worker stores. The
position cache of `Me` is composed in as `Cache == INSTANCE LqGpsPud WITH
Self <- Me`, sharing its variables; `CacheStep` is any cache step (a
report, the own record, or `lq_calc_dist_multiplier`) and leaves the link
alone. `lq_packet_loss_worker_gps_pud` is one action: the alpha choice and
`quickstart++` (lines 407-412), the moving average (414-417) and the cost:
`CostLookup` finds the entry at `rec.addr` and runs
`Cache!CalcDistMultiplier` on it (pud lines 267-291, which also writes the
entry back), and `CostOf` scales and clamps. `HelloReceived` is one HELLO of
the peer, whose `lq` is taken from `PeerLqs` (every `lq` the peer's own
worker can reach in `MaxOutcomes` outcomes, `AgedRecords`): the peer's
pair goes through `Wire == INSTANCE WireCodec`: the peer's
`lq_serialize_hello_lq_pair_gps_pud` writes it for `IpVersion`, our
`lq_deserialize_hello_lq_pair_gps_pud` reads it back (the byte truncates
`lq * 255`, the read divides by 255), and `lq_memorize_foreign_hello_gps_pud` copies
it and the peer's address into our record, or sets `nlq` to 0 when the HELLO
lists no pair for us. `used_mult` and `expected_mult` record the multiplier
the last cost used and the one the peer's current entry gives.
`lq_clear_gps_pud` is the `memset`. The histories `outcomes` and `last_alpha` exist only for the
properties. The TC copy is a `memcpy` and is left out.

### `WireCodec` and `WireTransfer` (serializers of both plugins)

`WireCodec` is pure. A byte is `<<"u8", b>>`, or one byte of a value the
code copies with `memcpy` (`Image(v, n)`: the main address, a `float` mlq,
a `gps_position`), or `Stale`, what the core's buffer held before. The pud
HELLO and TC serializers (pud 302-323, 354-375) write lq and nlq bytes, the
main address (4 or 16 bytes) and the padding to a multiple of 4, and return
the count; the deserializers (325-352, 377-401) read them back and skip the
same count. The lite pair serializer (lite 275-285) writes six bytes and
returns `lqdata_size` = 8; its deserializer (287-301) skips
`lqdata_size - 2` after reading two bytes; the global record (303-315)
copies the position. `WriteMessage` and `ReadMessage` are the olsrd core's
loops, outside this repository: each calls the item's serializer at the
cursor and advances it by the count returned (spec section 4.2).
`WireTransfer` has one message built by the sender (`Transmit`, any
version and any message of `Messages`) and parsed by the receiver
(`Deliver`) as state, so that a wrong count or a misaligned read is a
violated invariant of a run. It is composed into the `cost` run by
interleaving with `LqCost` (`MC_LqCost!MCSpec`); the two share no state.

## 4. Runs

| Run | Config | Result | What it shows |
|---|---|---|---|
| `pud_cache` | `MC_LqGpsPud.cfg` | pass (36,825 states) | With timestamps 1..2 at width 2, reordered/duplicated/lost reports from aliased interfaces (including an alias of ourselves) keep the tree equal to the newest record per other node; distances are stale only within a time unit; the cached multiplier is finite and current; and every step refines `PositionStore` (each create, refresh and own update is a strictly-newer step of the abstract store). |
| `lite_links` | `MC_LqGpsLite.cfg` | pass (1,872,936 states) | With an 8-bit clock from 0 for 4 ticks of 40 ms (no wrap) and two packet outcomes per clear, own fixes and HELLO positions are lost only to the one-per-millisecond rate limit, no link's speed becomes NaN, and quickstart aging applies to exactly the first outcome after each clear (`LiteQuickstartExact`). |
| `lite_clock_wrap` | `MC_LqGpsLite_wrap.cfg` | violation | Started 2 ms before the wrap: after it, an own fix is dropped although none was taken in that millisecond. |
| `cost` | `MC_LqCost.cfg` | pass (30,625 states) | lq/nlq bytes 0, 25, 26, 128, 255 (25/255 < 0.1 < 26/255) and multipliers 0, 1/2, 1, 2, 100 (the last pushes the product to 9.8 million, past the sentinel): both functions return the spec's `combine_cost`, and costs are monotone. Interleaved with it, any message of one or two pud HELLO or TC pairs, or a lite global record and up to two lite pairs, for IPv4 and IPv6, parses back into its items' quantised values with the parser's cursor ending where the builder's did (`WireRoundTrip`, 30,625 states). |
| `cost_nonfinite` | `MC_LqCost_nonfinite.cfg` | violation | A NaN or infinite multiplier gives cost 1 instead of the sentinel. |
| `debug_prints` | `MC_DebugBuffer.cfg` | pass (199 states) | Every string is printed exactly `NUMBER_OF_PRINTS` times, also when the head is reused, and eventually all are. |
| `debug_memdump` | `MC_DebugBuffer_memdump.cfg` | violation | A memdump of one byte writes past its buffer. |
| `gps_receiver` | `MC_GpsReceiver.cfg` | pass (837 states) | For every order of up to three parameters, an accepted configuration holds each interface once, in order, and the address and port given last or their defaults, also when the port precedes the address. Through `init_gpsrec` with every combination of socket failures on two interfaces, packets and `close_gpsrec`, no socket leaks or stays registered, and a running plugin has one socket per configured interface. |
| `json_writer` | `MC_JsonInfo.cfg` | pass (5,840 states) | For every well-nested sequence of helper calls (three levels, two entries per container), sysfs values that may be absent, and resets of unfinished requests, commas appear exactly between entries (`JsonCommasCorrect`); and whatever uuid files are read in any order, `uuid` is a terminated string holding the last file's first line, or empty after a failed read (`UuidIsFirstLine`). |
| `json_sysfs` | `MC_JsonInfo_sysfs.cfg` | violation | An empty sysfs file, or a read that fails, makes `get_string_from_file` write before its buffer. |
| `link_aging` | `MC_LqLink.cfg` | pass (157,095 states) | For one link end with its position cache, any interleaving of lost and received packets, HELLOs with and without our pair, clears and position reports: quickstart alpha is used for exactly the first `LQ_QUICKSTART_STEPS` outcomes after each clear, `lq` and `nlq` stay in [0, 1], and the cost is computed with the multiplier of the peer's current cache entry (`CostUsesPeerMultiplier`). |
| `pud_time_zero` | `MC_LqGpsPud_zero.cfg` | violation | A first report at time 0 before any own record leaves the entry's multiplier at 0.0, so links to that node cost 1. |

Bounds. Five addresses: two other nodes, one with an alias, and ourselves with
an alias, so MID resolution and the self check are both exercised. Two
fixes on a line give a non-zero distance change in both directions. Width 2 gives the
times 0..3: the passing run uses 1..2, which is enough for a remote record to
be older than the own record (the stale-distance case) and for duplicates
with equal times; the two violation runs add the value 3 (the wrap) and the
value 0 respectively. At 32 bits the wrap happens at 4294967295; the unit of
the PUD time is set by the PUD plugin, which is not in this repository.

For `LqGpsLite`, positions 0..2 on a line (2 is the initialiser's fix, 0 the
zeroed one) and an 8-bit clock advanced 40 ms per tick (`TickMs`, the
spacing of events the core delivers) for 4 ticks: elapsed times are multiples
of 40 ms, so a 1 m change in 40 ms is exactly 25 m/s (kept) and a 2 m change
is 50 m/s (clamped to 0); both sides of the clamp, 0/0 and a finite smoothed
speed are all reached. Two packet outcomes per clear (`MaxOutcomes`) with
`LQ_QUICKSTART_STEPS` = 1 put one outcome on each side of the quickstart
boundary, lost and received, with alpha 1/4 then 1/2. The wrap runs start 2 ticks before 256 and run 4 ticks.

For the receiver, two interface names with `MAX_INTERFACES` = 2 (the limit
and a rejected third name both happen), three parameters per configuration
(a `MC_ParamBound` state constraint), IPv4 and IPv6 multicast addresses, an
IPv4 unicast one in the configuration run, and ports 0, 2240, 5000 and 70000.
Two interfaces are enough for one socket to be created and the other to
fail, the case the error path must clean up. The configuration and receiver
runs do not check deadlock: configuration ends, and a plugin that failed,
was closed or was not loaded does nothing more.

For `JsonInfo`, depth 3 and two entries per container give siblings at
the same depth (the case where a stale count would put a comma after an
opening brace) and reset of a request that is two levels deep; `BufLen` 4
stands for the 256-byte buffer, with read results -2 (open failed), -1, 0,
1 (a lone newline), 2 and 4 (a full buffer). The callers' nesting stays
below `ENTRY_NUMBER_MAX_DEPTH` = 16. A 3-byte `uuid` with files of up to
three bytes reaches every branch of `read_uuid_from_file`: no file, an
empty file, a lone newline, a line with and without a second one, a
leading NUL, and a file as long as the array (the `sizeof(uuid) - 1`
boundary).

For `LqLink`, two addresses (ours and the peer's, plus the zero address a
cleared record holds), quickstart of 1 step at alpha 1/4, then `lq_aging`
4/5, the default loss multiplier 65536, two outcomes between clears
(`MaxOutcomes`), positions {0, 1} and report times 1..2 on a 2-bit clock.
One quickstart step and one aged step are enough for the alpha to switch,
for a clear to restart the count, and for a dropped decay to push `lq` past
1; the cache bounds let the peer's entry be absent, present with a stale
multiplier, and recomputed; the peer's `lq` takes values such
as 1/4, whose byte truncates (63.75 to 63, where rounding gives 64). `MINIMAL_USEFUL_LQ` 0.1 puts
both sides of the threshold in reach.

Fairness is assumed in one place: `olsr_print_buffered_strings` in
`DebugBuffer` is weakly fair. The comment in debug.c ties it to
`olsr_process_changes`, which the olsrd core (outside this repository)
calls on every pass of its change processing. Everywhere else every action
is an external call that may never come. `init_gpsrec` is one synchronous
call whose loop is bounded by the interface count, so no liveness property
is stated for it; `SocketsAccounted` checks its error path.

For the codec, lq values 1/4 (63.75 truncates to 63) and 1 (the byte 255),
one address, one `float` and one position: two items per message are enough
for a wrong count of the first to misalign the second, and both IP versions
give both address sizes (a pud pair is 2 + 4 + 2 = 8 bytes for IPv4 and
2 + 16 + 2 = 20 for IPv6).

## 5. Findings so far

* pud timestamp wrap (hazard, line 198): admission compares against
  `gps_record.time + 1` in `uint32_t`; at `UINT32_MAX` every later record is
  admitted, however old. `CacheHoldsLatestReport` fails as soon as
  `MaxReportTime` in `MC_LqGpsPud.cfg` is raised to `2^TimeBits - 1`; the
  unit of the PUD time is set by the PUD plugin (not in this repository), so
  whether the wrap is reachable in service is left open, and it is kept as a
  hazard rather than a run.
* `pud_time_zero` (divergence, line 149 and 272): an entry whose first
  record and the own record both have time 0 never gets distances and keeps
  `lq_multiplier == 0.0`; `lq_calc_cost_gps_pud` then returns cost 1 for every
  link to it, where the spec promises the neutral multiplier 1.0.

* `lite_clock_wrap` (code bug, lite line 144 and 358): `now_times > last_gps_update`
  on plain `uint32_t`; after the millisecond clock wraps (49.7 days) every
  own fix and every neighbour position is ignored until the clock passes the
  old value again. Spec section 5 calls the clock monotonic; olsrd's
  `now_times` is a wrapping `uint32_t`.
* lite speed NaN (hazard, lite line 238): `last_update` is the later of
  the own fix and the link's update; after a wrap that can equal
  `last_multiplier_calc`, and an unchanged distance gives 0/0 = NaN. NaN
  passes both clamp comparisons and the smoothing keeps it forever, so `mlq`
  and the link cost are NaN from then on. `SpeedNeverNaN` is checked in
  `lite_links` without a wrap. It is not a recorded run under the wrap
  configuration. Checked by hand with TLC (`SpeedNeverNaN` as the
  invariant of `MC_LqGpsLite_wrap.cfg`), it is violated after five
  steps: two ticks, a HELLO, a tick across the wrap, and a second HELLO.
* pud quantisation (hazard, pud line 308): the serializer truncates
  `lq * 255`, so a received `nlq` is up to 1/255 below the sender's `lq`;
  the spec asks for `round()` and an error of at most 1/510. `WireRoundTrip`'s
  expected values use the code's truncation; no run states the spec's
  bound, which 1/4 (received as 63/255) already breaks.
* wire padding (hazard, lite line 284, pud line 344): the lite pair
  serializer returns 8 but writes 6 bytes, so two bytes of old buffer
  content go out; the pud deserializers skip the padding by recomputing it.
  `WireRoundTrip` shows every count a serializer returns is the count its
  deserializer skips and no deserializer reads an unwritten byte.

* `cost_nonfinite` (code bug, lite line 264, pud line 290): the float cost is
  converted before it is clamped. A NaN `mlq` (the lite speed hazard above),
  an infinite pud multiplier (zero `delta_t` with non-zero `delta_d`) or any
  float a neighbour puts in a TC pair makes the conversion undefined; x86-64
  yields 0 and the zero check returns 1, the cheapest link, where the spec
  saturates to `LINK_COST_BROKEN`.

* `debug_memdump` (code bug, debug.c line 34): the buffer holds
  `size + 3*len + 3` bytes, and the last `sprintf(" %02x")` puts its NUL at
  index `size + 3*len + 3`, one past the end.

* `json_sysfs` (code bug, olsrd_jsoninfo_helpers.c line 223):
  `get_string_from_file` strips the "trailing newline" with
  `buf[bytes - 1] = '\0'` whenever `read` returned fewer than `len` bytes,
  also for 0 (an empty file: `buf[-1]`) and -1 (a failed read: `buf[-2]`),
  writing before the caller's stack buffer.

## 6. Not modelled

Diagnostic printing (`lq_print_*`, the tree and link dumps) only formats
text. NMEA parsing, sockets and file I/O are external; where they can fail the
plan models them as a success/failure choice. The olsrd core, the MID table's
updates and the PUD plugin are outside this repository and appear only as the
calls and inputs they make.
