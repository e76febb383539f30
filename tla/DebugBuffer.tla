----------------------------- MODULE DebugBuffer -----------------------------
(***************************************************************************)
(* The "buffered printf" of src/src/debug.c: a list of strings, headed by  *)
(* the static node hook_buffered_strings, each printed by                  *)
(* olsr_print_buffered_strings NUMBER_OF_PRINTS times and then dropped.    *)
(*                                                                         *)
(* nodes is the list, nodes[1] being the static head; a node is its string *)
(* s (NULL, or the number of the string buffered) and its uint8_t          *)
(* countdown n.  Strings are numbered in the order they are buffered.      *)
(* printed counts how many times each string was printed (history).        *)
(* olsr_malloc never returns NULL in olsrd (it exits), so the code's NULL  *)
(* branches are left out.  memdump_overrun records whether a memdump       *)
(* wrote past the buffer it allocated.                                     *)
(***************************************************************************)
EXTENDS Integers, Sequences

CONSTANTS
    NUMBER_OF_PRINTS,
    MaxStrings,     \* strings buffered in a run
    NameSizes,      \* name sizes passed to olsr_buffered_memdump
    DumpLengths     \* byte counts passed to olsr_buffered_memdump

NULL == 0
Strings == 1 .. MaxStrings

VARIABLES nodes, issued, printed, memdump_overrun

vars == <<nodes, issued, printed, memdump_overrun>>

-----------------------------------------------------------------------------
Node == [s : Strings \cup {NULL}, n : 0 .. 255]

Stored == {nodes[i].s : i \in 1 .. Len(nodes)} \ {NULL}

(* Mutant: when every node holds a string, the last one is reused. *)
BufferString_overwrite_last(id) ==
    LET free == {i \in 1 .. Len(nodes) : nodes[i].s = NULL}
        at == IF free = {} THEN Len(nodes)
              ELSE CHOOSE i \in free : \A j \in free : i <= j
    IN  [nodes EXCEPT ![at].s = id]

(* olsr_buffered_print, storing string id: walk to the first node without *)
(* a string, appending a fresh node when the walk falls off the end.       *)
BufferString(id) ==
    LET free == {i \in 1 .. Len(nodes) : nodes[i].s = NULL}
        fresh == [s |-> NULL, n |-> NUMBER_OF_PRINTS]
        list == IF free = {} THEN Append(nodes, fresh) ELSE nodes
        at == IF free = {} THEN Len(list)
              ELSE CHOOSE i \in free : \A j \in free : i <= j
    IN  [list EXCEPT ![at].s = id]

Init ==
    /\ nodes = <<[s |-> NULL, n |-> NUMBER_OF_PRINTS]>>
    /\ issued = 0
    /\ printed = [id \in Strings |-> 0]
    /\ memdump_overrun = FALSE

olsr_buffered_print ==
    /\ issued < MaxStrings
    /\ issued' = issued + 1
    /\ nodes' = BufferString(issued + 1)
    /\ UNCHANGED <<printed, memdump_overrun>>

(* Bytes olsr_buffered_memdump writes into its buffer of AllocSize bytes: *)
(* the name, ": ", then " %02x" and its terminating NUL for every byte.   *)
AllocSize(size, len) == size + 3 * len + 3
Written(size, len) ==
    (0 .. size + 2) \cup {size + 3 + 3 * i + k : i \in 0 .. len - 1, k \in 0 .. 3}

(* olsr_buffered_memdump(name, size, ptr, len): format, then buffer. *)
olsr_buffered_memdump(size, len) ==
    /\ issued < MaxStrings
    /\ issued' = issued + 1
    /\ nodes' = BufferString(issued + 1)
    /\ memdump_overrun' =
           (memdump_overrun \/ \E w \in Written(size, len) : w >= AllocSize(size, len))
    /\ UNCHANGED printed

(* One print of a node: --n on the uint8_t countdown. *)
CountDown(node) == [node EXCEPT !.n = (@ - 1) % 256]

(* The head is printed, and once its countdown reaches 0 its string is    *)
(* freed and the countdown reset.                                          *)
HeadAfterPrint(h) ==
    IF h.s = NULL THEN h
    ELSE IF CountDown(h).n = 0 THEN [s |-> NULL, n |-> NUMBER_OF_PRINTS]
    ELSE CountDown(h)

(* A later node is printed, its string freed at 0, and a node without a   *)
(* string unlinked.                                                        *)
TailAfterPrint(t) ==
    LET after(node) == IF node.s = NULL THEN node
                       ELSE IF CountDown(node).n = 0 THEN [CountDown(node) EXCEPT !.s = NULL]
                       ELSE CountDown(node)
        mapped == [i \in 1 .. Len(t) |-> after(t[i])]
        kept(node) == node.s # NULL
    IN  SelectSeq(mapped, kept)

(* Mutant: the head's countdown is not reset when its string is freed. *)
olsr_print_buffered_strings_no_reset ==
    /\ nodes' = <<IF nodes[1].s # NULL /\ CountDown(nodes[1]).n = 0
                  THEN [CountDown(nodes[1]) EXCEPT !.s = NULL]
                  ELSE HeadAfterPrint(nodes[1])>>
                \o TailAfterPrint(Tail(nodes))
    /\ printed' = [id \in Strings |-> IF id \in Stored THEN printed[id] + 1 ELSE printed[id]]
    /\ UNCHANGED <<issued, memdump_overrun>>

(* Mutant: the static head is unlinked like any other node. *)
olsr_print_buffered_strings_head_unlinked ==
    /\ nodes' = TailAfterPrint(nodes)
    /\ printed' = [id \in Strings |-> IF id \in Stored THEN printed[id] + 1 ELSE printed[id]]
    /\ UNCHANGED <<issued, memdump_overrun>>

(* olsr_print_buffered_strings, called from the core's periodic change    *)
(* processing: print every stored string once.  Its early return for an   *)
(* empty list changes nothing and is covered by the general case.         *)
olsr_print_buffered_strings ==
    /\ nodes' = <<HeadAfterPrint(nodes[1])>> \o TailAfterPrint(Tail(nodes))
    /\ printed' = [id \in Strings |-> IF id \in Stored THEN printed[id] + 1 ELSE printed[id]]
    /\ UNCHANGED <<issued, memdump_overrun>>

Next ==
    \/ olsr_buffered_print
    \/ \E size \in NameSizes, len \in DumpLengths : olsr_buffered_memdump(size, len)
    \/ olsr_print_buffered_strings

(* olsr_print_buffered_strings runs on every pass of the core's change   *)
(* processing, so it is weakly fair.                                       *)
Spec == Init /\ [][Next]_vars /\ WF_vars(olsr_print_buffered_strings)

-----------------------------------------------------------------------------
TypeOK ==
    /\ nodes \in Seq(Node) /\ Len(nodes) >= 1
    /\ issued \in 0 .. MaxStrings
    /\ printed \in [Strings -> Nat]
    /\ memdump_overrun \in BOOLEAN

(* Every string is printed exactly NUMBER_OF_PRINTS times: a stored       *)
(* string's countdown is what is left of its prints, a string no longer    *)
(* stored has had all of them, and no string is stored twice.  This needs *)
(* the head's countdown reset (debug.c lines 81-88) and the unlinking of   *)
(* freed later nodes (lines 90-105) to agree with the walk of              *)
(* olsr_buffered_print (lines 56-67).                                      *)
EveryStringPrintedExactlyN ==
    /\ \A i \in 1 .. Len(nodes) : nodes[i].s # NULL =>
          /\ printed[nodes[i].s] + nodes[i].n = NUMBER_OF_PRINTS
          /\ \A j \in 1 .. Len(nodes) : nodes[j].s = nodes[i].s => i = j
    /\ \A id \in 1 .. issued : id \notin Stored => printed[id] = NUMBER_OF_PRINTS

(* Every buffered string is eventually printed NUMBER_OF_PRINTS times.  *)
EventuallyAllPrinted ==
    \A id \in Strings : [](id <= issued => <>(printed[id] = NUMBER_OF_PRINTS))

(* olsr_buffered_memdump writes only inside the buffer it allocates         *)
(* (debug.c lines 25-35): its size is size + 3*len + 3, the length it      *)
(* memsets and hands to olsr_buffered_print.                               *)
NoMemdumpOverrun == ~memdump_overrun
=============================================================================
