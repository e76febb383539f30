------------------------------- MODULE JsonInfo -------------------------------
(***************************************************************************)
(* The JSON writer of src/lib/jsoninfo/src/olsrd_jsoninfo_helpers.c: the   *)
(* comma and nesting state entrynumber[] / currentjsondepth shared by all *)
(* helpers, and get_string_from_file behind abuf_json_sys_class_net.      *)
(*                                                                         *)
(* The output is abstracted to its structural tokens: "<" and ">" for the *)
(* braces of abuf_json_mark_output, "{" "[" "}" "]" for objects and       *)
(* arrays, "," and "v" for a key/value pair; indentation and the text of   *)
(* keys and values are layout.  A step records the token before the call  *)
(* (before) and the tokens the call appends (step).                        *)
(*                                                                         *)
(* The callers (the jsoninfo plugin, not in this repository) reset the     *)
(* state, then open the output, write pairs and nested objects and arrays, *)
(* close each with the kind it was opened with, and close the output.     *)
(* stack is the kinds they have open.  Nesting stays below MaxDepth        *)
(* (< ENTRY_NUMBER_MAX_DEPTH) and each container gets at most MaxEntries   *)
(* entries.                                                                *)
(***************************************************************************)
EXTENDS Integers, Sequences

CONSTANTS
    MaxDepth,       \* deepest currentjsondepth the callers reach
    MaxEntries,     \* entries a caller writes into one container
    BufLen,         \* len of the buffer handed to get_string_from_file
    ReadResults,    \* what open + read of a sysfs file can return: -2 for
                    \* a failed open, else read's result (-1 .. BufLen)
    UUIDLEN,        \* sizeof(uuid), from the plugin's header
    UuidFiles       \* uuid files: [open |-> fopen succeeded, data |-> bytes]

ENTRY_NUMBER_MAX_DEPTH == 16
Depths == 0 .. MaxDepth
Tokens == {"<", ">", "{", "[", "}", "]", ",", "v"}

VARIABLES
    entrynumber, currentjsondepth,
    stack,          \* caller: kinds of the open containers, innermost last
    before, step,   \* the last token written before this call, and its tokens
    sys_oob,        \* get_string_from_file wrote outside buf
    uuid,           \* the global char uuid[UUIDLEN]
    uuid_read       \* history: the last file read_uuid_from_file read, and
                    \* its result

vars == <<entrynumber, currentjsondepth, stack, before, step, sys_oob, uuid,
          uuid_read>>

SE == INSTANCE SequencesExt

(* Bytes of a file: an ordinary character, a newline, or a NUL. *)
Chars == {"x", "nl", "nul"}
IsNul(c) == c = "nul"

-----------------------------------------------------------------------------
LastToken == IF step = <<>> THEN before ELSE step[Len(step)]

(* abuf_json_insert_comma *)
Comma == IF entrynumber[currentjsondepth] # 0 THEN <<",">> ELSE <<>>

(* The output has begun: a new call's tokens follow the last one written. *)
Emit(toks) ==
    /\ before' = LastToken
    /\ step' = toks

Init ==
    /\ entrynumber = [d \in Depths |-> 0]
    /\ currentjsondepth = 0
    /\ stack = <<>>
    /\ before = "start" /\ step = <<>>
    /\ sys_oob = FALSE
    /\ uuid = [i \in 1 .. UUIDLEN |-> "nul"]
    /\ uuid_read = [called |-> FALSE, file |-> [open |-> FALSE, data |-> <<>>], r |-> -1]

(* abuf_json_reset_entry_number_and_depth, at the start of a request. *)
abuf_json_reset_entry_number_and_depth ==
    /\ entrynumber' = [entrynumber EXCEPT ![0] = 0]
    /\ currentjsondepth' = 0
    /\ stack' = <<>>
    /\ before' = "start" /\ step' = <<>>
    /\ UNCHANGED <<sys_oob, uuid, uuid_read>>

(* Mutant: opening the output does not clear the entry count of depth 1. *)
abuf_json_mark_output_no_reset(open) ==
    /\ IF open
       THEN /\ currentjsondepth = 0 /\ stack = <<>>
            /\ currentjsondepth' = 1
            /\ UNCHANGED entrynumber
            /\ stack' = <<"output">>
            /\ Emit(<<"<">>)
       ELSE /\ currentjsondepth = 1 /\ stack = <<"output">>
            /\ entrynumber' = [entrynumber EXCEPT ![1] = 0]
            /\ currentjsondepth' = 0
            /\ stack' = <<>>
            /\ Emit(<<">">>)
    /\ UNCHANGED <<sys_oob, uuid, uuid_read>>

(* abuf_json_mark_output: the asserts are the callers' obligations. *)
abuf_json_mark_output(open) ==
    /\ IF open
       THEN /\ currentjsondepth = 0 /\ stack = <<>>
            /\ currentjsondepth' = 1
            /\ entrynumber' = [entrynumber EXCEPT ![1] = 0]
            /\ stack' = <<"output">>
            /\ Emit(<<"<">>)
       ELSE /\ currentjsondepth = 1 /\ stack = <<"output">>
            /\ entrynumber' = [entrynumber EXCEPT ![1] = 0]
            /\ currentjsondepth' = 0
            /\ stack' = <<>>
            /\ Emit(<<">">>)
    /\ UNCHANGED <<sys_oob, uuid, uuid_read>>

(* Mutant: opening a container does not clear the count of its depth. *)
OpenObject_no_child_reset ==
    /\ entrynumber' = [entrynumber EXCEPT ![currentjsondepth] = @ + 1]
    /\ currentjsondepth' = currentjsondepth + 1

(* Mutant: the depth is not raised for the new container. *)
OpenObject_depth_not_raised ==
    /\ entrynumber' = [entrynumber EXCEPT ![currentjsondepth] = @ + 1]
    /\ UNCHANGED currentjsondepth

(* The counting of abuf_json_mark_object(true, ...): the container is an  *)
(* entry of its parent, and starts empty.                                  *)
OpenObject ==
    /\ entrynumber' = [entrynumber EXCEPT ![currentjsondepth] = @ + 1,
                                          ![currentjsondepth + 1] = 0]
    /\ currentjsondepth' = currentjsondepth + 1

(* abuf_json_mark_object (and abuf_json_mark_array_entry, an object       *)
(* without header): open an object or array, or close the innermost one.  *)
abuf_json_mark_object(open, array) ==
    LET kind == IF array THEN "[" ELSE "{" IN
    /\ currentjsondepth >= 1
    /\ IF open
       THEN /\ currentjsondepth < MaxDepth
            /\ entrynumber[currentjsondepth] < MaxEntries
            /\ OpenObject
            /\ stack' = Append(stack, kind)
            /\ Emit(Comma \o <<kind>>)
       ELSE /\ stack[Len(stack)] = kind
            /\ entrynumber' = [entrynumber EXCEPT ![currentjsondepth] = 0]
            /\ currentjsondepth' = currentjsondepth - 1
            /\ stack' = SubSeq(stack, 1, Len(stack) - 1)
            /\ Emit(<<IF array THEN "]" ELSE "}">>)
    /\ UNCHANGED <<sys_oob, uuid, uuid_read>>

(* abuf_json_boolean, _string, _int, _float and _ip_address: one pair.    *)
abuf_json_value ==
    /\ currentjsondepth >= 1
    /\ entrynumber[currentjsondepth] < MaxEntries
    /\ entrynumber' = [entrynumber EXCEPT ![currentjsondepth] = @ + 1]
    /\ Emit(Comma \o <<"v">>)
    /\ UNCHANGED <<currentjsondepth, stack, sys_oob, uuid, uuid_read>>
(* get_string_from_file(filename, buf, len) for the outcome r of open and *)
(* read: the indices it writes a NUL at (buf[0] first), the bytes it      *)
(* returns, and whether buf then holds a non-empty string (the file's      *)
(* first byte is not a NUL).                                               *)
GetStringFromFile(r, len) ==
    LET nul == IF r = -2 THEN {0}
               ELSE IF r < len THEN {0, r - 1} ELSE {0, len - 1}
        bytes == IF r = -2 THEN -1 ELSE r
        last == IF r = -2 THEN 0 ELSE IF r < len THEN r - 1 ELSE len - 1
    IN  [written |-> nul, bytes |-> bytes, nonempty |-> r >= 1 /\ last # 0]

(* abuf_json_sys_class_net -> abuf_json_sysdata: read the file, and write *)
(* the pair only when the string read is non-empty.                        *)
abuf_json_sys_class_net(r) ==
    LET g == GetStringFromFile(r, BufLen) IN
    /\ currentjsondepth >= 1
    /\ entrynumber[currentjsondepth] < MaxEntries
    /\ sys_oob' = (sys_oob \/ \E i \in g.written : i < 0 \/ i >= BufLen)
    /\ IF g.nonempty
       THEN /\ entrynumber' = [entrynumber EXCEPT ![currentjsondepth] = @ + 1]
            /\ Emit(Comma \o <<"v">>)
       ELSE /\ UNCHANGED entrynumber
            /\ Emit(<<>>)
    /\ UNCHANGED <<currentjsondepth, stack, uuid, uuid_read>>

(* The characters of the C string at s: those before its first NUL (all *)
(* of s when it has none, where the code would read on past the array).  *)
CString(s) ==
    LET e == SE!SelectInSeq(s, IsNul) IN IF e = 0 THEN s ELSE SubSeq(s, 1, e - 1)

(* end = strchr(uuid, '\n'); if (end) *end = 0: cut at the first newline  *)
(* of the string.                                                          *)
CutAtNewline(s) ==
    LET nl == SE!SelectInSeq(CString(s), LAMBDA c : c = "nl") IN
    IF nl = 0 THEN s ELSE [s EXCEPT ![nl] = "nul"]

(* The memset array after fread(uuid, 1, n, f) stored n bytes of data. *)
Fread(data, n) == [i \in 1 .. UUIDLEN |-> IF i <= n THEN data[i] ELSE "nul"]

(* Mutant: fread may fill the whole array. *)
read_uuid_from_file_whole(f) ==
    LET chars == IF ~f.open THEN 0
                 ELSE IF Len(f.data) <= UUIDLEN THEN Len(f.data) ELSE UUIDLEN
        got == Fread(f.data, chars)
    IN  /\ uuid' = IF chars > 0 THEN CutAtNewline([got EXCEPT ![chars + 1] = "nul"])
                   ELSE got
        /\ uuid_read' = [called |-> TRUE, file |-> f, r |-> IF chars > 0 THEN 0 ELSE -1]
        /\ UNCHANGED <<entrynumber, currentjsondepth, stack, before, step, sys_oob>>

(* read_uuid_from_file(name, file): zero uuid; on a failed fopen return   *)
(* -1; else read at most sizeof(uuid) - 1 bytes, and when some were read  *)
(* terminate them and cut at the first newline (0), otherwise -1.  A      *)
(* write at index chars + 1 beyond the array changes nothing of it.       *)
read_uuid_from_file(f) ==
    LET chars == IF ~f.open THEN 0
                 ELSE IF Len(f.data) <= UUIDLEN - 1 THEN Len(f.data) ELSE UUIDLEN - 1
        got == Fread(f.data, chars)
    IN  /\ uuid' = IF chars > 0 THEN CutAtNewline([got EXCEPT ![chars + 1] = "nul"])
                   ELSE got
        /\ uuid_read' = [called |-> TRUE, file |-> f, r |-> IF chars > 0 THEN 0 ELSE -1]
        /\ UNCHANGED <<entrynumber, currentjsondepth, stack, before, step, sys_oob>>

Next ==
    \/ abuf_json_reset_entry_number_and_depth
    \/ \E open \in BOOLEAN : abuf_json_mark_output(open)
    \/ \E open, array \in BOOLEAN : abuf_json_mark_object(open, array)
    \/ abuf_json_value
    \/ \E r \in ReadResults : abuf_json_sys_class_net(r)
    \/ \E f \in UuidFiles : read_uuid_from_file(f)

Spec == Init /\ [][Next]_vars

-----------------------------------------------------------------------------
TypeOK ==
    /\ entrynumber \in [Depths -> 0 .. MaxEntries]
    /\ currentjsondepth \in Depths
    /\ Len(stack) = currentjsondepth
    /\ before \in Tokens \cup {"start"}
    /\ step \in Seq(Tokens) /\ Len(step) <= 2
    /\ sys_oob \in BOOLEAN
    /\ uuid \in [1 .. UUIDLEN -> Chars]

(* Which token may follow which in the text the helpers write: a comma    *)
(* only between two entries, an entry after an opening brace, a comma or  *)
(* at the start, and a closing brace never after a comma.                  *)
Follows(a, b) ==
    /\ b = "," => a \in {"v", "}", "]"}
    /\ a = "," => b \in {"v", "{", "["}
    /\ b \in {"v", "{", "["} => a \in {",", "{", "[", "<"}
    /\ b \in {"}", "]", ">"} => a # ","
    /\ b = "<" => a \in {"start", ">"}

(* However the callers interleave pairs, nested objects and arrays, sysfs *)
(* values that may be missing, and resets of an unfinished request, the   *)
(* JSON the helpers write places its commas correctly: entrynumber[] must *)
(* be cleared by every open (lines 100, 124) and consulted at the current *)
(* depth by abuf_json_insert_comma (line 88).                              *)
JsonCommasCorrect ==
    LET toks == <<before>> \o step IN
    \A i \in 1 .. Len(toks) - 1 : Follows(toks[i], toks[i + 1])

(* The first line of a file as the uuid should hold it: at most          *)
(* sizeof(uuid) - 1 bytes, up to the first newline or NUL.                *)
FirstLine(data) ==
    LET t == SubSeq(data, 1, IF Len(data) < UUIDLEN THEN Len(data) ELSE UUIDLEN - 1)
        e == SE!SelectInSeq(t, LAMBDA c : c \in {"nl", "nul"})
    IN  IF e = 0 THEN t ELSE SubSeq(t, 1, e - 1)

(* After any sequence of read_uuid_from_file calls (lines 259-292) uuid  *)
(* is a NUL-terminated string inside its array: the first line of the     *)
(* last file read when the call returned 0, and empty, not the previous   *)
(* uuid, when it returned -1 (a failed fopen or an empty file).  This     *)
(* needs the fread bound sizeof(uuid) - 1 of line 276 and the terminator  *)
(* of line 278 to agree.                                                  *)
UuidIsFirstLine ==
    /\ SE!SelectInSeq(uuid, IsNul) # 0
    /\ uuid_read.called =>
          /\ uuid_read.r = 0 => CString(uuid) = FirstLine(uuid_read.file.data)
          /\ uuid_read.r = -1 => CString(uuid) = <<>>
          /\ uuid_read.r = 0 <=> uuid_read.file.open /\ uuid_read.file.data # <<>>

(* get_string_from_file writes only inside buf (lines 219-225). *)
SysDataInBounds == ~sys_oob
=============================================================================
