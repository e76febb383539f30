------------------------------ MODULE MC_JsonInfo ------------------------------
(* A failed open, a failed read, an empty file, a lone newline, a short    *)
(* string and a file that fills the buffer.                                *)
EXTENDS JsonInfo

MC_ReadResults == {-2, -1, 0, 1, 2, BufLen}

(* uuid files for a 3-byte uuid: none, empty, a bare newline, one line,  *)
(* a second line, an embedded NUL, and one too long for the array.       *)
MC_UuidFiles ==
    {[open |-> FALSE, data |-> <<>>]} \cup
    {[open |-> TRUE, data |-> d] :
        d \in {<<>>, <<"nl">>, <<"x", "nl">>, <<"x", "nl", "x">>,
               <<"nul", "x">>, <<"x", "x", "x">>}}
==============================================================================
