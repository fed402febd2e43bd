---------------------------- MODULE MCConnParser ----------------------------
(***************************************************************************)
(* Instance of ConnParser for TLC.  The sizes keep the order of the real   *)
(* ones (header 3 < cancel 8 < modify 24 < add 27 < budget 256 < buffer    *)
(* 1024), and like them let one wakeup read more short frames than         *)
(* MSG_LIMIT_PER_CONN allows it to parse.                                  *)
(***************************************************************************)
EXTENDS ConnParser, FiniteSetsExt

MCWireSize == [add |-> 3, cancel |-> 1]

Add == [type |-> "add", len |-> 3]
Cancel == [type |-> "cancel", len |-> 1]
Unknown(n) == [type |-> "unknown", len |-> n]

\* A stream of the frames s, one behind the other.
Placed(s) ==
    [k \in DOMAIN s |->
        [type |-> s[k].type, len |-> s[k].len,
         start |-> MapThenSumSet(LAMBDA j : HeaderSize + s[j].len, 1..(k - 1))]]

\* Long and short messages in any order, unknown ones that fit the buffer.
Mixed == { Placed(s) : s \in [1..3 -> {Add, Cancel, Unknown(0), Unknown(7)}] }
\* Three messages short enough to be read in one wakeup.
Burst == { Placed(<<Cancel, Cancel, Cancel>>) }
\* An unknown message larger than the buffer.
Oversize == { Placed(<<Unknown(9), Cancel>>) }
=============================================================================
