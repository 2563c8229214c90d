---------------------------- MODULE MCReception -----------------------------
(* Two files of one batch, the second arriving on two streams, and a single *)
(* file with the name of the first.                                          *)
EXTENDS Reception

CONSTANTS s1, s2, s3, s4, m1, m2, m3, b1

MCMsgOf ==
    [s \in {s1, s2, s3, s4} |->
        IF s = s1 THEN [id |-> m1, batch |-> b1, name |-> "n", buffers |-> <<"a", "b">>]
        ELSE IF s = s4 THEN [id |-> m3, batch |-> NoBatch, name |-> "n", buffers |-> <<"c", "d">>]
        ELSE [id |-> m2, batch |-> b1, name |-> "o", buffers |-> <<"e", "f">>]]
MCTotal == [b \in {b1} |-> 2]
MCData  == {NoData, <<b1, "n">>, <<b1, "o">>, <<m3, "n">>}
=============================================================================
