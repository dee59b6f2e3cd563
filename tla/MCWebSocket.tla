---------------------------- MODULE MCWebSocket ----------------------------
(***************************************************************************)
(* An instance of WebSocket for TLC: a client, a buffer of three units, and*)
(* for every way a frame can be legal or not one that is.                  *)
(***************************************************************************)
EXTENDS WebSocket

Frame(op, fin, payload) == [op |-> op, fin |-> fin, data |-> payload, rsv |-> FALSE, mask |-> FALSE]

MCFrames == {
    Frame("text", FALSE, <<"hi">>),        \* cut in the middle of a character
    Frame("text", TRUE, <<"lo">>),         \* not a text
    Frame("binary", FALSE, <<"lo">>),      \* no text, and need not be one
    Frame("cont", FALSE, <<"lo", "a">>),
    Frame("cont", TRUE, <<"lo">>),
    Frame("ping", TRUE, <<"a">>),
    Frame("ping", FALSE, <<>>),
    Frame("close", TRUE, <<"a">>),         \* half a status code
    Frame("close", TRUE, <<"st", "hi">>),
    Frame("text", TRUE, <<"a", "a", "a">>), \* does not fit the buffer
    [Frame("text", TRUE, <<"a">>) EXCEPT !.mask = TRUE] }
=============================================================================
