--------------------------- MODULE MCMessageBody ---------------------------
(***************************************************************************)
(* Instances of MessageBody for TLC.                                       *)
(***************************************************************************)
EXTENDS MessageBody

Message(framing, form, items) ==
    [framing |-> framing, form |-> form, items |-> items, limit |-> <<>>]
Limited(max_size, m) == [m EXCEPT !.limit = <<max_size>>]

(* Bodies whose bytes look like the encoding around them.                  *)
FirstBodies == {
    Limited(2, Message("chunked", "plain", << <<"0", CR>>, <<LF>> >>)),
    Limited(0, Message("chunked", "plain", << >>)),
    Limited(3, Message("chunked", "extended", << <<CR, LF, "0">> >>)),
    Message("chunked", "long", << <<"1">> >>),
    Message("chunked", "garbage", << <<"1">> >>),
    Limited(1, Message("length", "plain", << <<"0", CR, LF>> >>)),
    Message("length", "plain", << >>) }
LastBodies == {
    Message("chunked", "plain", << <<"1", CR>> >>),
    Limited(2, Message("length", "plain", << <<LF, "0">> >>)),
    Message("eof", "plain", << <<"0", CR>>, <<LF>> >>) }

MCScripts == {<<a, b>> : a \in FirstBodies, b \in LastBodies}

(* The theorems about MessageBody are about such scripts.                  *)
ASSUME WellSentAssumption == \A s \in MCScripts : WellSentScript(s)

(* A body stream that yields an empty item, as Stream<Item = Bytes> may.   *)
MCEmptyItem == {
    << Message("chunked", "plain", << <<"1">>, <<>>, <<"2">> >>),
       Message("length", "plain", << <<"1">> >>) >> }
=============================================================================
