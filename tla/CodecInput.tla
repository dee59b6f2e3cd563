----------------------------- MODULE CodecInput -----------------------------
(***************************************************************************)
(* The inputs of the codecs: a behaviour picks a topic with parameters and *)
(* then makes the input longer, a symbol at a time.  The properties of the *)
(* codecs are about these three variables.                                 *)
(***************************************************************************)
EXTENDS Integers, Sequences

VARIABLES topic, params, text
vars == <<topic, params, text>>

Grow(symbols, bound) ==
    /\ Len(text) < bound
    /\ \E symbol \in symbols : text' = Append(text, symbol)
    /\ UNCHANGED <<topic, params>>
=============================================================================
