---------------------------- MODULE MCFlashStore ----------------------------
(* A small instance of the property stores that keep a log: a number takes *)
(* one page, a text two, and the number is the text's length.              *)
EXTENDS FlashStore

Text   == [type |-> "str", n |-> 9]
Length == [type |-> "int", n |-> 10]

NumberAndText == {Length, Text}
=============================================================================
