----------------------------- MODULE MCKprintf ------------------------------
(* Calls of kprintf of every kind the kernel makes, in short. *)
EXTENDS Kprintf

Plain == <<<<"x", "y">>, <<>>>>
Char == <<<<"%", "c">>, <<<<"q">>>>>>
CharInside == <<<<"x", "%", "c", "y">>, <<<<"q">>>>>>
String == <<<<"x", "%", "s", "y">>, <<<<"A", "B", "C">>>>>>
StringLast == <<<<"%", "s">>, <<<<"A">>>>>>
Number == <<<<"%", "d", "\\", "n">>, <<<<"pos", 205>>>>>>
Negative == <<<<"x", "%", "i">>, <<<<"neg", 7>>>>>>
Hex == <<<<"%", "x", "b", "\\", "t">>, <<<<"pos", 170>>>>>>
Two == <<<<"%", "c", "%", "s">>, <<<<"q">>, <<"A", "B", "C", "D", "E", "F">>>>>>
Empty == <<<<"x", "%", "s", "y">>, <<<<>>>>>>

MCLetters == {"x", "y", "q", "A", "B", "C", "D", "E", "F", "%", "\\", "c", "s", "d", "i", "b", "n", "t"}
MCCalls == {Plain, Char, CharInside, String, StringLast, Number, Negative, Hex, Two, Empty}

=============================================================================
