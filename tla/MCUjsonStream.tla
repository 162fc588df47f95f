--------------------------- MODULE MCUjsonStream ---------------------------
(***************************************************************************)
(* Two pairs of slots of two bytes: objects that fit, with strings, empty  *)
(* strings and both signs of numbers, the empty object, and objects that   *)
(* have a pair, a key, a text or a number too many bytes long.             *)
(***************************************************************************)
EXTENDS UjsonStream

String(k, s)    == [key |-> k, text |-> s, number |-> NONE]
Number(k, s, n) == [key |-> k, text |-> s, number |-> n]

A == String(<<"a">>, <<"x", "y">>)
B == Number(<<"b">>, <<"-", "7">>, -7)
E == String(<<>>, <<>>)

MCObject == {<<>>, <<A>>, <<E>>, <<B, A>>, <<E, B>>, <<A, B, E>>,
             <<String(<<"a", "b", "c">>, <<"x">>)>>,
             <<B, String(<<"a">>, <<"x", "y", "z">>)>>,
             <<Number(<<"a">>, <<"4", "2">>, 42), Number(<<"b">>, <<"1", "2", "3">>, 123)>>}
MCByte == {"{", "}", "\"", ":", ",", "-", " ", "\n", "a", "b", "c", "x", "y", "z",
           "1", "2", "3", "4", "7", NUL}
=============================================================================
