-------------------------------- MODULE Units --------------------------------
(***************************************************************************)
(* Texts and speeds, as the loaders of OSM extracts and of CSV files both  *)
(* tell them apart.                                                        *)
(*                                                                         *)
(* A text is a record: the number it starts with, if it starts with        *)
(* digits, and the rest.  "30 mph" is [number |-> 30, rest |-> " mph"].    *)
(***************************************************************************)
EXTENDS Integers

NoDigits == -1
Text == [number : Int, rest : STRING]
Plain(word) == [number |-> NoDigits, rest |-> word]

HasDigits(text) == text.number # NoDigits

RoundKph_Truncates(speed) == (25146 * speed) \div 15625

(* round(speed * kKmPerMile), with kKmPerMile = 1.609344 = 25146 / 15625   *)
RoundKph(speed) == (50292 * speed + 15625) \div 31250

INVALID_SPEED == 255
=============================================================================
