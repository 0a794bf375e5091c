---------------------------- MODULE Identifiers ----------------------------
(***************************************************************************)
(* The control characters of the identifiers that are typed in: NIF and    *)
(* NIE of owners, CIF of communities.  An identifier is a sequence of      *)
(* characters.                                                             *)
(***************************************************************************)
EXTENDS Integers, Sequences, SequencesExt

DigitChars == <<"0", "1", "2", "3", "4", "5", "6", "7", "8", "9">>
IsDigit(c) == c \in ToSet(DigitChars)
Foreign == {"X", "Y", "Z"}

(* A digit, or the digit that stands for the first letter of a NIE.        *)
ValueOf == [c \in ToSet(DigitChars) \cup Foreign |->
              CASE c = "X" -> 0 [] c = "Y" -> 1 [] c = "Z" -> 2
                [] OTHER -> CHOOSE d \in 0..9 : DigitChars[d + 1] = c]

(* The patterns end with $, which also matches before a last line break.   *)
NineCharacters(s) == Len(s) = 9 \/ (Len(s) = 10 /\ s[10] = "\n")

-----------------------------------------------------------------------------
(* NIF and NIE *)

NifLetters == <<"T", "R", "W", "A", "G", "M", "Y", "F", "P", "D", "X", "B", "N", "J", "Z",
                "S", "Q", "V", "H", "L", "C", "K", "E">>

NifNumber(s) ==
  LET digit(i) == ValueOf[s[i]] IN
  10000000 * digit(1) + 1000000 * digit(2) + 100000 * digit(3) + 10000 * digit(4)
  + 1000 * digit(5) + 100 * digit(6) + 10 * digit(7) + digit(8)

NifAccepted(s) ==
  /\ NineCharacters(s)
  /\ IsDigit(s[1]) \/ s[1] \in Foreign
  /\ \A i \in 2..8 : IsDigit(s[i])
  /\ s[9] = NifLetters[(NifNumber(s) % 23) + 1]

-----------------------------------------------------------------------------
(* CIF *)

CifLetters == <<"J", "A", "B", "C", "D", "E", "F", "G", "H", "I">>
DigitControl  == {"A", "B", "E", "H"}
LetterControl == {"K", "P", "Q", "S"}
Organizations == DigitControl \cup LetterControl
                 \cup {"C", "D", "F", "G", "J", "L", "M", "N", "R", "U", "V", "W"}

\* Mutant: the digits of a doubled digit are not added up.
DoubledWhole(d) == 2 * d

Doubled(d) == ((2 * d) \div 10) + ((2 * d) % 10)

(* The first, third, fifth and seventh digits count double.                *)
CifControl(s) ==
  LET counted(i) == IF i % 2 = 1 THEN Doubled(ValueOf[s[i + 1]]) ELSE ValueOf[s[i + 1]]
      sum == counted(1) + counted(2) + counted(3) + counted(4) + counted(5)
             + counted(6) + counted(7)
  IN (10 - (sum % 10)) % 10

CifAccepted(s) ==
  /\ NineCharacters(s)
  /\ s[1] \in Organizations
  /\ \A i \in 2..8 : IsDigit(s[i])
  /\ \/ s[1] \notin LetterControl /\ s[9] = DigitChars[CifControl(s) + 1]
     \/ s[1] \notin DigitControl /\ s[9] = CifLetters[CifControl(s) + 1]
=============================================================================
