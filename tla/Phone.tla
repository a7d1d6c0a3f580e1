------------------------------- MODULE Phone -------------------------------
(***************************************************************************)
(* Phone numbers as they are typed, and the one shape they are stored in:  *)
(* phone.ts, and the check of auth.service.ts the sign-up form calls while *)
(* the number is typed.                                                    *)
(*                                                                         *)
(* A number is the sequence of its digits: everything else is dropped by   *)
(* the first step of every function.                                       *)
(***************************************************************************)
EXTENDS Integers, Sequences

CONSTANTS
  Digits,         \* the digits that are typed
  OperatorCodes,  \* the keys of OPERATOR_CODES, as pairs of digits
  MaxTyped        \* bound: how long a number is typed

ASSUME PhoneAssumption == Digits \subseteq 0..9 /\ OperatorCodes \subseteq (0..9) \X (0..9)

VARIABLE typed

COUNTRY_CODE == <<9, 9, 8>>
NATIONAL_LENGTH == 9
Invalid == <<>>  \* normalizePhone throws

HasCountryCode(d) == Len(d) >= 3 /\ SubSeq(d, 1, 3) = COUNTRY_CODE
WithoutCountryCode(d) == SubSeq(d, 4, Len(d))

Mutant_StripAlways(d) == IF HasCountryCode(d) THEN WithoutCountryCode(d) ELSE d
\* The country code is dropped only when the number is too long without it.
ToNationalDigits(d) ==
  IF Len(d) > NATIONAL_LENGTH /\ HasCountryCode(d) THEN WithoutCountryCode(d) ELSE d

HasOperator(d) ==
  LET national == ToNationalDigits(d)
  IN Len(national) >= 2 /\ <<national[1], national[2]>> \in OperatorCodes

\* It hands the national digits on, and operatorOf strips them once more.
IsValidUzPhone(d) ==
  LET national == ToNationalDigits(d)
  IN Len(national) = NATIONAL_LENGTH /\ HasOperator(national)

NormalizePhone(d) ==
  IF IsValidUzPhone(d) THEN COUNTRY_CODE \o ToNationalDigits(d) ELSE Invalid

\* checkPhone drops the country code by itself, whatever the length.
CheckPhone(d) ==
  /\ HasOperator(d)
  /\ Len(IF HasCountryCode(d) THEN WithoutCountryCode(d) ELSE d) = NATIONAL_LENGTH

-----------------------------------------------------------------------------
PhoneInit == typed = <<>>
Type(digit) == Len(typed) < MaxTyped /\ typed' = Append(typed, digit)
Erase == typed # <<>> /\ typed' = SubSeq(typed, 1, Len(typed) - 1)
PhoneNext == Erase \/ \E digit \in Digits : Type(digit)
PhoneSpec == PhoneInit /\ [][PhoneNext]_typed

-----------------------------------------------------------------------------
\* "One shape in the database, always": a number that is accepted is stored with the
\* country code and nine digits, normalizing it again changes nothing, and with or
\* without the country code it is the same number -- also when the national number
\* begins with 998 itself.
OneShape ==
  LET stored == NormalizePhone(typed) IN
  stored # Invalid =>
    /\ Len(stored) = 3 + NATIONAL_LENGTH /\ HasCountryCode(stored)
    /\ NormalizePhone(stored) = stored

Spelling ==
  Len(typed) = NATIONAL_LENGTH =>
    /\ NormalizePhone(typed) = NormalizePhone(COUNTRY_CODE \o typed)
    /\ IsValidUzPhone(typed) = (<<typed[1], typed[2]>> \in OperatorCodes)

NumbersAgree == OneShape /\ Spelling

\* checkPhone and sign-up agree on what a number is.  They do not: a national number
\* that begins with 998 is refused by the check and accepted by the sign-up.
CheckAgrees == CheckPhone(typed) = IsValidUzPhone(typed)
=============================================================================
