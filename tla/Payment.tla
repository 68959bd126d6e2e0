------------------------------- MODULE Payment -------------------------------
(***************************************************************************)
(* The payment service, paymentservice.c: which cards Charge takes.  A     *)
(* card number is the sequence of its digits, the first of which is not 0, *)
(* as % 10 and / 10 take it apart.                                         *)
(***************************************************************************)
EXTENDS Sums

Digit == 0 .. 9

\* get_digit_sum, of a number of at most two digits.
DigitSum(n) == n \div 10 + (n % 10)

\* The digits are doubled one in two, from the right.
LuhnSum(card) ==
    LET From(i) == card[Len(card) - i]      \* The digit after i others.
    IN SumOf([k \in 1 .. Len(card) |->
            IF (k - 1) % 2 = 1 THEN DigitSum(2 * From(k - 1)) ELSE From(k - 1)])

FirstDigits(card) == 10 * card[1] + (IF Len(card) > 1 THEN card[2] ELSE 0)

\* creditcard_validator: the type of the card.
CardType(card) ==
    LET digits == Len(card)
        first == FirstDigits(card)
    IN IF LuhnSum(card) % 10 # 0 THEN "invalid"
       ELSE IF digits = 15 /\ first \in {34, 37} THEN "amex"
       ELSE IF digits = 16 /\ first \in 50 .. 55 \union 22 .. 27 THEN "mastercard"
       ELSE IF digits \in 13 .. 16 /\ first \div 10 = 4 THEN "visa"
       ELSE "invalid"

\* Charge: the card is refused, or the transaction gets an identifier.
Accepted == {"visa", "mastercard"}
CurrentMonth == 5
CurrentYear == 2022
Charged(card, year, month) ==
    /\ CardType(card) \in Accepted
    /\ CurrentYear * 12 + CurrentMonth <= year * 12 + month

-----------------------------------------------------------------------------
(* One wrong digit, and two neighbours in each other's place unless they   *)
(* are 0 and 9, make a card that is valid one that is refused.             *)
ErrorsAreFound(card) ==
    CardType(card) # "invalid" =>
        /\ \A i \in DOMAIN card : \A d \in Digit \ {card[i]} :
                <<i, d>> # <<1, 0>> => ~Charged([card EXCEPT ![i] = d], CurrentYear, CurrentMonth)
        /\ \A i \in 2 .. Len(card) :
                card[i] # card[i - 1] /\ {card[i], card[i - 1]} # {0, 9} /\ (i = 2 => card[2] # 0)
                    => CardType([card EXCEPT ![i] = card[i - 1], ![i - 1] = card[i]]) = "invalid"

(* A card is charged to the end of the month it expires in, and not after. *)
ExpiresInTime(card) ==
    \A year \in CurrentYear - 1 .. CurrentYear + 1, month \in 1 .. 12 :
        Charged(card, year, month) <=>
            /\ CardType(card) \in Accepted
            /\ (year > CurrentYear \/ (year = CurrentYear /\ month >= CurrentMonth))
=============================================================================
