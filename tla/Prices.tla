------------------------------- MODULE Prices -------------------------------
(***************************************************************************)
(* The arithmetic on amounts of money: Sum and MultiplySlow of utility.c,  *)
(* with which the checkout service and the frontend add and multiply, and  *)
(* Carry and Convert of currencyservice.c.  An amount is so many Units and *)
(* so many Nanos, NANOSMOD of which make a unit.  A rate is a fraction;    *)
(* that the code divides doubles is left out.                              *)
(***************************************************************************)
EXTENDS Sums

CONSTANT NANOSMOD

ASSUME PricesAssumption == NANOSMOD \in Nat \ {0}

Money == [Units : Int, Nanos : Int]

\* The division of C goes towards zero, and % has the sign of its operand.
Quotient(n, d) == IF n >= 0 THEN n \div d ELSE -((-n) \div d)
Remainder(n, d) == n - d * Quotient(n, d)

SameSign(units, nanos) ==
    \/ units = 0 /\ nanos = 0
    \/ units > 0 /\ nanos >= 0
    \/ units < 0 /\ nanos <= 0

\* Mutant of Sum: nothing is carried between the nanos and the units.
SumUncarried(total, add) ==
    [Units |-> total.Units + add.Units, Nanos |-> Remainder(total.Nanos + add.Nanos, NANOSMOD)]

(* What is left in total.  Half a unit comes out as a unit less half a     *)
(* unit: no units and some nanos are taken to be of different signs.       *)
Sum(total, add) ==
    LET units == total.Units + add.Units
        nanos == total.Nanos + add.Nanos
    IN IF SameSign(units, nanos)
       THEN [Units |-> units + Quotient(nanos, NANOSMOD), Nanos |-> Remainder(nanos, NANOSMOD)]
       ELSE IF units > 0
       THEN [Units |-> units - 1, Nanos |-> nanos + NANOSMOD]
       ELSE [Units |-> units + 1, Nanos |-> nanos - NANOSMOD]

(* total is both operands of Sum: each turn doubles it. *)
MultiplySlow(total, n) ==
    LET turns == IF n = 0 THEN 0 ELSE n - 1
        turn[k \in 0 .. turns] == IF k = 0 THEN total ELSE Sum(turn[k - 1], turn[k - 1])
    IN turn[turns]

(* Units is an integer, and what there is of it after % 1 is nothing. *)
Carry(amount) ==
    LET nanos == amount.Nanos + (amount.Units % 1) * NANOSMOD
    IN [Units |-> amount.Units + nanos \div NANOSMOD, Nanos |-> Remainder(nanos, NANOSMOD)]

Divided(amount, rate) ==
    [Units |-> Quotient(amount.Units * rate.of, rate.by),
     Nanos |-> Quotient(amount.Nanos * rate.of, rate.by)]

(* To euros, and from euros: both are a division by the rate. *)
Convert(amount, from, to) == Carry(Divided(Carry(Divided(amount, from)), to))

-----------------------------------------------------------------------------
Worth(amount) == amount.Units * NANOSMOD + amount.Nanos

Normal(amount) == -NANOSMOD < amount.Nanos /\ amount.Nanos < NANOSMOD

NoMoney == [Units |-> 0, Nanos |-> 0]

(* What is owed is not negative, though one of its two parts may be; what  *)
(* is shown has no negative part; a rate is between two currencies.        *)
Owed == {m \in Money : Normal(m) /\ Worth(m) >= 0}
Price == [Units : Nat, Nanos : 0 .. NANOSMOD - 1]
Rate == [by : Nat \ {0}, of : Nat \ {0}]

\* The total of a sequence of amounts, each of them added to what there is.
Total(amounts) ==
    LET total[k \in 0 .. Len(amounts)] ==
            IF k = 0 THEN NoMoney ELSE Sum(total[k - 1], amounts[k])
    IN total[Len(amounts)]

(* A total is worth what was added, whatever signs the steps went through, *)
(* and its nanos never reach a unit, so that those of two fit in 32 bits.  *)
TotalIsSum(amounts) ==
    /\ Worth(Total(amounts)) = SumOf([k \in 1 .. Len(amounts) |-> Worth(amounts[k])])
    /\ Normal(Total(amounts))

(* MultiplySlow doubles n - 1 times: it is n times the amount for an item  *)
(* or two of a product, and more than that for three and more.             *)
Multiplies(amount, n) ==
    LET product == MultiplySlow(amount, n) IN
    /\ Worth(product) = Doubled(Worth(amount), IF n = 0 THEN 0 ELSE n - 1)
    /\ Normal(product)

(* What is converted is never worth more than the two divisions make of    *)
(* it, and less by no more than the unit and the nano each may drop.       *)
ConvertLoses(amount, from, to) ==
    LET exact == Worth(amount) * from.of * to.of
        unit == from.by * to.by
        got == Convert(amount, from, to)
    IN  /\ Normal(got) /\ got.Nanos >= 0
        /\ unit * Worth(got) <= exact
        /\ exact - unit * Worth(got) < (NANOSMOD + 1) * (unit + to.of * from.by)
=============================================================================
