------------------------------ MODULE Computed ------------------------------
(***************************************************************************)
(* The functions that compute something, each asked one question: any of   *)
(* those that the programs may ask it.                                     *)
(***************************************************************************)
EXTENDS Prices, Catalogue, Payment, Reports

VARIABLE input

(* What may be asked.  The seconds are those of a clock that fits a        *)
(* uint64_t, and there are no files of events without events.              *)
Asked(question) ==
    CASE question.what = "total"     -> question.of \in Seq(Owed)
      [] question.what = "product"   -> question.of \in Owed /\ question.n \in Nat
      [] question.what = "convert"   -> question.of \in Price /\ question.from \in Rate /\ question.to \in Rate
      [] question.what = "card"      -> question.of \in Seq(Digit)
      [] question.what = "search"    -> question.of \in STRING
      [] question.what = "events"    -> question.of \in Seq(0 .. Word - 1) \ {<<>>}
      [] question.what = "latencies" -> question.of \in Seq(Int)
      [] OTHER                        -> question.what = "nothing"

ComputedSpec == Asked(input) /\ [][UNCHANGED input]_input

(* What is computed agrees with what it is to be: totals, products and     *)
(* conversions of money (Sum, MultiplySlow, Convert), the cards that are   *)
(* taken (Charge), the products that a search finds and that the services  *)
(* have in common, and the reports of the traffic generators.              *)
ComputedRight ==
    CASE input.what = "total"     -> TotalIsSum(input.of)
      [] input.what = "product"   -> Multiplies(input.of, input.n)
      [] input.what = "convert"   -> ConvertLoses(input.of, input.from, input.to)
      [] input.what = "card"      -> ErrorsAreFound(input.of) /\ ExpiresInTime(input.of)
      [] input.what = "search"    -> SearchFinds(input.of) /\ TablesMatch
      [] input.what = "events"    -> EventsAreCounted(input.of)
      [] input.what = "latencies" -> RanksAreRight(input.of)
      [] OTHER                    -> TRUE
=============================================================================
