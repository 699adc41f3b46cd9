--------------------------- MODULE MCRiskPredictor ---------------------------
(***************************************************************************)
(* Three clients of the server's transport tools: flight_search, whose     *)
(* fallbacks are a mock nobody registers at startup and train_search.      *)
(***************************************************************************)
EXTENDS RiskPredictor, TLC

CONSTANTS c1, c2, c3

MCClients == {c1, c2, c3}
MCStartup == <<"flight_search", "train_search">>
MCLate == {"flight_search_mock"}
MCFallbackOf == [t \in {"flight_search", "train_search", "flight_search_mock"} |->
                   CASE t = "flight_search" -> <<"flight_search_mock", "train_search">>
                     [] t = "flight_search_mock" -> <<"train_search">>
                     [] OTHER -> <<>>]
MCActions == {"search_flights", "checkout", "search_payment", "check_booking", "cancel_booking",
              "summarize"}
MCKeywordsIn == [a \in MCActions |->
   CASE a = "search_flights" -> {"search"}
     [] a = "checkout" -> {"check", "checkout"}
     [] a = "search_payment" -> {"search", "payment", "pay"}
     [] a = "check_booking" -> {"check", "booking", "book"}
     [] a = "cancel_booking" -> {"cancel", "booking", "book", "cancel_booking"}
     [] OTHER -> {}]
Symmetry == Permutations(MCClients)
=============================================================================
