------------------------------ MODULE MCTxPlay ------------------------------
(* Two nodes, two users and the wallet of the taxes.  Between them the     *)
(* transactions edit and create contracts, call them, change the fuel rate,*)
(* add a column, send money, and fail after that, with and without payment.*)
EXTENDS TxPlay

CONSTANTS edit, make, free, column, two, call

Tests == {edit, make, free, column, two, call}
People == {"n1", "n2", "u", "w"}

MCPayer == [t \in Tests |-> IF t = two THEN "n1" ELSE "u"]

MCCode == [t \in Tests |->
  CASE t = edit   -> << <<"edit", "a">>, <<"rate", 3>>, <<"send", 9>>, <<"error">> >>
    [] t = make   -> << <<"create", "b">>, <<"create", "c">> >>
    [] t = free   -> << <<"create", "b">>, <<"edit", "b">> >>
    [] t = column -> << <<"column">>, <<"error">> >>
    [] t = two    -> << <<"edit", "a">>, <<"send", 1>> >>
    [] t = call   -> << <<"rate", 2>>, <<"call", "b">> >>]

MCSize == [t \in Tests |-> CASE t = two -> 4 [] t = free -> 5 [] OTHER -> 1]
MCTokens == [t \in Tests |-> IF t = two THEN {1, 2} ELSE {1}]
MCStorage == [t \in Tests |-> IF t \in {two, column} THEN 1 ELSE 0]
MCPrice == [t \in Tests |-> IF t \in {two, make} THEN 1 ELSE 0]
MCEstimate == <<1, 1>>
MCFree == {free, call}
MCHeavy == {edit, call}

=============================================================================
