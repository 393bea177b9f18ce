-------------------------------- MODULE MCCalls --------------------------------
(***************************************************************************)
(* A main function that calls functions of seven parameters (one on the    *)
(* stack, and padding), of eight (two on the stack) and of one, with       *)
(* operands of every size; `seven' calls `eight' and itself, `eight'       *)
(* calls `one'.                                                            *)
(***************************************************************************)
EXTENDS Calls

CONSTANTS main, seven, eight, one

TheSizes == [fn \in {main, seven, eight, one} |->
    CASE fn = main -> <<1, 8, 4>>
      [] fn = seven -> <<8, 1, 1, 4, 8, 1, 4, 8>>
      [] fn = eight -> <<1, 1, 8, 8, 1, 1, 8, 1, 4>>
      [] fn = one -> <<4, 2>>]

TheParamCount == [fn \in {main, seven, eight, one} |->
    CASE fn = main -> 0 [] fn = seven -> 7 [] fn = eight -> 8 [] fn = one -> 1]

TheAssigned == [fn \in {main, seven, eight, one} |->
    CASE fn = main -> {1, 2, 3} [] fn = seven -> {7, 8} [] fn = eight -> {9} [] fn = one -> {2}]

Passing(callee, operands, result) ==
    [callee |-> callee, args |-> operands, result |-> result]

TheCallSites == [fn \in {main, seven, eight, one} |->
    CASE fn = main -> {Passing(seven, <<2, 1, 1, 3, 2, 1, 3>>, 2),
                       Passing(eight, <<1, 1, 2, 2, 1, 1, 2, 1>>, 0)}
      [] fn = seven -> {Passing(seven, <<8, 3, 2, 7, 1, 6, 4>>, 8),
                    Passing(eight, <<6, 2, 5, 1, 3, 2, 8, 6>>, 0)}
      [] fn = eight -> {Passing(one, <<9>>, 0)}
      [] fn = one -> {}]

=============================================================================
