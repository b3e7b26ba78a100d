------------------------------- MODULE MCJson -------------------------------
(* Json over four alphabets.                                               *)
EXTENDS Json

Numbers == [max |-> 7, pieces |-> {<<Minus>>, <<Dot>>, <<101>>, <<Zero>>, <<49>>, <<50>>, <<56>>,
                            <<Zero, Zero, Zero, Zero>>}]

Strings == [max |-> 6, pieces |-> {<<Quote>>, <<Backslash>>, <<Slash>>, <<Nul>>, <<110>>, <<Newline>>, <<97>>}]

Code == [max |-> 7, pieces |-> {<<Quote>>, <<Backslash, 117>>, <<Zero>>, <<56>>, <<55>>, <<102>>, <<68>>}]

Trees == [max |-> 7, pieces |-> {<<ArrOpen>>, <<ArrClose>>, <<ObjOpen>>, <<ObjClose>>, <<Comma, Space>>,
                          <<Quote, 97, Quote, Colon>>, <<Quote, 98, Quote, Space>>, <<Colon>>,
                          <<49>>, <<Dot, 53>>, True, False, Null, <<110>>, <<116>>}]

All == {Numbers, Strings, Code, Trees}
=============================================================================
