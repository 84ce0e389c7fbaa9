------------------------ MODULE MCEssendiXCExchange ------------------------
(* A few chains: no root, a root among other blocks, two roots.              *)
EXTENDS EssendiXCExchange

CONSTANTS a1, a2

SomeBundles == {<<"leaf", "intermediate">>,
                <<"key", "leaf", "intermediate", "garbled", "root", "root">>}

\* The addresses are alike: nothing is lost by naming the issuer's first one.
FirstAddress == Init /\ issuer.address = a1
FirstAddressSpec == FirstAddress /\ [][Next]_vars /\ Fairness

=============================================================================
