------------------------------ MODULE MCHandles ------------------------------
(* A small instance of Handles.                                            *)
EXTENDS Handles

AllBundles == UNION {[1..n -> {"good", "bad", "other"}] : n \in 0..MaxItems}
AnyQueue == {<<>>, <<"NO_START_LINE", "SSL">>, <<"SSL">>}
TwoConns == {1, 2}
CallsFail == {"call"}

=============================================================================
