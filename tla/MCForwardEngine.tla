--------------------------- MODULE MCForwardEngine ---------------------------
(* Forward_Engine with one worker: the two share nothing but running_ and    *)
(* stop()'s order.  A socket ring of three slots, a queue of two frames and  *)
(* five arrivals: both wrap, and both are found full.                        *)
EXTENDS ForwardEngine

CONSTANT down

MCWorker == {down}
==============================================================================
