----------------------------- MODULE MCTicketSale -----------------------------
(* The ticket's sale on small instances: two brackets of a share each. *)
EXTENDS TicketSale

\* Under the stop; a price over it is no different from none.
Under     == [last |-> 1, bid |-> 1]
UnderOnly == {Under}
===============================================================================
