---------------------------- MODULE MCDBusGateway ----------------------------
(***************************************************************************)
(* Configurations for the two buses: entries for one of them, for both,    *)
(* for one element each, for none, and an element whose list is broken     *)
(* after its first entry.                                                  *)
(***************************************************************************)
EXTENDS DBusGateway

None    == [kind |-> "absent", entries |-> {}]
List(S) == [kind |-> "list", entries |-> S]
Bad(S)  == [kind |-> "bad", entries |-> S]

Element(sess, sys) == [b \in Buses |-> IF b = "session" THEN sess ELSE sys]

MCArrays ==
    {<<>>,
     <<Element(List({"r1"}), None)>>,
     <<Element(None, List({"r2"}))>>,
     <<Element(List({"r1", "r2"}), List({"r2"}))>>,
     <<Element(List({"r1"}), None), Element(List({"r2"}), List({"r1"}))>>,
     <<Element(List({"r2"}), None), Element(None, List({"r1"}))>>,
     <<Element(List({"r1"}), List({})), Element(List({"r2"}), Bad({"r2"}))>>,
     <<Element(Bad({"r1"}), List({"r2"}))>>}

\* A configuration for both buses, and one for the session bus alone.
BothBuses == {<<Element(List({"r1"}), List({"r1"}))>>, <<Element(List({"r1"}), None)>>}
=============================================================================
