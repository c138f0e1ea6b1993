----------------------- MODULE ContainerOptionParser -----------------------
(***************************************************************************)
(* ContainerOptionParser: the options Create takes as a JSON array.  Each  *)
(* element is what readConfigElement makes of it: "on" and "off" for an    *)
(* object with writeBufferEnabled true and false, "bad" for one without it *)
(* or for something that is no object.                                     *)
(*                                                                         *)
(* m_options is the parser's half-built result; only its write buffer flag *)
(* matters, as toConfig copies nothing else to the container's settings.   *)
(***************************************************************************)
EXTENDS Naturals, Sequences

OptionElements == {"on", "off", "bad"}

\* A DynamicContainerOptions as its constructor leaves it.
DefaultOptions == FALSE

\* readConfigElement for the first n elements: each one overwrites the flag.
AfterElements(m_options, array, n) ==
    IF n = 0 THEN m_options ELSE array[n] = "on"

\* How many elements come before the first bad one.
GoodPrefix(array) ==
    LET Bad == {k \in 1..Len(array) : array[k] = "bad"}
    IN  IF Bad = {} THEN Len(array) ELSE (CHOOSE k \in Bad : \A j \in Bad : k <= j) - 1

(***************************************************************************)
(* parse(config): the result, unless it throws, and m_options afterwards.  *)
(* A bad element throws out of the loop, past the lines that replace       *)
(* m_options.                                                              *)
(***************************************************************************)
Parse(m_options, array) ==
    LET n == GoodPrefix(array)
        read == AfterElements(m_options, array, n)
    IN  IF n < Len(array) THEN [ok |-> FALSE, wb |-> read, m_options |-> read]
        ELSE [ok |-> TRUE, wb |-> read, m_options |-> DefaultOptions]
=============================================================================
