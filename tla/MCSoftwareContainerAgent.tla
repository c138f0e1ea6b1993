---------------------- MODULE MCSoftwareContainerAgent ----------------------
EXTENDS SoftwareContainerAgent

\* Arrays with and without a write buffer, empty, and failing at their second
\* element.
MCOptionArrays == {<<>>, <<"on">>, <<"off">>, <<"on", "bad">>}

\* Clients that never ask for a write buffer.
MCPlainArrays == {<<>>, <<"off">>, <<"off", "bad">>}

\* Clients whose only request for a write buffer is one that does not parse.
MCFailingArrays == {<<>>, <<"on", "bad">>}
=============================================================================
