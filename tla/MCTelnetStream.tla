--------------------------- MODULE MCTelnetStream ---------------------------
EXTENDS TelnetStream

CONSTANT w1

MCWriters == {w1}

\* Text: a letter that is the number of MCCP2, and letters with a nul byte.
\* Commands: a two byte command with a refusal of MCCP2, agreement to MCCP2, an
\* unknown option, and the beginning of compression.
MCMessages ==
    { <<"V">>, <<"X", "X", "NUL">>,
      <<"IAC", "NOP", "IAC", "DONT", "V">>, DoMCCP2, <<"IAC", "DO", "X">>,
      BeginMCCP3 }
=============================================================================
