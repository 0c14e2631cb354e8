------------------------------ MODULE MCTelnet ------------------------------
EXTENDS Telnet

MCTerms == <<"TTYPE">>

\* Clients that do nothing, that do what is asked, and some between; and one that does not
\* answer DO ECHO.
MCClients ==
    [mine : {{}, {"BINARY"}, {"TTYPE", "NAWS"}, {"NAWS", "ECHO"}, {"BINARY", "TTYPE", "NAWS", "ECHO"}},
     his : {{}, {"BINARY"}, {"BINARY", "ECHO", "SGA"}},
     mute : {{}}]
    \cup [mine : {{"BINARY", "TTYPE"}}, his : {{"BINARY", "ECHO", "SGA"}}, mute : {{"ECHO"}}]
=============================================================================
