------------------------------ MODULE MC_Snmp ------------------------------
EXTENDS Snmp

\* Three clients; the second listens on IPv6 (its address column is empty).
MC_Clients == <<"inet", "inet6", "inet">>

\* Only IPv4 clients: the walk of every column then covers every client.
MC_ClientsInet == <<"inet", "inet">>

\* Room for every row a walk of the bigger table can return, duplicates
\* included.
MC_MaxWalk == 4
=============================================================================
