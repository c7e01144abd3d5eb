------------------------------- MODULE NetUtil -------------------------------
(***************************************************************************)
(* The addresses of src/util/NetUtil: "ip:port", where the ip may hold     *)
(* colons of its own and the port is what follows the last one; and the    *)
(* functions that bind a socket to see whether a port is free.             *)
(*                                                                         *)
(* A string is a sequence of characters, of which only the colon matters.  *)
(* Of the operating system (external) taken are the ports that this        *)
(* process cannot bind, and handles is how many handles it has open.       *)
(***************************************************************************)
EXTENDS Integers, Sequences

CONSTANTS
    Char,
    Colon,      \* ':'
    stoi(_),    \* std::stoi
    Ephemeral,  \* the ports that bind() chooses from when it is asked for port 0
    MaxHandles  \* how many handles a process may have open

-----------------------------------------------------------------------------
IsLastColon(uri, pos) ==
    /\ pos \in 1..Len(uri)
    /\ uri[pos] = Colon
    /\ \A k \in (pos + 1)..Len(uri) : uri[k] # Colon

\* uri.find_last_of(":"), counted from 1
HasColon(uri) == \E pos \in 1..Len(uri) : IsLastColon(uri, pos)
LastColon(uri) == CHOOSE pos \in 1..Len(uri) : IsLastColon(uri, pos)

Before(uri, pos) == SubSeq(uri, 1, pos - 1)
After(uri, pos) == SubSeq(uri, pos + 1, Len(uri))

compute_new_uri(old_uri, new_port) ==
    IF HasColon(old_uri) THEN Before(old_uri, LastColon(old_uri)) \o new_port
    ELSE old_uri \o new_port

port_is_valid(port) == port >= 1024 /\ port <= 65535

uri_is_valid(uri) ==
    /\ HasColon(uri)
    /\ LastColon(uri) # Len(uri)
    /\ Before(uri, LastColon(uri)) # <<>>
    /\ port_is_valid(stoi(After(uri, LastColon(uri))))

\* What ip_port_from_uri() returns and what it leaves in ip and port.
ip_port_from_uri(uri, ip, port) ==
    IF /\ HasColon(uri)
       /\ LastColon(uri) # Len(uri)
       /\ Before(uri, LastColon(uri)) # <<>>
       /\ port_is_valid(stoi(After(uri, LastColon(uri))))
    THEN [returns |-> TRUE, ip |-> Before(uri, LastColon(uri)),
          port |-> stoi(After(uri, LastColon(uri)))]
    ELSE [returns |-> FALSE, ip |-> ip, port |-> port]

-----------------------------------------------------------------------------
\* socket() gives a handle and bind() to port, which 0 leaves to the system,
\* succeeds.
Binds(taken, handles, port) ==
    /\ handles < MaxHandles
    /\ IF port = 0 THEN Ephemeral \ taken # {} ELSE port \notin taken

\* The handles that are open afterwards: the new one is closed where bind()
\* succeeds and nowhere else.
HandlesAfter(taken, handles, port) ==
    IF handles < MaxHandles /\ ~Binds(taken, handles, port) THEN handles + 1 ELSE handles

\* The port is cut to 16 bits.
Short(port) == port % 65536
port_is_available(taken, handles, port) == Binds(taken, handles, Short(port))

\* What find_available_port() may return: a port that it has bound and let go of
\* again, or 0, also when it cannot learn which port it has.
find_available_port(taken, handles) ==
    {0} \cup IF Binds(taken, handles, 0) THEN Ephemeral \ taken ELSE {}
=============================================================================
