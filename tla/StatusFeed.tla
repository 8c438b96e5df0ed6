------------------------------ MODULE StatusFeed ------------------------------
(***************************************************************************)
(* What PiCam promises its clients, without threads or queues: there is one*)
(* status, every change of it is owed to every client that is connected,   *)
(* and the next change waits until nobody is owed the last one.            *)
(***************************************************************************)
CONSTANTS
    Connections,
    None               \* nothing seen yet

VARIABLES
    status,            \* the flags that a client is told
    pin,               \* the level of the light's pin
    connected,         \* the clients
    owed,              \* those that are yet to be told the status
    seen               \* seen[c]: what the client was told last

vars == <<status, pin, connected, owed, seen>>

\* The flags; the light follows the two demands for it.
Flags(doorSwitch, lightOverride, coverageAlwaysOn) ==
    [doorSwitch |-> doorSwitch, light |-> doorSwitch \/ lightOverride,
     lightOverride |-> lightOverride, coverageAlwaysOn |-> coverageAlwaysOn]

Init ==
    /\ \E always \in BOOLEAN : status = Flags(FALSE, FALSE, always)
    /\ pin = FALSE
    /\ connected = {}
    /\ owed = {}
    /\ seen = [c \in Connections |-> None]

\* One of the flags is set, to what it may have been before.
Change ==
    /\ owed = {}
    /\ \E value \in BOOLEAN :
          \/ status' = Flags(value, status.lightOverride, status.coverageAlwaysOn)
          \/ status' = Flags(status.doorSwitch, value, status.coverageAlwaysOn)
          \/ status' = Flags(status.doorSwitch, status.lightOverride, value)
    /\ pin' = status'.light
    /\ owed' = connected
    /\ UNCHANGED <<connected, seen>>

\* A client asks for the status.
Ask(c) ==
    /\ owed = {}
    /\ c \in connected
    /\ owed' = {c}
    /\ UNCHANGED <<status, pin, connected, seen>>

Tell(c) ==
    /\ c \in owed
    /\ owed' = owed \ {c}
    /\ seen' = [seen EXCEPT ![c] = status]
    /\ UNCHANGED <<status, pin, connected>>

\* One that comes while others are being told may be told, too.
Join(c) ==
    /\ c \notin connected
    /\ connected' = connected \cup {c}
    /\ owed' \in {owed, owed \cup {c}}
    /\ UNCHANGED <<status, pin, seen>>

Leave(c) ==
    /\ c \in connected
    /\ connected' = connected \ {c}
    /\ owed' = owed \ {c}
    /\ seen' = [seen EXCEPT ![c] = None]
    /\ UNCHANGED <<status, pin>>

Next ==
    \/ Change
    \/ \E c \in Connections : Ask(c) \/ Tell(c) \/ Join(c) \/ Leave(c)

Spec == Init /\ [][Next]_vars
==============================================================================
