------------------------------ MODULE WebClient ------------------------------
(***************************************************************************)
(* The pages of WebClient/index.html that control one PiCam.  A page shows *)
(* the status that it has parsed last, and keeps the two flags that its    *)
(* buttons toggle; a click changes the flag before the request has even    *)
(* left.  Requests and statuses travel in order; the server runs a page's  *)
(* requests one by one, and each that changes a value is answered to every *)
(* page, as module RemoteControl has it.                                   *)
(***************************************************************************)
EXTENDS Naturals, Sequences

CONSTANTS
    Pages,
    Nothing,           \* what a page shows that has parsed no status yet
    MaxClicks,         \* bounds on the clicks, the edges of the door, and the
    MaxDoorEdges,      \* times that pages are loaded
    MaxLoads

Buttons == {"lightOverride", "coverageAlwaysOn"}

\* doorSwitch, light and the two flags, as sendStatus() writes them.
Fields == {"doorSwitch", "light"} \cup Buttons
Statuses == [Fields -> BOOLEAN]

ASSUME WebClientAssumption ==
    /\ Nothing \notin Statuses
    /\ MaxClicks \in Nat /\ MaxDoorEdges \in Nat /\ MaxLoads \in Nat

VARIABLES
    status,            \* the control's
    open,              \* the pages whose WebSocket is open
    flags,             \* flags[p]: wLightOverride and wCoverageAlwaysOn of page p
    shown,             \* shown[p]: the status whose marks and icons p shows
    toServer, toPage,  \* what is on its way from and to each page
    clicks, doorEdges, loads

counts == <<clicks, doorEdges, loads>>
vars == <<status, open, flags, shown, toServer, toPage, counts>>

GetStatus == [button |-> "none", value |-> FALSE]
Requests == [button : Buttons, value : BOOLEAN] \cup {GetStatus}

FlagsOf(s) == [b \in Buttons |-> s[b]]

Init ==
    /\ \E alwaysOn \in BOOLEAN :
          status = [f \in Fields |-> f = "coverageAlwaysOn" /\ alwaysOn]
    /\ open = {}
    /\ flags = [p \in Pages |-> [b \in Buttons |-> FALSE]]
    /\ shown = [p \in Pages |-> Nothing]
    /\ toServer = [p \in Pages |-> <<>>]
    /\ toPage = [p \in Pages |-> <<>>]
    /\ clicks = 0 /\ doorEdges = 0 /\ loads = 0

------------------------------------------------------------------------------
\* The page.

\* The script starts anew, connect() succeeds, and greetings() asks for the status.
Load(p) ==
    /\ p \notin open
    /\ loads < MaxLoads
    /\ loads' = loads + 1
    /\ open' = open \cup {p}
    /\ flags' = [flags EXCEPT ![p] = [b \in Buttons |-> FALSE]]
    /\ shown' = [shown EXCEPT ![p] = Nothing]
    /\ toServer' = [toServer EXCEPT ![p] = <<GetStatus>>]
    /\ UNCHANGED <<status, toPage, clicks, doorEdges>>

\* The page is closed, or its connection lost with what was on its way.  It does
\* not connect again by itself.
Leave(p) ==
    /\ p \in open
    /\ open' = open \ {p}
    /\ toServer' = [toServer EXCEPT ![p] = <<>>]
    /\ toPage' = [toPage EXCEPT ![p] = <<>>]
    /\ UNCHANGED <<status, flags, shown, counts>>

\* Mutant: the flags are left as the clicks have made them.
ParseMessageKeepingFlags(p) ==
    /\ toPage[p] # <<>>
    /\ shown' = [shown EXCEPT ![p] = Head(toPage[p])]
    /\ toPage' = [toPage EXCEPT ![p] = Tail(@)]
    /\ UNCHANGED <<status, open, flags, toServer, counts>>

ParseMessage(p) ==
    /\ toPage[p] # <<>>
    /\ shown' = [shown EXCEPT ![p] = Head(toPage[p])]
    /\ flags' = [flags EXCEPT ![p] = FlagsOf(Head(toPage[p]))]
    /\ toPage' = [toPage EXCEPT ![p] = Tail(@)]
    /\ UNCHANGED <<status, open, toServer, counts>>

\* Mutant: the flag is never sent.
ClickUnsent(p, button) ==
    /\ p \in open
    /\ clicks < MaxClicks
    /\ clicks' = clicks + 1
    /\ flags' = [flags EXCEPT ![p][button] = ~@]
    /\ UNCHANGED <<status, open, shown, toServer, toPage, doorEdges, loads>>

\* light_override() and coverage_always_on(): the flag is toggled, whatever is on
\* its way, and its value sent.
Click(p, button) ==
    /\ p \in open
    /\ clicks < MaxClicks
    /\ clicks' = clicks + 1
    /\ flags' = [flags EXCEPT ![p][button] = ~@]
    /\ toServer' = [toServer EXCEPT
          ![p] = Append(@, [button |-> button, value |-> ~flags[p][button]])]
    /\ UNCHANGED <<status, open, shown, toPage, doorEdges, loads>>

------------------------------------------------------------------------------
\* The server.

\* What becomes of the status: the light is on while the door is open or the
\* override is set.
Becomes(field, value) ==
    LET s == [status EXCEPT ![field] = value]
    IN  status' = [s EXCEPT !["light"] = s["doorSwitch"] \/ s["lightOverride"]]

SendTo(pages) ==
    toPage' = [p \in Pages |-> IF p \in pages THEN Append(toPage[p], status') ELSE toPage[p]]

\* operator() of RemoteControl and the item that it pushes.
Handle(p) ==
    /\ toServer[p] # <<>>
    /\ toServer' = [toServer EXCEPT ![p] = Tail(@)]
    /\ LET request == Head(toServer[p])
       IN  \/ request = GetStatus /\ UNCHANGED status /\ SendTo({p})
           \/ request # GetStatus /\ Becomes(request.button, request.value) /\ SendTo(open)
    /\ UNCHANGED <<open, flags, shown, counts>>

DoorSwitch ==
    /\ doorEdges < MaxDoorEdges
    /\ doorEdges' = doorEdges + 1
    /\ Becomes("doorSwitch", ~status["doorSwitch"])
    /\ SendTo(open)
    /\ UNCHANGED <<open, flags, shown, toServer, clicks, loads>>

------------------------------------------------------------------------------
Next ==
    \/ \E p \in Pages :
          \/ Load(p) \/ Leave(p) \/ ParseMessage(p) \/ Handle(p)
          \/ \E button \in Buttons : Click(p, button)
    \/ DoorSwitch

\* What is on its way arrives and is handled.
Spec ==
    /\ Init /\ [][Next]_vars
    /\ \A p \in Pages : WF_vars(ParseMessage(p)) /\ WF_vars(Handle(p))

------------------------------------------------------------------------------
\* Properties.

TypeOK ==
    /\ status \in Statuses
    /\ open \subseteq Pages
    /\ flags \in [Pages -> [Buttons -> BOOLEAN]]
    /\ shown \in [Pages -> Statuses \cup {Nothing}]
    /\ toServer \in [Pages -> Seq(Requests)]
    /\ toPage \in [Pages -> Seq(Statuses)]
    /\ \A p \in Pages \ open : toServer[p] = <<>> /\ toPage[p] = <<>>

Agrees(p) == shown[p] = status /\ flags[p] = FlagsOf(status)

\* When nothing is on its way to or from a page, what it shows is how things are,
\* and so are the flags that its next clicks toggle: clicks that overtake statuses,
\* and those of other pages, put them wrong only for as long as something moves.
QuietMeansAgreed ==
    \A p \in open : toServer[p] = <<>> /\ toPage[p] = <<>> => Agrees(p)

\* Each page that stays open agrees with PiCam again and again, whatever it and the
\* others have clicked.
EveryPageCatchesUp == \A p \in Pages : []<>(p \notin open \/ Agrees(p))
==============================================================================
