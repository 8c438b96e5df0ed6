--------------------------- MODULE WebClientProofs ---------------------------
(***************************************************************************)
(* The safety of WebClient for any number of pages, clicks and edges.      *)
(***************************************************************************)
EXTENDS WebClient, SequenceTheorems, TLAPS

\* The status on its way to a page that was sent last is the control's; when none
\* is on its way, and nothing that would bring one, the page has it already.
PageInv(p) ==
    /\ toPage[p] # <<>> => toPage[p][Len(toPage[p])] = status
    /\ toPage[p] = <<>> /\ toServer[p] = <<>> => Agrees(p)

IInv == TypeOK /\ \A p \in open : PageInv(p)

------------------------------------------------------------------------------
\* Popping the front leaves the last entry last, as long as there is another.
LEMMA LastOfTail ==
    ASSUME NEW S, NEW s \in Seq(S), s # <<>>
    PROVE  /\ Tail(s) = <<>> => Head(s) = s[Len(s)]
           /\ Tail(s) # <<>> => Tail(s)[Len(Tail(s))] = s[Len(s)]
<1>1. /\ Len(s) \in Nat \ {0} /\ Head(s) = s[1] /\ Len(Tail(s)) = Len(s) - 1
      /\ \A i \in 1 .. Len(s) - 1 : Tail(s)[i] = s[i + 1]
    BY HeadTailProperties, EmptySeq
<1>2. Tail(s) = <<>> <=> Len(s) = 1
  <2>1. Tail(s) \in Seq(S) /\ (Tail(s) = <<>> <=> Len(Tail(s)) = 0)
    BY HeadTailProperties, EmptySeq
  <2>2. PICK n \in Nat \ {0} : n = Len(s) /\ n - 1 = Len(Tail(s))
    BY <1>1
  <2>3. n - 1 = 0 <=> n = 1
    OBVIOUS
  <2> QED
    BY <2>1, <2>2, <2>3
<1>3. CASE Len(s) = 1
    BY <1>1, <1>2, <1>3
<1>4. CASE Len(s) # 1
  <2>1. Len(s) - 1 \in 1 .. Len(s) - 1 /\ (Len(s) - 1) + 1 = Len(s)
      BY <1>1, <1>4
  <2> QED
      BY <1>1, <1>2, <1>4, <2>1
<1> QED
    BY <1>3, <1>4

\* A value that changes leaves a status.
LEMMA BecomesAStatus ==
    ASSUME status \in Statuses, NEW field \in {"doorSwitch"} \cup Buttons,
           NEW value \in BOOLEAN, Becomes(field, value)
    PROVE  status' \in Statuses
BY DEF Statuses, Becomes, Buttons, Fields

LEMMA FlagsOfAStatus ==
    ASSUME NEW s \in Statuses
    PROVE  FlagsOf(s) \in [Buttons -> BOOLEAN]
BY DEF Statuses, FlagsOf, Fields

\* Sending puts the status at the end of what is on its way to some, and leaves
\* the others.
LEMMA Sending ==
    ASSUME TypeOK, status' \in Statuses, NEW pages, SendTo(pages)
    PROVE  /\ toPage' \in [Pages -> Seq(Statuses)]
           /\ \A p \in Pages \cap pages :
                 toPage'[p] # <<>> /\ toPage'[p][Len(toPage'[p])] = status'
           /\ \A p \in Pages \ pages : toPage'[p] = toPage[p]
<1>1. \A p \in Pages : toPage[p] \in Seq(Statuses)
    BY DEF TypeOK
<1>2. \A p \in Pages : /\ Append(toPage[p], status') \in Seq(Statuses)
                       /\ Append(toPage[p], status') # <<>>
                       /\ Len(Append(toPage[p], status')) = Len(toPage[p]) + 1
                       /\ Append(toPage[p], status')[Len(toPage[p]) + 1] = status'
    BY <1>1, AppendProperties
<1> QED
    BY <1>1, <1>2 DEF SendTo

LEMMA InitInv == Init => IInv
<1> SUFFICES ASSUME Init PROVE IInv
    OBVIOUS
<1>1. status \in Statuses
    BY DEF Init, Statuses
<1> QED
    BY <1>1 DEF Init, IInv, TypeOK

------------------------------------------------------------------------------
\* A page that is loaded has its question on its way, and no status.
LEMMA LoadStep ==
    ASSUME IInv, NEW page \in Pages, Load(page)
    PROVE  IInv'
<1>1. /\ page \notin open /\ open' = open \cup {page}
      /\ flags' = [flags EXCEPT ![page] = [b \in Buttons |-> FALSE]]
      /\ shown' = [shown EXCEPT ![page] = Nothing]
      /\ toServer' = [toServer EXCEPT ![page] = <<GetStatus>>]
      /\ UNCHANGED <<status, toPage>>
    BY DEF Load
<1>2. <<GetStatus>> \in Seq(Requests) /\ <<GetStatus>> # <<>>
    BY DEF Requests
<1>3. TypeOK'
    BY <1>1, <1>2 DEF IInv, TypeOK
<1>4. ASSUME NEW p \in open' PROVE PageInv(p)'
  <2>1. p \in Pages
      BY <1>1 DEF IInv, TypeOK
  <2>2. CASE p = page
      BY <1>1, <1>2, <2>2 DEF IInv, TypeOK, PageInv
  <2>3. CASE p # page
      BY <1>1, <2>1, <2>3 DEF IInv, TypeOK, PageInv, Agrees
  <2> QED
      BY <2>2, <2>3
<1> QED
    BY <1>3, <1>4 DEF IInv

LEMMA LeaveStep ==
    ASSUME IInv, NEW page \in Pages, Leave(page)
    PROVE  IInv'
<1>1. /\ open' = open \ {page}
      /\ toServer' = [toServer EXCEPT ![page] = <<>>]
      /\ toPage' = [toPage EXCEPT ![page] = <<>>]
      /\ UNCHANGED <<status, flags, shown>>
    BY DEF Leave
<1>2. TypeOK'
    BY <1>1 DEF IInv, TypeOK
<1>3. ASSUME NEW p \in open' PROVE PageInv(p)'
    BY <1>1 DEF IInv, TypeOK, PageInv, Agrees
<1> QED
    BY <1>2, <1>3 DEF IInv

\* The last status on its way is the control's: with it the page agrees.
LEMMA ParseMessageStep ==
    ASSUME IInv, NEW page \in Pages, ParseMessage(page)
    PROVE  IInv'
<1> DEFINE s == toPage[page]
<1>1. /\ s # <<>> /\ s \in Seq(Statuses)
      /\ shown' = [shown EXCEPT ![page] = Head(s)]
      /\ flags' = [flags EXCEPT ![page] = FlagsOf(Head(s))]
      /\ toPage' = [toPage EXCEPT ![page] = Tail(s)]
      /\ UNCHANGED <<status, open, toServer>>
    BY DEF ParseMessage, IInv, TypeOK
<1>2. /\ Tail(s) \in Seq(Statuses) /\ Head(s) \in Statuses /\ Head(s) = s[1]
      /\ Len(s) \in Nat \ {0} /\ Len(Tail(s)) = Len(s) - 1
      /\ \A i \in 1 .. Len(s) - 1 : Tail(s)[i] = s[i + 1]
    BY <1>1, HeadTailProperties, EmptySeq
<1>3. page \in open
    BY <1>1 DEF IInv, TypeOK
<1>4. TypeOK'
    BY <1>1, <1>2, <1>3, FlagsOfAStatus DEF IInv, TypeOK
<1>5. s[Len(s)] = status
    BY <1>1, <1>3 DEF IInv, PageInv
<1>6. Tail(s) # <<>> => Tail(s)[Len(Tail(s))] = status
    BY <1>1, <1>5, LastOfTail
<1>7. Tail(s) = <<>> => Head(s) = status
    BY <1>1, <1>5, LastOfTail
<1>8. PageInv(page)'
  <2>1. /\ toPage'[page] = Tail(s) /\ status' = status
        /\ shown'[page] = Head(s) /\ flags'[page] = FlagsOf(Head(s))
      BY <1>1 DEF IInv, TypeOK
  <2> QED
      BY <1>6, <1>7, <2>1 DEF PageInv, Agrees, FlagsOf
<1>9. ASSUME NEW p \in open', p # page PROVE PageInv(p)'
    BY <1>1, <1>9 DEF IInv, TypeOK, PageInv, Agrees
<1> QED
    BY <1>4, <1>8, <1>9 DEF IInv

\* A click has its request on its way.
LEMMA ClickStep ==
    ASSUME IInv, NEW page \in Pages, NEW button \in Buttons, Click(page, button)
    PROVE  IInv'
<1> DEFINE request == [button |-> button, value |-> ~flags[page][button]]
<1>1. /\ page \in open
      /\ flags' = [flags EXCEPT ![page][button] = ~@]
      /\ toServer' = [toServer EXCEPT ![page] = Append(@, request)]
      /\ UNCHANGED <<status, open, shown, toPage>>
    BY DEF Click
<1>2. request \in Requests
    BY DEF Requests
<1>3. /\ Append(toServer[page], request) \in Seq(Requests)
      /\ Append(toServer[page], request) # <<>>
  <2>1. toServer[page] \in Seq(Requests)
      BY DEF IInv, TypeOK
  <2> QED
      BY <1>2, <2>1, AppendProperties
<1>4. flags' \in [Pages -> [Buttons -> BOOLEAN]]
  <2>1. /\ flags \in [Pages -> [Buttons -> BOOLEAN]]
        /\ [flags[page] EXCEPT ![button] = ~@] \in [Buttons -> BOOLEAN]
      BY DEF IInv, TypeOK
  <2>2. flags' = [flags EXCEPT ![page] = [flags[page] EXCEPT ![button] = ~@]]
      BY <1>1
  <2> QED
      BY <2>1, <2>2
<1>5. TypeOK'
    BY <1>1, <1>3, <1>4 DEF IInv, TypeOK
<1>6. ASSUME NEW p \in open' PROVE PageInv(p)'
  <2>1. CASE p = page
      BY <1>1, <1>3, <2>1 DEF IInv, TypeOK, PageInv
  <2>2. CASE p # page
      BY <1>1, <2>2 DEF IInv, TypeOK, PageInv, Agrees
  <2> QED
      BY <2>1, <2>2
<1> QED
    BY <1>5, <1>6 DEF IInv

\* A request brings its answer on its way; one that changes the status, to all.
LEMMA HandleStep ==
    ASSUME IInv, NEW page \in Pages, Handle(page)
    PROVE  IInv'
<1> DEFINE request == Head(toServer[page])
<1>1. /\ toServer[page] # <<>> /\ toServer[page] \in Seq(Requests)
      /\ toServer' = [toServer EXCEPT ![page] = Tail(@)]
      /\ UNCHANGED <<open, flags, shown>>
      /\ \/ request = GetStatus /\ UNCHANGED status /\ SendTo({page})
         \/ request # GetStatus /\ Becomes(request.button, request.value) /\ SendTo(open)
    BY DEF Handle, IInv, TypeOK
<1>2. page \in open
    BY <1>1 DEF IInv, TypeOK
<1>3. request \in Requests /\ Tail(toServer[page]) \in Seq(Requests)
    BY <1>1, HeadTailProperties, EmptySeq
<1>4. status' \in Statuses
  <2>1. CASE request = GetStatus
      BY <1>1, <2>1 DEF IInv, TypeOK
  <2>2. CASE request # GetStatus
    <3>1. request.button \in Buttons /\ request.value \in BOOLEAN
        BY <1>3, <2>2 DEF Requests
    <3> QED
        BY <1>1, <2>2, <3>1, BecomesAStatus DEF IInv, TypeOK
  <2> QED
      BY <2>1, <2>2
<1>5. PICK pages : /\ SendTo(pages) /\ page \in pages /\ pages \subseteq open
                   /\ pages = open \/ UNCHANGED status
    BY <1>1, <1>2
<1>6. /\ toPage' \in [Pages -> Seq(Statuses)]
      /\ \A p \in Pages \cap pages :
            toPage'[p] # <<>> /\ toPage'[p][Len(toPage'[p])] = status'
      /\ \A p \in Pages \ pages : toPage'[p] = toPage[p]
    BY <1>4, <1>5, Sending DEF IInv
<1>7. TypeOK'
    BY <1>1, <1>2, <1>3, <1>4, <1>5, <1>6 DEF IInv, TypeOK
<1>8. ASSUME NEW p \in open' PROVE PageInv(p)'
  <2>1. p \in Pages
      BY <1>1 DEF IInv, TypeOK
  <2>2. CASE p \in pages
      BY <1>6, <2>1, <2>2 DEF PageInv
  <2>3. CASE p \notin pages
    <3>1. p # page /\ UNCHANGED status /\ toPage'[p] = toPage[p] /\ toServer'[p] = toServer[p]
        BY <1>1, <1>5, <1>6, <2>1, <2>3 DEF IInv, TypeOK
    <3> QED
        BY <1>1, <3>1 DEF IInv, PageInv, Agrees
  <2> QED
      BY <2>2, <2>3
<1> QED
    BY <1>7, <1>8 DEF IInv

LEMMA DoorSwitchStep ==
    ASSUME IInv, DoorSwitch
    PROVE  IInv'
<1>1. status' \in Statuses
    BY BecomesAStatus DEF DoorSwitch, IInv, TypeOK
<1>2. /\ toPage' \in [Pages -> Seq(Statuses)]
      /\ \A p \in Pages \cap open :
            toPage'[p] # <<>> /\ toPage'[p][Len(toPage'[p])] = status'
      /\ \A p \in Pages \ open : toPage'[p] = toPage[p]
    BY <1>1, Sending DEF DoorSwitch, IInv
<1>3. TypeOK'
    BY <1>1, <1>2 DEF DoorSwitch, IInv, TypeOK
<1>4. \A p \in open' : PageInv(p)'
    BY <1>2 DEF DoorSwitch, IInv, TypeOK, PageInv
<1> QED
    BY <1>3, <1>4 DEF IInv

LEMMA StepInv == IInv /\ [Next]_vars => IInv'
<1>1. ASSUME IInv, UNCHANGED vars PROVE IInv'
    BY <1>1 DEF vars, counts, IInv, TypeOK, PageInv, Agrees
<1> QED
    BY <1>1, LoadStep, LeaveStep, ParseMessageStep, HandleStep, ClickStep, DoorSwitchStep
       DEF Next

THEOREM Invariance == Spec => []IInv
BY InitInv, StepInv, PTL DEF Spec

\* Nothing is on its way to or from a page that has left.
THEOREM TypeCorrect == Spec => []TypeOK
<1>1. IInv => TypeOK
    BY DEF IInv
<1> QED
    BY <1>1, Invariance, PTL

\* A page that has nothing on its way shows how things are, and so do its flags.
THEOREM QuietPagesAgree == Spec => []QuietMeansAgreed
<1>1. IInv => QuietMeansAgreed
    BY DEF IInv, PageInv, QuietMeansAgreed
<1> QED
    BY <1>1, Invariance, PTL
==============================================================================
