-------------------------- MODULE DeviceLinkProofs --------------------------
(***************************************************************************)
(* Theorems about DeviceLink, for any number of reports and of plugs.      *)
(***************************************************************************)
EXTENDS DeviceLink, SequenceTheorems, TLAPS

Busy == {"read", "reading", "crashed"}

\* A handle is a device that has been seen; the device there is the last one.
HandleInv == /\ device \in {None, plugs}
             /\ handle <= plugs
             /\ written <= plugs
             /\ upc = "open" /\ device # None => handle # device

\* While the addressee is still there, its handle is the one in use, and what
\* it owes and what has been read make up the answer.
AddresseeInv ==
    /\ cpc \in Busy /\ written # None /\ written = device
         => /\ handle = device
            /\ cpc # "crashed"
            /\ cpc = "reading" => reading = device
            /\ owed + cnt = Reports
    /\ owed > 0 => device # None /\ device = written /\ cpc \in {"read", "reading"}

\* Nothing but reports of the addressee has been read.
SourceInv == /\ cpc = "write" => cnt = 0 /\ sources = {} /\ written = None
             /\ cpc \in Busy => /\ cnt = 0 => sources = {}
                                /\ cnt > 0 => written # None /\ sources = {written}
             /\ cpc \in {"read", "reading"} => cnt < Reports
             /\ cpc # "idle" => outcome = "none"
             /\ cpc = "reading" => reading # None
             /\ outcome = "answer" => cnt = Reports /\ written # None /\ sources = {written}

IInv == TypeOK /\ HandleInv /\ AddresseeInv /\ SourceInv
-----------------------------------------------------------------------------
LEMMA InitInv == Init => IInv
  <1> SUFFICES ASSUME Init PROVE IInv
    OBVIOUS
  <1>0. signals \in Seq(BOOLEAN)
    <2>1. <<>> \in Seq(BOOLEAN)
      BY EmptySeq
    <2> QED
      BY <2>1 DEF Init
  <1>d. device \in 0..MaxPlugs /\ 0 \in 0..MaxPlugs /\ 0 \in 0..Reports
    BY LinkAssumption DEF Init, None
  <1>1. TypeOK
    BY <1>0, <1>d DEF Init, TypeOK, None
  <1>2. HandleInv /\ AddresseeInv /\ SourceInv
    BY LinkAssumption DEF Init, HandleInv, AddresseeInv, SourceInv, None, Busy
  <1> QED
    BY <1>1, <1>2 DEF IInv

\* What is done to the signals in the queue of the main thread.
LEMMA SignalTypes ==
    ASSUME TypeOK
    PROVE  /\ \A b \in BOOLEAN : Append(signals, b) \in Seq(BOOLEAN)
           /\ signals # <<>> => Head(signals) \in BOOLEAN /\ Tail(signals) \in Seq(BOOLEAN)
  BY AppendProperties, HeadTailProperties DEF TypeOK

LEMMA UserInv == ASSUME IInv, Plug \/ Unplug PROVE IInv'
  <1> USE LinkAssumption DEF IInv, None, envVars, usbVars, guiVars, cmdVars
  <1>1. CASE Plug
    <2>1. TypeOK'
      BY <1>1 DEF Plug, TypeOK, Devices
    <2>2. HandleInv' /\ AddresseeInv' /\ SourceInv'
      BY <1>1 DEF Plug, TypeOK, HandleInv, AddresseeInv, SourceInv, Busy
    <2> QED
      BY <2>1, <2>2
  <1>2. CASE Unplug
    <2>1. TypeOK'
      BY <1>2 DEF Unplug, TypeOK
    <2>2. HandleInv' /\ AddresseeInv' /\ SourceInv'
      BY <1>2 DEF Unplug, TypeOK, HandleInv, AddresseeInv, SourceInv, Busy
    <2> QED
      BY <2>1, <2>2
  <1> QED
    BY <1>1, <1>2

LEMMA UsbInv == ASSUME IInv, UsbStep PROVE IInv'
  <1> USE LinkAssumption DEF IInv, None, envVars, usbVars, guiVars, cmdVars
  <1>1. CASE Check \/ Enumerate \/ Sleep
    <2>1. TypeOK'
      BY <1>1 DEF Check, Enumerate, Sleep, TypeOK
    <2>2. HandleInv' /\ AddresseeInv' /\ SourceInv'
      BY <1>1 DEF Check, Enumerate, Sleep, TypeOK, HandleInv, AddresseeInv, SourceInv, Busy
    <2> QED
      BY <2>1, <2>2
  <1>2. CASE Open
    <2>1. TypeOK'
      BY <1>2 DEF Open, TypeOK
    <2>2. HandleInv'
      BY <1>2 DEF Open, TypeOK, HandleInv
    <2>3. AddresseeInv'
      BY <1>2 DEF Open, TypeOK, HandleInv, AddresseeInv, Busy
    <2>4. SourceInv'
      BY <1>2 DEF Open, TypeOK, SourceInv, Busy
    <2> QED
      BY <2>1, <2>2, <2>3, <2>4
  <1>3. CASE Tell
    <2>1. TypeOK'
      BY <1>3, SignalTypes DEF Tell, TypeOK
    <2>2. HandleInv' /\ AddresseeInv' /\ SourceInv'
      BY <1>3 DEF Tell, TypeOK, HandleInv, AddresseeInv, SourceInv, Busy
    <2> QED
      BY <2>1, <2>2
  <1> QED
    BY <1>1, <1>2, <1>3 DEF UsbStep

LEMMA MainInv == ASSUME IInv, ClosePrompt \/ MainStep PROVE IInv'
  <1> USE DEF IInv, envVars, usbVars, cmdVars
  <1>1. TypeOK'
    <2>1. CASE IsOpen
      BY <2>1 DEF IsOpen, TypeOK
    <2>2. CASE Construct
      BY <2>2 DEF Construct, TypeOK
    <2>3. CASE Publish
      BY <2>3 DEF Publish, TypeOK
    <2>4. CASE Deliver
      <3>1. connected' \in BOOLEAN /\ signals' \in Seq(BOOLEAN)
        BY <2>4, SignalTypes DEF Deliver
      <3> QED
        BY <2>4, <3>1 DEF Deliver, TypeOK
    <2>5. CASE ClosePrompt
      BY <2>5 DEF ClosePrompt, TypeOK
    <2> QED
      BY <2>1, <2>2, <2>3, <2>4, <2>5 DEF MainStep
  <1>2. UNCHANGED <<device, plugs, owed, handle, upc, cpc, reading, cnt, written, sources, outcome>>
    BY DEF MainStep, IsOpen, Construct, ClosePrompt, Publish, Deliver
  <1>3. HandleInv' /\ AddresseeInv' /\ SourceInv'
    BY <1>2 DEF HandleInv, AddresseeInv, SourceInv
  <1> QED
    BY <1>1, <1>3

LEMMA CmdInv == ASSUME IInv, Start \/ CmdStep PROVE IInv'
  <1> USE LinkAssumption DEF IInv, None, envVars, usbVars, guiVars
  <1>1. CASE Start
    <2>1. TypeOK'
      BY <1>1 DEF Start, TypeOK
    <2>2. HandleInv' /\ AddresseeInv' /\ SourceInv'
      BY <1>1 DEF Start, TypeOK, HandleInv, AddresseeInv, SourceInv, Busy
    <2> QED
      BY <2>1, <2>2
  <1>2. CASE Crash
    <2>1. TypeOK'
      BY <1>2 DEF Crash, TypeOK
    <2>2. HandleInv' /\ AddresseeInv' /\ SourceInv'
      BY <1>2 DEF Crash, TypeOK, HandleInv, AddresseeInv, SourceInv, Busy
    <2> QED
      BY <2>1, <2>2
  <1>3. CASE Write
    <2>1. TypeOK'
      BY <1>3 DEF Write, TypeOK
    <2>2. HandleInv' /\ AddresseeInv' /\ SourceInv'
      BY <1>3 DEF Write, TypeOK, HandleInv, AddresseeInv, SourceInv, Busy
    <2> QED
      BY <2>1, <2>2
  <1>4. CASE ReadCall
    <2>1. TypeOK'
      BY <1>4 DEF ReadCall, TypeOK
    <2>2. HandleInv' /\ AddresseeInv' /\ SourceInv'
      BY <1>4 DEF ReadCall, TypeOK, HandleInv, AddresseeInv, SourceInv, Busy
    <2> QED
      BY <2>1, <2>2
  <1>5. CASE ReadReport
    <2>1. device # None /\ device = written /\ handle = device /\ owed + cnt = Reports
      BY <1>5 DEF ReadReport, TypeOK, AddresseeInv, Busy
    <2>2. sources' = {written} /\ cnt' \in 1..Reports /\ owed' + cnt' = Reports
      BY <1>5, <2>1 DEF ReadReport, TypeOK, SourceInv, Busy
    <2>3. TypeOK'
      BY <1>5, <2>1, <2>2 DEF ReadReport, TypeOK, Devices
    <2>4. HandleInv' /\ AddresseeInv'
      BY <1>5, <2>1, <2>2 DEF ReadReport, TypeOK, HandleInv, AddresseeInv, Busy
    <2>5. SourceInv'
      BY <1>5, <2>1, <2>2 DEF ReadReport, TypeOK, SourceInv, Busy
    <2> QED
      BY <2>3, <2>4, <2>5
  <1>6. CASE ReadFail
    <2>1. TypeOK'
      BY <1>6 DEF ReadFail, TypeOK
    <2>2. HandleInv' /\ AddresseeInv' /\ SourceInv'
      BY <1>6 DEF ReadFail, TypeOK, HandleInv, AddresseeInv, SourceInv, Busy
    <2> QED
      BY <2>1, <2>2
  <1> QED
    BY <1>1, <1>2, <1>3, <1>4, <1>5, <1>6 DEF CmdStep

LEMMA NextInv == IInv /\ [Next]_vars => IInv'
  <1> SUFFICES ASSUME IInv, [Next]_vars PROVE IInv'
    OBVIOUS
  <1>1. CASE UNCHANGED vars
    BY <1>1 DEF IInv, TypeOK, HandleInv, AddresseeInv, SourceInv, vars, envVars, usbVars,
       guiVars, cmdVars
  <1> QED
    BY <1>1, UserInv, UsbInv, MainInv, CmdInv DEF Next, Crashed

LEMMA Invariance == Spec => []IInv
  BY InitInv, NextInv, PTL DEF Spec, SafeSpec

\* The variables of the three threads keep their types.
THEOREM TypeCorrect == Spec => []TypeOK
  <1>1. IInv => TypeOK
    BY DEF IInv
  <1> QED
    BY <1>1, Invariance, PTL

\* Although HID_HANDLE is replaced under sendCommand, an answer that it returns
\* is never put together from two devices, nor taken from the wrong one.
THEOREM AnswersAreGenuine == Spec => []AnswerFromAddressee
  <1>1. IInv => AnswerFromAddressee
    BY DEF IInv, SourceInv, AnswerFromAddressee
  <1> QED
    BY <1>1, Invariance, PTL

\* A command whose device stays plugged in keeps its handle.
THEOREM UndisturbedCommands == Spec => []UndisturbedCommandSucceeds
  <1>1. IInv => UndisturbedCommandSucceeds
    BY DEF IInv, AddresseeInv, UndisturbedCommandSucceeds, Busy
  <1> QED
    BY <1>1, Invariance, PTL

\* With a calm user an open handle is that of the present device, if there is
\* one: Plug waits for Open to have dropped the dead handle.
CalmInv == /\ calm /\ device # None /\ handle # None => handle = device
           /\ upc = "enumerate" => handle # None

LEMMA CalmInvariance == Spec => []CalmInv
  <1>1. Init => CalmInv
    BY DEF Init, CalmInv, None
  <1>2. CalmInv /\ [Next]_vars => CalmInv'
    <2> SUFFICES ASSUME CalmInv, [Next]_vars PROVE CalmInv'
      OBVIOUS
    <2> USE DEF CalmInv, envVars, usbVars, guiVars, cmdVars
    <2>1. CASE Plug \/ Unplug
      BY <2>1 DEF Plug, Unplug
    <2>2. CASE UsbStep
      BY <2>2 DEF UsbStep, Check, Enumerate, Open, Tell, Sleep
    <2>3. CASE ClosePrompt \/ MainStep
      BY <2>3 DEF MainStep, IsOpen, Construct, ClosePrompt, Publish, Deliver
    <2>4. CASE Start \/ CmdStep
      BY <2>4 DEF Start, CmdStep, Crash, Write, ReadCall, ReadReport, ReadFail
    <2>5. CASE UNCHANGED vars
      BY <2>5 DEF vars
    <2> QED
      BY <2>1, <2>2, <2>3, <2>4, <2>5 DEF Next, Crashed
  <1> QED
    BY <1>1, <1>2, PTL DEF Spec, SafeSpec

\* If the poll has missed a device before the next one is plugged in, then
\* isConnectionOpen says yes only for a handle of the device that is there.
THEOREM CalmConnections == Spec => OpenMeansOpenIfCalm
  <1>1. CalmInv /\ [Next]_vars => [calm /\ upc = "enumerate" /\ upc' = "sleep" => handle = device]_vars
    <2> SUFFICES ASSUME CalmInv, Next, calm, upc = "enumerate", upc' = "sleep"
                 PROVE  handle = device
      BY DEF vars, envVars, usbVars
    <2>1. Enumerate
      BY DEF Next, Crashed, Plug, Unplug, UsbStep, Check, Enumerate, Open, Tell, Sleep, MainStep,
         IsOpen, Construct, ClosePrompt, Publish, Deliver, Start, CmdStep, Crash, Write, ReadCall, ReadReport,
         ReadFail, vars, envVars, usbVars, guiVars, cmdVars
    <2> QED
      BY <2>1 DEF Enumerate, CalmInv
  <1> QED
    BY <1>1, CalmInvariance, PTL DEF Spec, SafeSpec, OpenMeansOpenIfCalm
=============================================================================
